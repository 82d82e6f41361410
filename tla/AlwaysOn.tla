------------------------------ MODULE AlwaysOn ------------------------------
(***************************************************************************)
(* Always-on enrolment of one user and everything in the daemon that races *)
(* over it: the alwaysOn.* and recovery.cleanup handlers, the replay loop, *)
(* the session watcher and the shutdown of the process (server.rs,         *)
(* always_on.rs and main.rs in crates/daemon/src).                         *)
(*                                                                         *)
(* A handler is a sequence of closures on blocking threads: first one that *)
(* locks the store, then one that locks the core, and so on.  Between two  *)
(* of them no lock is held.  A closure that has been spawned runs to its   *)
(* end whatever becomes of the handler: when the dispatch timeout drops    *)
(* the handler, and when the runtime shuts down.  Each closure is one step *)
(* here, but for the replay pass, which holds the store while it waits for *)
(* the core.  Documents of different users are independent files, so one   *)
(* user is modelled, with definitions of the static-routes kind.           *)
(***************************************************************************)
EXTENDS FiniteSets

CONSTANTS
    Clients,    \* connections of the user: a window, the command line, ...
    Slow,       \* the ones whose requests may run into the dispatch timeout
    Defs        \* the definitions (owners) that may be enrolled

ASSUME DefsAssumption == Defs # {}

VARIABLES
    stored,     \* stored[d]: "absent", "disabled" or "enabled" in the document
    paused,     \* the document's pause flag
    live,       \* live[d]: "no"; "up"; "lost": owned, routes flushed; or "stale"
    req,        \* req[c]: the request the connection is handling
    late,       \* late[c]: the closure of a request that timed out, if any
    replay,     \* the replay pass: "off", "queued", or "store" (lock held)
    session,    \* the session cleanup: "off" or "queued"
    keep,       \* the owners it will keep
    phase,      \* of the process
    crossed,    \* history: definitions whose stop crossed an apply or enrolment
    cut         \* history: the last pause lost its cleanup to a timeout or stop

vars == <<stored, paused, live, req, late, replay, session, keep, phase, crossed, cut>>

Ops   == {"set", "remove", "resume", "cleanup"}
Steps == {"idle", "store", "core", "final"}

\* d matters to set and remove, todo to resume; queued: the closure is spawned.
Requests == [op : Ops, step : Steps, d : Defs, todo : SUBSET Defs, queued : BOOLEAN]
NoDef    == CHOOSE d \in Defs : TRUE
NoReq    == [op |-> "set", step |-> "idle", d |-> NoDef, todo |-> {}, queued |-> FALSE]

Busy(c) == req[c].step # "idle"

\* Shapes; nothing runs in a process that is gone.
TypeOK ==
    /\ stored \in [Defs -> {"absent", "disabled", "enabled"}]
    /\ paused \in BOOLEAN
    /\ live \in [Defs -> {"no", "up", "lost", "stale"}]
    /\ req \in [Clients -> Requests]
    /\ late \in [Clients -> Requests]
    /\ replay \in {"off", "queued", "store"}
    /\ session \in {"off", "queued"}
    /\ keep \in SUBSET Defs
    /\ phase \in {"serving", "stopping", "swept", "returned", "exited"}
    /\ crossed \in SUBSET Defs
    /\ cut \in BOOLEAN
    /\ phase = "exited" => /\ \A c \in Clients : ~Busy(c) /\ late[c] = NoReq
                           /\ replay = "off" /\ session = "off"

Init ==
    /\ stored \in [Defs -> {"absent", "enabled"}]
    /\ paused = FALSE
    /\ live = [d \in Defs |-> "no"]
    /\ req = [c \in Clients |-> NoReq]
    /\ late = [c \in Clients |-> NoReq]
    /\ replay = "off"
    /\ session = "off"
    /\ keep = {}
    /\ phase = "serving"
    /\ crossed = {}
    /\ cut = FALSE

-----------------------------------------------------------------------------
\* Bug: replay and the session watcher do not look at the pause.
Replayable_Paused == {d \in Defs : stored[d] = "enabled"}

\* replayable_owners: enabled entries, unless the document is paused.
Replayable == IF paused THEN {} ELSE {d \in Defs : stored[d] = "enabled"}

StoreFree == replay # "store"

\* Closures that will apply d when they get the core.
Applies(r, d) ==
    /\ r.step = "core"
    /\ r.op \in {"set", "resume"}
    /\ IF r.op = "set" THEN r.d = d ELSE d \in r.todo
ApplyInFlight(d) == \E c \in Clients : Applies(req[c], d) \/ Applies(late[c], d)
RemoveInFlight(d) ==
    \E c \in Clients : \E r \in {req[c], late[c]} :
        r.op = "remove" /\ r.d = d /\ r.step \in {"core", "final"}

\* apply_definition: an owner that is there already is left as it is.  A
\* failed apply rolls back, and a failed rollback leaves the entry stale.
Apply(d) ==
    IF live[d] # "no" THEN UNCHANGED live
    ELSE \E l \in {"up", "no", "stale"} : live' = [live EXCEPT ![d] = l]

\* What is left after owners are torn down; those in stuck could not be.
Torn(owners, stuck) ==
    [d \in Defs |-> IF d \notin owners \/ live[d] = "no" THEN live[d]
                    ELSE IF d \in stuck THEN "stale" ELSE "no"]

-----------------------------------------------------------------------------
(* The handlers.                                                           *)

Start(c, op, d) ==
    /\ phase \in {"serving", "stopping", "swept"}
    /\ ~Busy(c)
    /\ req' = [req EXCEPT ![c] = [NoReq EXCEPT !.op = op, !.d = d, !.step = "store",
                                               !.queued = TRUE]]
    /\ UNCHANGED <<stored, paused, live, late, replay, session, keep, phase, crossed, cut>>

\* The handler goes on to its next closure, unless the runtime is shut down.
Spawn(c) ==
    /\ phase \in {"serving", "stopping", "swept"}
    /\ Busy(c) /\ ~req[c].queued
    /\ req' = [req EXCEPT ![c].queued = TRUE]
    /\ UNCHANGED <<stored, paused, live, late, replay, session, keep, phase, crossed, cut>>

\* What a store closure does to the document; ends: the handler does not go
\* on after it.  Pausing and disabling note which applies they cross, enrolling
\* which removals.
StoreEffect(r, ends) ==
    CASE r.op = "set" ->
            /\ stored' = [stored EXCEPT ![r.d] = "enabled"]
            /\ UNCHANGED <<paused, cut>>
            /\ crossed' = IF RemoveInFlight(r.d) THEN crossed \cup {r.d} ELSE crossed
      [] r.op = "remove" /\ stored[r.d] = "absent" ->
            UNCHANGED <<stored, paused, crossed, cut>>
      [] r.op = "remove" /\ stored[r.d] # "absent" /\ r.step = "store" ->
            /\ stored' = [stored EXCEPT ![r.d] = "disabled"]
            /\ UNCHANGED <<paused, cut>>
            /\ crossed' = IF ApplyInFlight(r.d) THEN crossed \cup {r.d} ELSE crossed
      [] r.op = "remove" /\ stored[r.d] # "absent" /\ r.step = "final" ->
            /\ stored' = [stored EXCEPT ![r.d] = "absent"]
            /\ UNCHANGED <<paused, crossed, cut>>
      [] r.op = "resume" ->
            /\ paused' = FALSE
            /\ UNCHANGED <<stored, crossed, cut>>
      [] r.op = "cleanup" ->
            /\ paused' = TRUE
            /\ cut' = ends
            /\ crossed' = crossed \cup {d \in Defs : ApplyInFlight(d)}
            /\ UNCHANGED stored

\* Where the handler goes after its store closure: set skips the core while
\* paused, remove stops at an unknown owner, resume applies what is enabled.
AfterStore(r) ==
    CASE r.op = "set" -> IF paused THEN NoReq
                         ELSE [r EXCEPT !.step = "core", !.queued = FALSE]
      [] r.op = "remove" -> IF r.step = "final" \/ stored[r.d] = "absent" THEN NoReq
                            ELSE [r EXCEPT !.step = "core", !.queued = FALSE]
      [] r.op = "resume" ->
            LET enabled == {d \in Defs : stored[d] = "enabled"}
            IN  IF enabled = {} THEN NoReq
                ELSE [r EXCEPT !.step = "core", !.queued = FALSE, !.todo = enabled]
      [] r.op = "cleanup" -> [r EXCEPT !.step = "core", !.queued = FALSE]

StoreStep(c) ==
    /\ req[c].step \in {"store", "final"} /\ req[c].queued
    /\ StoreFree
    /\ StoreEffect(req[c], FALSE)
    /\ req' = [req EXCEPT ![c] = AfterStore(@)]
    /\ UNCHANGED <<live, late, replay, session, keep, phase>>

\* The document cannot be read or saved, the table is full, or the definition
\* differs from the stored one: the request ends with an error.  The error may
\* come after the new document has been renamed into place.
StoreFails(c) ==
    /\ req[c].step \in {"store", "final"} /\ req[c].queued
    /\ StoreFree
    /\ StoreEffect(req[c], TRUE) \/ UNCHANGED <<stored, paused, crossed, cut>>
    /\ req' = [req EXCEPT ![c] = NoReq]
    /\ UNCHANGED <<live, late, replay, session, keep, phase>>

\* set, and one definition of resume: apply, or fail to.
ApplyStep(c, d) ==
    /\ req[c].queued
    /\ Applies(req[c], d)
    /\ Apply(d)
    /\ req' = [req EXCEPT ![c] =
                 IF req[c].op = "resume" /\ req[c].todo # {d}
                 THEN [req[c] EXCEPT !.todo = @ \ {d}, !.queued = FALSE] ELSE NoReq]
    /\ UNCHANGED <<stored, paused, late, replay, session, keep, phase, crossed, cut>>

\* On failure the definition stays disabled and the request ends.
RemoveStep(c) ==
    /\ req[c].step = "core" /\ req[c].queued /\ req[c].op = "remove"
    /\ \/ /\ live' = [live EXCEPT ![req[c].d] = "no"]
          /\ req' = [req EXCEPT ![c].step = "final", ![c].queued = FALSE]
       \/ /\ live[req[c].d] # "no"
          /\ live' = [live EXCEPT ![req[c].d] = "stale"]
          /\ req' = [req EXCEPT ![c] = NoReq]
    /\ UNCHANGED <<stored, paused, late, replay, session, keep, phase, crossed, cut>>

CleanupStep(c) ==
    /\ req[c].step = "core" /\ req[c].queued /\ req[c].op = "cleanup"
    /\ \E stuck \in SUBSET Defs : live' = Torn(Defs, stuck)
    /\ req' = [req EXCEPT ![c] = NoReq]
    /\ crossed' = {d \in crossed : ApplyInFlight(d) \/ RemoveInFlight(d)}
    /\ UNCHANGED <<stored, paused, late, replay, session, keep, phase, cut>>

\* The dispatch timeout answers the client and drops the handler.  A spawned
\* closure lingers (one per connection here); a handler between two closures
\* never gets to the next one.
Timeout(c) ==
    /\ c \in Slow
    /\ Busy(c)
    /\ late[c] = NoReq
    /\ late' = [late EXCEPT ![c] = IF req[c].queued THEN req[c] ELSE NoReq]
    /\ req' = [req EXCEPT ![c] = NoReq]
    /\ cut' = (cut \/ req[c].op = "cleanup")
    /\ UNCHANGED <<stored, paused, live, replay, session, keep, phase, crossed>>

LateStore(c) ==
    /\ late[c].step \in {"store", "final"}
    /\ StoreFree
    /\ StoreEffect(late[c], TRUE) \/ UNCHANGED <<stored, paused, crossed, cut>>
    /\ late' = [late EXCEPT ![c] = NoReq]
    /\ UNCHANGED <<live, req, replay, session, keep, phase>>

LateCore(c) ==
    /\ late[c].step = "core"
    /\ CASE late[c].op = "cleanup" -> \E stuck \in SUBSET Defs : live' = Torn(Defs, stuck)
         [] late[c].op = "remove"  -> \E stuck \in SUBSET Defs : live' = Torn({late[c].d}, stuck)
         [] late[c].op = "set"     -> Apply(late[c].d)
         [] late[c].op = "resume"  -> \E d \in late[c].todo : Apply(d)
    /\ late' = [late EXCEPT ![c] = NoReq]
    /\ UNCHANGED <<stored, paused, req, replay, session, keep, phase, crossed, cut>>

-----------------------------------------------------------------------------
(* The replay loop, every 10 s.                                            *)

ReplayTick ==
    /\ phase = "serving"
    /\ replay = "off"
    /\ replay' = "queued"
    /\ UNCHANGED <<stored, paused, live, req, late, session, keep, phase, crossed, cut>>

ReplayLockStore ==
    /\ replay = "queued"
    /\ replay' = "store"
    /\ UNCHANGED <<stored, paused, live, req, late, session, keep, phase, crossed, cut>>

\* Bug: an owner whose routes are gone still counts as active.
ReplayRun_KeepsLost(works, stuck) ==
    /\ replay = "store"
    /\ replay' = "off"
    /\ live' = [d \in Defs |-> IF d \in Replayable \cap works /\ live[d] = "no" THEN "up"
                                                                         ELSE live[d]]
    /\ UNCHANGED <<stored, paused, req, late, session, keep, phase, crossed, cut>>

\* Under both locks: replayable owners whose routes are gone are forgotten; if
\* that fails for one (stuck) the pass ends, else what is replayable and not
\* owned is applied; works: the ones that can be.
ReplayRun(works, stuck) ==
    LET lost == {d \in Replayable : live[d] = "lost"}
        left == Torn(lost, stuck)
    IN  /\ replay = "store"
        /\ replay' = "off"
        /\ live' = IF lost \cap stuck # {} THEN left
                   ELSE [d \in Defs |-> IF d \in Replayable \cap works /\ left[d] = "no"
                                        THEN "up" ELSE left[d]]
        /\ UNCHANGED <<stored, paused, req, late, session, keep, phase, crossed, cut>>

\* The routes or the documents cannot be read.
ReplaySkips ==
    /\ replay = "store"
    /\ replay' = "off"
    /\ UNCHANGED <<stored, paused, live, req, late, session, keep, phase, crossed, cut>>

\* The link of an owned definition flaps and the kernel drops its routes.
Flap(d) ==
    /\ live[d] = "up"
    /\ live' = [live EXCEPT ![d] = "lost"]
    /\ UNCHANGED <<stored, paused, req, late, replay, session, keep, phase, crossed, cut>>

(* The session watcher: the user's processes are gone, the replayable      *)
(* owners are noted under the store lock (none, if the documents cannot be *)
(* read), and the cleanup is spawned.  Requests may still be in progress.  *)
SessionExpires ==
    /\ phase = "serving"
    /\ session = "off"
    /\ StoreFree
    /\ keep' \in {Replayable, {}}
    /\ session' = "queued"
    /\ UNCHANGED <<stored, paused, live, req, late, replay, phase, crossed, cut>>

SessionRun ==
    /\ session = "queued"
    /\ session' = "off"
    /\ keep' = {}
    /\ \E stuck \in SUBSET Defs : live' = Torn(Defs \ keep, stuck)
    /\ UNCHANGED <<stored, paused, req, late, replay, phase, crossed, cut>>

-----------------------------------------------------------------------------
(* SIGTERM: the loops are aborted (a spawned closure is not), everything   *)
(* is torn down, run() returns, and dropping the runtime waits for the     *)
(* closures that were spawned.                                             *)
Sigterm ==
    /\ phase = "serving"
    /\ phase' = "stopping"
    /\ UNCHANGED <<stored, paused, live, req, late, replay, session, keep, crossed, cut>>

\* Bug: the sweep is tried again until nothing is left.
Shutdown_Retries ==
    /\ phase = "stopping"
    /\ \E stuck \in SUBSET Defs :
          /\ live' = Torn(Defs, stuck)
          /\ phase' = IF \E d \in Defs : live'[d] # "no" THEN "stopping" ELSE "swept"
    /\ UNCHANGED <<stored, paused, req, late, replay, session, keep, crossed, cut>>

Shutdown ==
    /\ phase = "stopping"
    /\ \E stuck \in SUBSET Defs : live' = Torn(Defs, stuck)
    /\ phase' = "swept"
    /\ UNCHANGED <<stored, paused, req, late, replay, session, keep, crossed, cut>>

\* A handler that has paused the document and will never run its cleanup.
CutsOff(c) == req[c].op = "cleanup" /\ req[c].step = "core" /\ ~req[c].queued

RunReturns ==
    /\ phase = "swept"
    /\ phase' = "returned"
    /\ req' = [c \in Clients |-> IF req[c].queued THEN req[c] ELSE NoReq]
    /\ cut' = (cut \/ \E c \in Clients : CutsOff(c))
    /\ UNCHANGED <<stored, paused, live, late, replay, session, keep, crossed>>

\* A closure that ends after the runtime is shut down has nobody to go on.
DropHandler(c) ==
    /\ phase = "returned"
    /\ Busy(c) /\ ~req[c].queued
    /\ req' = [req EXCEPT ![c] = NoReq]
    /\ cut' = (cut \/ CutsOff(c))
    /\ UNCHANGED <<stored, paused, live, late, replay, session, keep, phase, crossed>>

Exit ==
    /\ phase = "returned"
    /\ \A c \in Clients : ~Busy(c) /\ late[c] = NoReq
    /\ replay = "off" /\ session = "off"
    /\ phase' = "exited"
    /\ UNCHANGED <<stored, paused, live, req, late, replay, session, keep, crossed, cut>>

\* The next start: open() tears down what the journal lists, then replays.
Restart(works, stuck) ==
    LET left == Torn(Defs, stuck)
    IN  /\ phase = "exited"
        /\ phase' = "serving"
        /\ live' = [d \in Defs |-> IF d \in Replayable \cap works /\ left[d] = "no"
                                   THEN "up" ELSE left[d]]
        /\ UNCHANGED <<stored, paused, req, late, replay, session, keep, crossed, cut>>

Handler(c) ==
    \/ Spawn(c)
    \/ StoreStep(c)
    \/ StoreFails(c)
    \/ \E d \in Defs : ApplyStep(c, d)
    \/ RemoveStep(c)
    \/ CleanupStep(c)
    \/ LateStore(c)
    \/ LateCore(c)
    \/ DropHandler(c)

ReplayWork ==
    \/ ReplayLockStore
    \/ \E works, stuck \in SUBSET Defs : ReplayRun(works, stuck)
    \/ ReplaySkips

Stop == Shutdown \/ RunReturns \/ Exit

Next ==
    \/ \E c \in Clients, op \in Ops, d \in Defs : Start(c, op, d)
    \/ \E c \in Clients : Handler(c)
    \/ \E c \in Clients : Timeout(c)
    \/ ReplayTick
    \/ ReplayWork
    \/ \E d \in Defs : Flap(d)
    \/ SessionExpires
    \/ SessionRun
    \/ Sigterm
    \/ Stop
    \/ \E works, stuck \in SUBSET Defs : Restart(works, stuck)

\* Threads and timers go on; a replay that is tried again and again works in
\* the end (the interface is there).
Fairness ==
    /\ \A c \in Clients : WF_vars(Handler(c))
    /\ WF_vars(ReplayTick)
    /\ WF_vars(ReplayWork)
    /\ SF_vars(ReplayRun(Defs, {}))
    /\ WF_vars(SessionRun)
    /\ WF_vars(Stop)

Spec == Init /\ [][Next]_vars /\ Fairness

-----------------------------------------------------------------------------
Quiet ==
    /\ \A c \in Clients : ~Busy(c) /\ late[c] = NoReq
    /\ replay = "off" /\ session = "off"

Up(d) == live[d] \in {"up", "lost"}

\* "Disconnect all" holds: with nothing in flight, a paused document has no
\* owner up, unless the pause crossed an apply in flight or was cut off.  No
\* enrolment, replay, session cleanup or restart in between undoes it.
PauseHolds == Quiet /\ paused => \A d \in Defs : Up(d) => d \in crossed \/ cut

\* A removed definition is not up: the handler drops the entry only after the
\* owner is gone and nothing brings it back, unless the removal crossed an
\* apply or an enrolment of the same definition.
RemovedStaysDown ==
    Quiet => \A d \in Defs : stored[d] = "absent" /\ Up(d) => d \in crossed

\* What the user has put down stays down, and nothing of an exited process
\* runs on.
StaysDown == TypeOK /\ PauseHolds /\ RemovedStaysDown

\* An enrolled definition comes back after any flap, session cleanup or
\* failed apply, as long as it stays enrolled and the daemon serves; only an
\* entry whose teardown failed blocks it.
EnrolledComesBack ==
    \A d \in Defs :
        d \in Replayable /\ phase = "serving" ~>
            live[d] \in {"up", "stale"} \/ d \notin Replayable \/ phase # "serving"

\* SIGTERM ends the process: no closure waits for a lock for ever.
StopEnds == phase = "stopping" ~> phase = "exited"
=============================================================================
