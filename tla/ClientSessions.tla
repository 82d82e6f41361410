--------------------------- MODULE ClientSessions ---------------------------
(***************************************************************************)
(* The sessions of one user: the daemon follows the processes that connect *)
(* to it (ClientTracker) and, once the last of them has been dead for a    *)
(* grace period, tears the user's tunnels down (watch_client_sessions, in  *)
(* crates/daemon/src/server.rs).  Time passes in watcher intervals.  The   *)
(* tunnel stands for all owners of the user that no always-on document     *)
(* lists; those that one lists are the subject of AlwaysOn.                *)
(***************************************************************************)
EXTENDS Naturals

CONSTANTS
    Procs,      \* processes of the user
    Pids,
    PidOf,      \* the process number each one gets
    Grace       \* CLIENT_DEATH_GRACE, in watcher intervals

ASSUME SessionAssumption ==
    /\ PidOf \in [Procs -> Pids]
    /\ Grace \in Nat

VARIABLES
    life,       \* life[p]: "unborn", "running" or "gone"
    met,        \* the processes that have connected
    asks,       \* processes whose connect request is being handled
    known,      \* the tracker has an entry for the user
    pidfds,     \* the processes whose pidfd the entry holds
    deadFor,    \* how long ago the entry's grace was armed; Never if it is not
    cleanup,    \* a session cleanup is spawned
    tunnel,     \* "none", "up" or "stale"
    missed,     \* history: processes whose number was on the list under another
                \* process when they last connected
    silent      \* history: how long no other process that connected has been running

sessionVars == <<life, met, asks, known, pidfds, deadFor, cleanup, tunnel, missed, silent>>

Never   == Grace + 1
Running == {p \in Procs : life[p] = "running"}
Alive   == met \cap Running

\* Shapes; an entry that is gone holds nothing.
SessionTypeOK ==
    /\ life \in [Procs -> {"unborn", "running", "gone"}]
    /\ met \in SUBSET Procs
    /\ asks \in SUBSET met
    /\ known \in BOOLEAN
    /\ pidfds \in SUBSET met
    /\ deadFor \in 0..Never
    /\ cleanup \in BOOLEAN
    /\ tunnel \in {"none", "up", "stale"}
    /\ missed \in SUBSET met
    /\ silent \in 0..Grace
    /\ ~known => pidfds = {} /\ deadFor = Never

SessionInit ==
    /\ life = [p \in Procs |-> "unborn"]
    /\ met = {}
    /\ asks = {}
    /\ known = FALSE
    /\ pidfds = {}
    /\ deadFor = Never
    /\ cleanup = FALSE
    /\ tunnel = "none"
    /\ missed = {}
    /\ silent = Grace

-----------------------------------------------------------------------------
\* The kernel gives a process number again only when its process is gone.
Launch(p) ==
    /\ life[p] = "unborn"
    /\ \A q \in Running : PidOf[q] # PidOf[p]
    /\ life' = [life EXCEPT ![p] = "running"]
    /\ UNCHANGED <<met, asks, known, pidfds, deadFor, cleanup, tunnel, missed, silent>>

Die(p) ==
    /\ life[p] = "running"
    /\ life' = [life EXCEPT ![p] = "gone"]
    /\ UNCHANGED <<met, asks, known, pidfds, deadFor, cleanup, tunnel, missed, silent>>

\* Bug: a connection does not call off the grace that is running.
Track_KeepsDeadline(p) ==
    /\ known' = TRUE
    /\ pidfds' = IF \E q \in pidfds : PidOf[q] = PidOf[p] THEN pidfds ELSE pidfds \cup {p}
    /\ UNCHANGED deadFor

\* Bug: only the first process of the user is followed.
Track_First(p) ==
    /\ known' = TRUE
    /\ pidfds' = IF pidfds # {} THEN pidfds ELSE {p}
    /\ deadFor' = Never

\* A handle is kept per process number, so that of a process that took over
\* the number of one not yet reaped is dropped; any connection disarms the
\* grace.
Track(p) ==
    /\ known' = TRUE
    /\ pidfds' = IF \E q \in pidfds : PidOf[q] = PidOf[p] THEN pidfds ELSE pidfds \cup {p}
    /\ deadFor' = Never

Connect(p) ==
    /\ p \in Running
    /\ Track(p)
    /\ met' = met \cup {p}
    /\ missed' = IF \E q \in pidfds \ {p} : PidOf[q] = PidOf[p] THEN missed \cup {p}
                                                             ELSE missed \ {p}
    /\ silent' = 0
    /\ UNCHANGED <<life, asks, cleanup, tunnel>>

\* A request to bring a tunnel up.  The handler runs to its end whether or
\* not the process that asked is still there.
Ask(p) ==
    /\ p \in Alive \ asks
    /\ asks' = asks \cup {p}
    /\ UNCHANGED <<life, met, known, pidfds, deadFor, cleanup, tunnel, missed, silent>>

Serve(p) ==
    /\ p \in asks
    /\ asks' = asks \ {p}
    /\ tunnel' \in {tunnel, "up"}
    /\ tunnel = "stale" => tunnel' = "stale"
    /\ UNCHANGED <<life, met, known, pidfds, deadFor, cleanup, missed, silent>>

\* An interval of the watcher passes.
Tick ==
    /\ deadFor' = IF deadFor < Grace THEN deadFor + 1 ELSE deadFor
    /\ silent' = IF Alive \subseteq missed /\ silent < Grace THEN silent + 1 ELSE silent
    /\ UNCHANGED <<life, met, asks, known, pidfds, cleanup, tunnel, missed>>

\* Bug: the deadline is armed once and never looked at again.
Expired_Forgets ==
    /\ known
    /\ ~cleanup
    /\ pidfds' = pidfds \cap Running
    /\ deadFor' = IF pidfds' = {} THEN 0 ELSE deadFor
    /\ UNCHANGED <<life, met, asks, known, cleanup, tunnel, missed, silent>>

\* expired(): dead processes are reaped, the grace is armed when the last one
\* is, and when it has passed the entry is dropped and the cleanup spawned.
\* The watcher waits for one cleanup before it looks again.
Expired ==
    LET left == pidfds \cap Running
        age  == IF deadFor = Never THEN 0 ELSE deadFor
        over == left = {} /\ age >= Grace
    IN  /\ known
        /\ ~cleanup
        /\ known' = ~over
        /\ pidfds' = left
        /\ deadFor' = IF over THEN Never ELSE IF left = {} THEN age ELSE deadFor
        /\ cleanup' = over
        /\ UNCHANGED <<life, met, asks, tunnel, missed, silent>>

\* cleanup_session_uid, once the core is free.
Cleanup ==
    /\ cleanup
    /\ cleanup' = FALSE
    /\ tunnel' \in IF tunnel = "none" THEN {"none"} ELSE {"none", "stale"}
    /\ UNCHANGED <<life, met, asks, known, pidfds, deadFor, missed, silent>>

SessionNext ==
    \/ \E p \in Procs : Launch(p) \/ Die(p) \/ Connect(p) \/ Ask(p) \/ Serve(p)
    \/ Tick
    \/ Expired
    \/ Cleanup

\* The timer ticks and threads go on.
SessionFairness ==
    /\ WF_sessionVars(Tick)
    /\ WF_sessionVars(Expired)
    /\ WF_sessionVars(Cleanup)
    /\ \A p \in Procs : WF_sessionVars(Serve(p))

SessionSpec == SessionInit /\ [][SessionNext]_sessionVars /\ SessionFairness

-----------------------------------------------------------------------------
\* The tracker holds the pidfd of every running process that has connected, so
\* that no expiry overlooks one.  Set aside: a process that got the number of a
\* dead one before the watcher reaped it.
LiveTracked ==
    /\ Alive \subseteq pidfds \cup missed
    /\ \A p \in missed : \E q \in met \ {p} : life[q] = "gone" /\ PidOf[q] = PidOf[p]

\* Nobody connects before birth, a number has one running process, and an armed
\* grace has an empty entry.
Armed ==
    /\ \A p \in met : life[p] # "unborn"
    /\ \A p, q \in Running : PidOf[p] = PidOf[q] => p = q
    /\ deadFor # Never => pidfds = {} /\ silent >= deadFor

\* Every live client is tracked, and while a grace is armed nobody tracked has
\* been alive for at least as long: the invariant that is inductive.
SessionInv == SessionTypeOK /\ LiveTracked /\ Armed

\* A session expires only after the user has had no connected process for the
\* whole grace, however processes come and go between two looks; but for those
\* that a recycled number hides from the tracker.
FullGrace ==
    [][~cleanup /\ cleanup' => Alive \subseteq missed /\ silent >= Grace]_sessionVars

\* The death of the last process is noticed however it happens: a tunnel the
\* tracker has an eye on goes down, unless somebody comes back first.
DeadSessionEnds ==
    tunnel = "up" /\ known /\ asks = {} ~> tunnel # "up" \/ Alive # {}

=============================================================================
