-------------------------- MODULE OwnershipJournal --------------------------
(***************************************************************************)
(* The write-ahead ownership journal of the Linux daemon, for the generic  *)
(* owners: clients' route sets, attach specs, and the daemon's own `cond:` *)
(* and intent owners (crates/daemon/src/core.rs, crates/core/src/          *)
(* journal.rs and policy.rs).                                              *)
(*                                                                         *)
(* Every request runs under the one mutex of the core, so requests never   *)
(* interleave with each other; but each kernel change and each write of    *)
(* the journal file is a step of its own, because the process can die      *)
(* between any two of them, any of them can fail, and the rest of the      *)
(* system changes the routing table at any time.                           *)
(*                                                                         *)
(* A (uid, owner) pair is one member of Owners.  A list of routes is a     *)
(* set: validate_apply refuses duplicates, and the order in which a list   *)
(* is walked is left open, which allows every order the code can take.     *)
(***************************************************************************)
EXTENDS FiniteSets

CONSTANTS
    Owners,     \* the (uid, owner) pairs that may own routes
    Routes,     \* the routes (destination, interface, metric, table)
    Uids,       \* the users
    UidOf,      \* UidOf[o]: the user half of the pair o
    Managed     \* owners a session cleanup leaves alone: cond:, intents, manual

ASSUME OwnersAssumption ==
    /\ {"absent", "foreign", "lost", "nobody"} \cap Owners = {}
    /\ UidOf \in [Owners -> Uids]
    /\ Managed \subseteq Owners

VARIABLES
    journal,    \* DaemonCore::journal, in memory
    disk,       \* the entries of state.json
    kernel,     \* kernel[r]: who installed the identical route, if any; "lost" is
                \* the daemon, by an add that was reported as failed
    pc,         \* what the thread holding the core is doing
    cause,      \* why a sweep of entries was started
    cur,        \* the entry being worked on
    todo,       \* its routes not yet visited in this phase
    held,       \* routes installed so far (adding), or not removable so far
    scope       \* the entries the sweep has still to visit

core  == <<pc, cause, cur, todo, held, scope>>
vars  == <<journal, disk, kernel, core>>

States == {"none", "applying", "applied", "stale"}
Phases == {"down", "idle", "saving", "adding", "rollback", "sweep", "removing"}
Causes == {"nothing", "request", "stop", "open"}
Nobody == "nobody"

\* One entry; "none" stands for an owner that has none, and owns nothing.
NoEntry == [state |-> "none", routes |-> {}, attach |-> FALSE]
Entry   == {e \in [state : States, routes : SUBSET Routes, attach : BOOLEAN] :
              e.state = "none" => e = NoEntry}
Empty   == [o \in Owners |-> NoEntry]
Present(j) == {o \in Owners : j[o].state # "none"}

\* Shapes; a core at rest works on nothing, a busy one on an entry it has.
TypeOK ==
    /\ journal \in [Owners -> Entry]
    /\ disk \in [Owners -> Entry]
    /\ kernel \in [Routes -> Owners \cup {"absent", "foreign", "lost"}]
    /\ pc \in Phases
    /\ cause \in Causes
    /\ cur \in Owners \cup {Nobody}
    /\ todo \in SUBSET Routes
    /\ held \in SUBSET Routes
    /\ scope \in SUBSET Owners
    /\ pc = "down" => journal = Empty
    /\ pc \in {"idle", "down"} => scope = {}
    /\ pc \in {"idle", "down", "sweep"} => cur = Nobody
    /\ pc \in {"saving", "adding", "rollback", "removing"} => cur \in Present(journal)
    /\ scope \subseteq Present(journal) \ {cur}

Init ==
    /\ journal = Empty
    /\ disk = Empty
    /\ kernel \in [Routes -> {"absent", "foreign"}]
    /\ pc = "idle"
    /\ cause = "nothing"
    /\ cur = Nobody
    /\ todo = {}
    /\ held = {}
    /\ scope = {}

-----------------------------------------------------------------------------
(* The pieces the requests are made of.                                    *)

Rest ==
    /\ cause' = "nothing"
    /\ cur' = Nobody
    /\ todo' = {}
    /\ held' = {}
    /\ scope' = {}

\* The request is over and the core is unlocked.
Unlock == pc' = "idle" /\ Rest

\* JournalStore::save replaces the file atomically.  It can fail before the
\* rename, and also after it, when only the directory sync failed: an error
\* says nothing about which document is on disk.
SaveOk(j)  == disk' = j
SaveErr(j) == disk' \in {disk, j}

\* persist() logs and swallows the error.
Persist(j) == SaveErr(j)

\* Bug: the add replaces a route of the daemon's own protocol.
CanAdd_Replaces(r) == kernel[r] # "foreign"

\* RTM_NEWROUTE with NLM_F_EXCL: an identical route is a conflict.
CanAdd(r) == kernel[r] = "absent"

\* Bug: the delete does not filter on the protocol number.
Deletes_AnyProtocol(r) == kernel[r] # "absent"

\* RTM_DELROUTE filters on the daemon's protocol number: it finds the routes
\* the daemon installed, for whichever owner, and nobody else's.
Deletes(r) == kernel[r] \in Owners \cup {"lost"}

\* The table after a delete, which is NotFound if there is nothing to delete.
Without(r) == IF Deletes(r) THEN [kernel EXCEPT ![r] = "absent"] ELSE kernel

-----------------------------------------------------------------------------
(* apply_routes and apply_attach.                                          *)

\* The entry is pushed as `applying`; an owner that has one is refused.
Apply(o, rs, att) ==
    /\ pc = "idle"
    /\ journal[o].state = "none"
    /\ journal' = [journal EXCEPT ![o] =
                     [state |-> "applying", routes |-> rs, attach |-> att]]
    /\ pc' = "saving"
    /\ cur' = o
    /\ UNCHANGED <<disk, kernel, cause, todo, held, scope>>

\* Bug: the kernel is changed first and the journal saved at the end.
SaveAhead_Skipped ==
    /\ pc = "saving"
    /\ pc' = "adding"
    /\ todo' = journal[cur].routes
    /\ held' = {}
    /\ UNCHANGED <<journal, disk, kernel, cause, cur, scope>>

SaveAhead ==
    /\ pc = "saving"
    /\ SaveOk(journal)
    /\ pc' = "adding"
    /\ todo' = journal[cur].routes
    /\ held' = {}
    /\ UNCHANGED <<journal, kernel, cause, cur, scope>>

\* The entry is popped again, whatever reached the disk.
SaveAheadFails ==
    /\ pc = "saving"
    /\ SaveErr(journal)
    /\ journal' = [journal EXCEPT ![cur] = NoEntry]
    /\ Unlock
    /\ UNCHANGED kernel

AddRoute(r) ==
    /\ pc = "adding"
    /\ r \in todo
    /\ CanAdd(r)
    /\ kernel' = [kernel EXCEPT ![r] = cur]
    /\ todo' = todo \ {r}
    /\ held' = held \cup {r}
    /\ UNCHANGED <<journal, disk, pc, cause, cur, scope>>

\* A conflict, or any other error: the routes added so far are rolled back,
\* but not this one, which may be in all the same: the kernel took the request
\* and the reply came too late or never.
AddRouteFails(r) ==
    /\ pc = "adding"
    /\ r \in todo
    /\ \/ UNCHANGED kernel
       \/ CanAdd(r) /\ kernel' = [kernel EXCEPT ![r] = "lost"]
    /\ pc' = "rollback"
    /\ todo' = held
    /\ held' = {}
    /\ UNCHANGED <<journal, disk, cause, cur, scope>>

ApplyDone ==
    /\ pc = "adding"
    /\ todo = {}
    /\ journal' = [journal EXCEPT ![cur].state = "applied"]
    /\ Persist(journal')
    /\ Unlock
    /\ UNCHANGED kernel

RollbackRoute(r) ==
    /\ pc = "rollback"
    /\ r \in todo
    /\ Deletes(r)
    /\ kernel' = [kernel EXCEPT ![r] = "absent"]
    /\ todo' = todo \ {r}
    /\ UNCHANGED <<journal, disk, pc, cause, cur, held, scope>>

\* Any error counts as "may still be installed", NotFound too.
RollbackRouteFails(r) ==
    /\ pc = "rollback"
    /\ r \in todo
    /\ kernel' \in {kernel, Without(r)}
    /\ todo' = todo \ {r}
    /\ held' = held \cup {r}
    /\ UNCHANGED <<journal, disk, pc, cause, cur, scope>>

\* Bug: a failed apply forgets the routes it could not roll back.
AfterRollback_Forgets(e, left) == NoEntry

\* What the failed apply leaves: nothing, or a stale entry with the routes
\* that stayed behind and the attach spec.
AfterRollback(e, left) ==
    IF left = {} /\ ~e.attach THEN NoEntry
    ELSE [e EXCEPT !.state = "stale", !.routes = left]

RollbackDone ==
    /\ pc = "rollback"
    /\ todo = {}
    /\ journal' = [journal EXCEPT ![cur] = AfterRollback(@, held)]
    /\ Persist(journal')
    /\ Unlock
    /\ UNCHANGED kernel

-----------------------------------------------------------------------------
(* remove_owner, cleanup_uid, cleanup_session_uid, shutdown and open: each *)
(* tears a set of entries down, then saves the journal once.               *)

Sweep(owners, why) ==
    /\ pc' = "sweep"
    /\ cause' = why
    /\ scope' = owners
    /\ UNCHANGED <<disk, kernel, cur, todo, held>>

RemoveOwner(o) ==
    /\ pc = "idle"
    /\ o \in Present(journal)
    /\ Sweep({o}, "request")
    /\ UNCHANGED journal

CleanupUid(u) ==
    /\ pc = "idle"
    /\ Sweep({o \in Present(journal) : UidOf[o] = u}, "request")
    /\ UNCHANGED journal

\* keep: the owners registered as always-on.
CleanupSessionUid(u, keep) ==
    /\ pc = "idle"
    /\ Sweep({o \in Present(journal) : UidOf[o] = u /\ o \notin keep \cup Managed},
             "request")
    /\ UNCHANGED journal

Shutdown ==
    /\ pc = "idle"
    /\ Sweep(Present(journal), "stop")
    /\ UNCHANGED journal

\* DaemonCore::open loads the file and tears down whatever it lists.
Open ==
    /\ pc = "down"
    /\ journal' = disk
    /\ IF Present(disk) = {}
       THEN Unlock /\ UNCHANGED <<disk, kernel>>
       ELSE Sweep(Present(disk), "open")

\* teardown_entry, entered for the next entry of the sweep.
TeardownEntry(o) ==
    /\ pc = "sweep"
    /\ o \in scope
    /\ pc' = "removing"
    /\ cur' = o
    /\ todo' = journal[o].routes
    /\ held' = {}
    /\ scope' = scope \ {o}
    /\ UNCHANGED <<journal, disk, kernel, cause>>

\* Removed, or NotFound, which counts as removed.
RemoveRoute(r) ==
    /\ pc = "removing"
    /\ r \in todo
    /\ kernel' = Without(r)
    /\ todo' = todo \ {r}
    /\ UNCHANGED <<journal, disk, pc, cause, cur, held, scope>>

RemoveRouteFails(r) ==
    /\ pc = "removing"
    /\ r \in todo
    /\ kernel' \in {kernel, Without(r)}
    /\ todo' = todo \ {r}
    /\ held' = held \cup {r}
    /\ UNCHANGED <<journal, disk, pc, cause, cur, scope>>

\* The entry is dropped, or keeps only what failed; an attach spec is never
\* among that, its teardown is a no-op that succeeds.
AfterTeardown(left) ==
    IF left = {} THEN NoEntry
    ELSE [state |-> "stale", routes |-> left, attach |-> FALSE]

\* Bug: an entry that failed is put back for another try.
EntryDone_Again ==
    /\ pc = "removing"
    /\ todo = {}
    /\ journal' = [journal EXCEPT ![cur] = AfterTeardown(held)]
    /\ pc' = "sweep"
    /\ cur' = Nobody
    /\ held' = {}
    /\ scope' = IF held = {} THEN scope ELSE scope \cup {cur}
    /\ UNCHANGED <<disk, kernel, cause, todo>>

EntryDone ==
    /\ pc = "removing"
    /\ todo = {}
    /\ journal' = [journal EXCEPT ![cur] = AfterTeardown(held)]
    /\ pc' = "sweep"
    /\ cur' = Nobody
    /\ held' = {}
    /\ UNCHANGED <<disk, kernel, cause, todo, scope>>

\* A request ends with the core unlocked whether or not the save succeeded;
\* after shutdown the process exits; open fails when the save does.
SweepDone ==
    /\ pc = "sweep"
    /\ scope = {}
    /\ \/ /\ SaveOk(journal)
          /\ IF cause = "stop" THEN pc' = "down" /\ journal' = Empty
                               ELSE pc' = "idle" /\ UNCHANGED journal
       \/ /\ SaveErr(journal)
          /\ IF cause \in {"stop", "open"}
             THEN pc' = "down" /\ journal' = Empty
             ELSE pc' = "idle" /\ UNCHANGED journal
    /\ Rest
    /\ UNCHANGED kernel

-----------------------------------------------------------------------------
(* The process dies at any point; memory is gone, the routes stay.         *)
Crash ==
    /\ pc # "down"
    /\ journal' = Empty
    /\ pc' = "down"
    /\ Rest
    /\ UNCHANGED <<disk, kernel>>

(* Everybody else: an administrator, NetworkManager, a link going away.    *)
OutsiderAdds(r) ==
    /\ kernel[r] = "absent"
    /\ kernel' = [kernel EXCEPT ![r] = "foreign"]
    /\ UNCHANGED <<journal, disk, core>>

OutsiderRemoves(r) ==
    /\ kernel[r] # "absent"
    /\ kernel' = [kernel EXCEPT ![r] = "absent"]
    /\ UNCHANGED <<journal, disk, core>>

Request ==
    \/ \E o \in Owners, rs \in SUBSET Routes, att \in BOOLEAN : Apply(o, rs, att)
    \/ \E o \in Owners : RemoveOwner(o)
    \/ \E u \in Uids : CleanupUid(u)
    \/ \E u \in Uids, keep \in SUBSET Owners : CleanupSessionUid(u, keep)
    \/ Shutdown

\* The steps of a request under way, each of which the thread takes by itself.
Work ==
    \/ SaveAhead
    \/ SaveAheadFails
    \/ \E r \in Routes : AddRoute(r)
    \/ \E r \in Routes : AddRouteFails(r)
    \/ ApplyDone
    \/ \E r \in Routes : RollbackRoute(r)
    \/ \E r \in Routes : RollbackRouteFails(r)
    \/ RollbackDone
    \/ \E o \in Owners : TeardownEntry(o)
    \/ \E r \in Routes : RemoveRoute(r)
    \/ \E r \in Routes : RemoveRouteFails(r)
    \/ EntryDone
    \/ SweepDone

Outsider == \E r \in Routes : OutsiderAdds(r) \/ OutsiderRemoves(r)

Next == Request \/ Work \/ Open \/ Crash \/ Outsider

Spec == Init /\ [][Next]_vars

-----------------------------------------------------------------------------
(* Correctness.                                                            *)

\* A crash never leaks a route: whatever the daemon has in the kernel at any
\* instant, up, down or half way through an operation, is listed on disk
\* under the owner it was installed for, so that open() can remove it.  Set
\* aside here and below: the lost route of an add that was reported as failed
\* although it took effect, which apply_routes_transactional does not roll
\* back.
NoOrphan ==
    \A r \in Routes : kernel[r] \in Owners => r \in disk[kernel[r]].routes

\* The file never knows less than memory does once an entry is saved ahead,
\* although persist() swallows its errors: each failure leaves too much on
\* disk, never too little.
DiskCoversMemory ==
    \A o \in Owners :
        (pc = "saving" /\ o = cur) \/ journal[o].routes \subseteq disk[o].routes

\* What the in-memory journal does not list is not installed: a failed apply
\* or teardown keeps owning everything that it could not withdraw.
MemoryCoversKernel ==
    pc # "down" =>
        \A r \in Routes : kernel[r] \in Owners => r \in journal[kernel[r]].routes

\* Where the routes of the entry being worked on are: all it has in the
\* kernel is among the routes it has added, or has not yet withdrawn.
InFlight ==
    /\ pc \in {"adding", "rollback", "removing"} => todo \cup held \subseteq journal[cur].routes
    /\ pc = "saving" => \A r \in Routes : kernel[r] # cur
    /\ pc = "adding" => \A r \in Routes : kernel[r] = cur => r \in held
    /\ pc \in {"rollback", "removing"} =>
          \A r \in Routes : kernel[r] = cur => r \in todo \cup held

IndInv ==
    TypeOK /\ NoOrphan /\ DiskCoversMemory /\ MemoryCoversKernel /\ InFlight

\* No request, rollback or recovery withdraws a route that somebody else
\* installed: only an outsider does.
ForeignUntouched ==
    [][\A r \in Routes :
         kernel[r] = "foreign" /\ kernel'[r] # "foreign" => Outsider]_vars

(* The journal implements the ledger: the file is the claims, the kernel   *)
(* says what is installed for whom.                                        *)
claimed   == [o \in Owners |-> disk[o].routes]
installed == [o \in Owners |-> {r \in Routes : kernel[r] = o}]

Ledger == INSTANCE RouteLedger

\* Every step of the daemon, its crashes and restarts included, is a step of
\* the ledger or leaves it alone: no route goes in before its claim is on
\* disk, no claim is dropped while its route is in, none is taken over.
ImplementsLedger == Ledger!Spec

=============================================================================
