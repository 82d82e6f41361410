-------------------------- MODULE AttachReconcile --------------------------
(***************************************************************************)
(* The reconcile pass over armed attach entries (reconcile_network and     *)
(* reconcile_attach in crates/daemon/src/core.rs, the loop in main.rs), on *)
(* top of the ownership journal.  Every 10 s, and after an uplink change,  *)
(* the daemon takes the core, dumps its own routes, and converges each     *)
(* applied attach entry with what its spec derives at that moment.         *)
(***************************************************************************)
EXTENDS OwnershipJournal

VARIABLES
    pass,       \* the reconcile pass under way, or Idle
    orphans     \* routes left in the kernel, unlisted, by a process that ended

avars == <<vars, pass, orphans>>

PassSteps == {"off", "next", "withdraw", "install"}

Idle == [step |-> "off", owners |-> {}, seen |-> {}, cur |-> Nobody, want |-> {},
         todo |-> {}, kept |-> {}, changed |-> FALSE]

\* Shapes; a pass runs only while the core is not otherwise locked.
AttachTypeOK ==
    /\ TypeOK
    /\ pass \in [step : PassSteps, owners : SUBSET Owners, seen : SUBSET Routes,
                 cur : Owners \cup {Nobody}, want : SUBSET Routes, todo : SUBSET Routes,
                 kept : SUBSET Routes, changed : BOOLEAN]
    /\ orphans \subseteq {r \in Routes : kernel[r] \in Owners}
    /\ pass.step # "off" => pc = "idle"
    /\ pass.step \in {"withdraw", "install"} =>
          /\ journal[pass.cur].state = "applied"
          /\ journal[pass.cur].attach

AttachInit == Init /\ pass = Idle /\ orphans = {}

-----------------------------------------------------------------------------
\* The core is locked and the daemon's own routes are dumped, once for the
\* whole pass.  Only entries that are `applied` are visited.
Visited(o) == journal[o].state = "applied" /\ journal[o].attach

PassBegin ==
    /\ pc = "idle"
    /\ pass.step = "off"
    /\ pass' = [Idle EXCEPT !.step = "next",
                            !.owners = {o \in Owners : Visited(o)},
                            !.seen = {r \in Routes : Deletes(r)}]
    /\ UNCHANGED <<journal, disk, kernel, core>>

\* d: what attach_desired derives now, from the live link and the uplink.
ReconcileEntry(o, d) ==
    /\ pass.step = "next"
    /\ o \in pass.owners
    /\ pass' = [pass EXCEPT !.step = "withdraw", !.cur = o, !.want = d,
                            !.owners = @ \ {o}, !.todo = journal[o].routes \ d,
                            !.kept = {}, !.changed = FALSE]
    /\ UNCHANGED <<journal, disk, kernel, core>>

\* Withdrawn or already gone.
Withdraw(r) ==
    /\ pass.step = "withdraw"
    /\ r \in pass.todo
    /\ kernel' = Without(r)
    /\ pass' = [pass EXCEPT !.todo = @ \ {r}, !.changed = TRUE]
    /\ UNCHANGED <<journal, disk, core>>

\* Bug: a route that could not be withdrawn is dropped from the entry.
WithdrawFails_Drops(r) ==
    /\ pass.step = "withdraw"
    /\ r \in pass.todo
    /\ pass' = [pass EXCEPT !.todo = @ \ {r}]
    /\ UNCHANGED <<journal, disk, kernel, core>>

WithdrawFails(r) ==
    /\ pass.step = "withdraw"
    /\ r \in pass.todo
    /\ kernel' \in {kernel, Without(r)}
    /\ pass' = [pass EXCEPT !.todo = @ \ {r}, !.kept = @ \cup {r}]
    /\ UNCHANGED <<journal, disk, core>>

\* What the dump already showed is not added again.
WithdrawDone ==
    /\ pass.step = "withdraw"
    /\ pass.todo = {}
    /\ pass' = [pass EXCEPT !.step = "install", !.todo = pass.want \ pass.seen]
    /\ UNCHANGED <<journal, disk, kernel, core>>

Install(r) ==
    /\ pass.step = "install"
    /\ r \in pass.todo
    /\ CanAdd(r)
    /\ kernel' = [kernel EXCEPT ![r] = pass.cur]
    /\ pass' = [pass EXCEPT !.todo = @ \ {r}, !.changed = TRUE]
    /\ UNCHANGED <<journal, disk, core>>

\* AlreadyExists, or an error that is logged and left for the next pass; the
\* entry lists the route in any case, and it may be in.
InstallFails(r) ==
    /\ pass.step = "install"
    /\ r \in pass.todo
    /\ \/ UNCHANGED kernel
       \/ CanAdd(r) /\ kernel' = [kernel EXCEPT ![r] = pass.cur]
    /\ pass' = [pass EXCEPT !.todo = @ \ {r}]
    /\ UNCHANGED <<journal, disk, core>>

\* Only now is the entry rewritten to the derivation, and saved if anything
\* changed.
EntryReconciled ==
    LET rs == pass.want \cup pass.kept
        o  == pass.cur
    IN  /\ pass.step = "install"
        /\ pass.todo = {}
        /\ journal' = [journal EXCEPT ![o].routes = rs]
        /\ IF pass.changed \/ journal[o].routes # rs THEN Persist(journal')
                                                     ELSE UNCHANGED disk
        /\ pass' = [pass EXCEPT !.step = "next", !.cur = Nobody, !.want = {},
                                !.kept = {}, !.changed = FALSE]
        /\ UNCHANGED <<kernel, core>>

PassDone ==
    /\ pass.step = "next"
    /\ pass.owners = {}
    /\ pass' = Idle
    /\ UNCHANGED <<journal, disk, kernel, core>>

-----------------------------------------------------------------------------
PassWork ==
    \/ \E o \in Owners, d \in SUBSET Routes : ReconcileEntry(o, d)
    \/ \E r \in Routes : Withdraw(r)
    \/ \E r \in Routes : WithdrawFails(r)
    \/ WithdrawDone
    \/ \E r \in Routes : Install(r)
    \/ \E r \in Routes : InstallFails(r)
    \/ EntryReconciled
    \/ PassDone

\* Requests, their steps and a restart need the core, which a pass holds.
CoreStep == pass.step = "off" /\ (Request \/ Work \/ Open) /\ UNCHANGED pass

\* History: what the process leaves unlisted when it goes down, for as long as
\* the route stays as it is.
Unlisted == {r \in Routes : kernel[r] \in Owners /\ r \notin disk[kernel[r]].routes}
History ==
    orphans' = IF pc # "down" /\ pc' = "down" THEN Unlisted'
               ELSE {r \in orphans : kernel'[r] = kernel[r]}

AttachNext ==
    \/ CoreStep /\ History
    \/ PassBegin /\ History
    \/ PassWork /\ History
    \/ Outsider /\ UNCHANGED pass /\ History
    \/ Crash /\ pass' = Idle /\ History

AttachSpec == AttachInit /\ [][AttachNext]_avars

-----------------------------------------------------------------------------
\* Between passes and requests, every route the daemon has in the kernel is
\* listed in memory under its owner, but for those the end of an earlier
\* process has orphaned: a pass that cannot withdraw a route keeps it in the
\* entry, and one that adds a route lists it.  Routes lost by a failed apply are
\* set aside as in NoOrphan.
OnlyExitsOrphan ==
    pc = "idle" /\ pass.step = "off" =>
        \A r \in Routes : kernel[r] \in Owners =>
            r \in journal[kernel[r]].routes \/ r \in orphans

=============================================================================
