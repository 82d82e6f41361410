-------------------------- MODULE OwnershipProofs ---------------------------
(***************************************************************************)
(* Proofs about ownership, for every set of owners, intents and routes:    *)
(* the journal keeps its invariant and implements the ledger, a reconcile  *)
(* pass strands no route, and the routing intents implement the passes and *)
(* the journal and keep records and entries in agreement.                  *)
(***************************************************************************)
EXTENDS RoutingIntents, TLAPS

(* The ownership journal.                                                  *)

\* The empty journal that open() finds on a fresh install, with nothing of
\* the daemon in the kernel, satisfies the invariant.
LEMMA InitInv == Init => IndInv
BY OwnersAssumption DEF Init, IndInv, TypeOK, NoOrphan, DiskCoversMemory, MemoryCoversKernel,
   InFlight, Empty, NoEntry, Entry, States, Phases, Causes, Nobody, Present

\* apply_routes_inner keeps the invariant: from the write-ahead entry over
\* each route added or rolled back to the entry it leaves.
LEMMA ApplyInv ==
    ASSUME IndInv,
           NEW o \in Owners, NEW rs \in SUBSET Routes, NEW att \in BOOLEAN, Apply(o, rs, att)
    PROVE  IndInv'
<1> USE OwnersAssumption DEF IndInv, Entry, NoEntry, States, Phases, Nobody, Present
<1>1. TypeOK'
  BY DEF TypeOK, Apply
<1>2. NoOrphan'
  BY DEF TypeOK, NoOrphan, Apply
<1>3. DiskCoversMemory'
  BY DEF TypeOK, DiskCoversMemory, Apply
<1>4. MemoryCoversKernel'
  BY DEF TypeOK, MemoryCoversKernel, Apply
<1>5. InFlight'
  BY DEF TypeOK, MemoryCoversKernel, Apply, InFlight
<1> QED BY <1>1, <1>2, <1>3, <1>4, <1>5

\* The rest of apply_routes_inner keeps it: the save ahead, each route added
\* or rolled back, and the entry that is left.
LEMMA ApplyWorkInv ==
    ASSUME IndInv,
           \/ SaveAhead \/ SaveAheadFails \/ ApplyDone \/ RollbackDone
           \/ \E r \in Routes : AddRoute(r)
           \/ \E r \in Routes : AddRouteFails(r)
           \/ \E r \in Routes : RollbackRoute(r)
           \/ \E r \in Routes : RollbackRouteFails(r)
    PROVE  IndInv'
<1>1. CASE SaveAhead
  BY <1>1, OwnersAssumption
  DEF IndInv, TypeOK, NoOrphan, DiskCoversMemory, MemoryCoversKernel, InFlight,
          Entry, NoEntry, States, Phases, Causes, Nobody, Present,
          SaveAhead, SaveOk
<1>2. CASE SaveAheadFails
  BY <1>2, OwnersAssumption
  DEF IndInv, TypeOK, NoOrphan, DiskCoversMemory, MemoryCoversKernel, InFlight,
          Entry, NoEntry, States, Phases, Causes, Nobody, Present,
          SaveAheadFails, SaveErr, Unlock, Rest
<1>3. ASSUME NEW r \in Routes, AddRoute(r) PROVE IndInv'
  BY <1>3, OwnersAssumption
  DEF IndInv, TypeOK, NoOrphan, DiskCoversMemory, MemoryCoversKernel, InFlight,
          Entry, NoEntry, States, Phases, Causes, Nobody, Present,
          AddRoute, CanAdd
<1>4. ASSUME NEW r \in Routes, AddRouteFails(r) PROVE IndInv'
  <2>1. /\ kernel' = kernel \/ (kernel[r] = "absent" /\ kernel' = [kernel EXCEPT ![r] = "lost"])
        /\ pc = "adding" /\ pc' = "rollback" /\ todo' = held /\ held' = {}
        /\ UNCHANGED <<journal, disk, cause, cur, scope>>
    BY <1>4 DEF AddRouteFails, CanAdd
  <2>2. TypeOK'
    BY <2>1, OwnersAssumption DEF IndInv, TypeOK, Phases, Nobody, Present
  <2>3. NoOrphan'
    BY <2>1, OwnersAssumption DEF NoOrphan, IndInv, TypeOK, Phases, Nobody, Present
  <2>4. DiskCoversMemory'
    BY <2>1, OwnersAssumption DEF DiskCoversMemory, IndInv, TypeOK, Phases, Nobody, Present
  <2>5. MemoryCoversKernel'
    BY <2>1, OwnersAssumption DEF MemoryCoversKernel, IndInv, TypeOK, Phases, Nobody, Present
  <2>6. InFlight'
    BY <2>1, OwnersAssumption DEF InFlight, IndInv, TypeOK, Present
  <2> QED BY <2>2, <2>3, <2>4, <2>5, <2>6 DEF IndInv
<1>5. CASE ApplyDone
  <2> DEFINE e == [journal[cur] EXCEPT !.state = "applied"]
  <2>1. /\ cur \in Owners
        /\ e \in Entry
        /\ e.routes \subseteq journal[cur].routes
        /\ \A r \in Routes : kernel[r] = cur => r \in e.routes
    BY <1>5, OwnersAssumption DEF ApplyDone, InFlight, MemoryCoversKernel, IndInv, TypeOK, Entry, NoEntry, States, Phases, Causes,
       Nobody, Present
  <2>2. /\ journal' = [journal EXCEPT ![cur] = e]
        /\ disk' \in {disk, journal'}
        /\ pc' = "idle" /\ scope' = {} /\ cur' = Nobody /\ cause' = "nothing"
        /\ todo' = {} /\ held' = {} /\ kernel' = kernel
    BY <1>5, <2>1 DEF ApplyDone, Persist, SaveErr, Unlock, Rest, IndInv, TypeOK
  <2> HIDE DEF e
  <2>3. TypeOK'
    BY <2>1, <2>2, OwnersAssumption DEF Empty, IndInv, TypeOK, Entry, NoEntry, States, Phases, Causes,
       Nobody, Present
  <2>4. NoOrphan'
    BY <2>1, <2>2, OwnersAssumption DEF NoOrphan, MemoryCoversKernel, IndInv, TypeOK, Entry, NoEntry, States, Phases, Causes,
       Nobody, Present
  <2>5. DiskCoversMemory'
    BY <1>5, <2>1, <2>2, OwnersAssumption DEF DiskCoversMemory, ApplyDone, IndInv, TypeOK, Entry, NoEntry, States, Phases, Causes,
       Nobody, Present
  <2>6. MemoryCoversKernel'
    BY <1>5, <2>1, <2>2, OwnersAssumption DEF MemoryCoversKernel, ApplyDone, IndInv, TypeOK, Entry, NoEntry, States, Phases, Causes,
       Nobody, Present
  <2>7. InFlight'
    BY <2>1, <2>2, OwnersAssumption DEF InFlight, IndInv, TypeOK, Entry, NoEntry, States, Phases, Causes,
       Nobody, Present
  <2> QED BY <2>3, <2>4, <2>5, <2>6, <2>7 DEF IndInv
<1>6. ASSUME NEW r \in Routes, RollbackRoute(r) PROVE IndInv'
  BY <1>6, OwnersAssumption
  DEF IndInv, TypeOK, NoOrphan, DiskCoversMemory, MemoryCoversKernel, InFlight,
          Entry, NoEntry, States, Phases, Causes, Nobody, Present,
          RollbackRoute, Deletes
<1>7. ASSUME NEW r \in Routes, RollbackRouteFails(r) PROVE IndInv'
  <2>1. /\ kernel' = kernel \/ kernel' = [kernel EXCEPT ![r] = "absent"]
        /\ pc = "rollback" /\ r \in todo /\ todo' = todo \ {r} /\ held' = held \cup {r}
        /\ UNCHANGED <<journal, disk, pc, cause, cur, scope>>
    BY <1>7 DEF RollbackRouteFails, Without
  <2>2. TypeOK'
    BY <2>1, OwnersAssumption DEF IndInv, TypeOK, Phases, Nobody, Present
  <2>3. NoOrphan'
    BY <2>1, OwnersAssumption DEF NoOrphan, IndInv, TypeOK, Phases, Nobody, Present
  <2>4. DiskCoversMemory'
    BY <2>1, OwnersAssumption DEF DiskCoversMemory, IndInv, TypeOK, Phases, Nobody, Present
  <2>5. MemoryCoversKernel'
    BY <2>1, OwnersAssumption DEF MemoryCoversKernel, IndInv, TypeOK, Phases, Nobody, Present
  <2>6. InFlight'
    BY <2>1, OwnersAssumption DEF InFlight, IndInv, TypeOK, Present
  <2> QED BY <2>2, <2>3, <2>4, <2>5, <2>6 DEF IndInv
<1>8. CASE RollbackDone
  <2> DEFINE e == AfterRollback(journal[cur], held)
  <2>1. /\ cur \in Owners
        /\ e \in Entry
        /\ e.routes \subseteq journal[cur].routes
        /\ \A r \in Routes : kernel[r] = cur => r \in e.routes
    <3>1. /\ cur \in Owners /\ journal[cur] \in Entry
          /\ held \subseteq journal[cur].routes
          /\ \A r \in Routes : kernel[r] = cur => r \in held
      BY <1>8 DEF RollbackDone, IndInv, TypeOK, InFlight, Present
    <3>2. CASE held = {} /\ ~journal[cur].attach
      BY <3>1, <3>2 DEF AfterRollback, Entry, NoEntry, States
    <3>3. CASE ~(held = {} /\ ~journal[cur].attach)
      BY <3>1, <3>3 DEF AfterRollback, Entry, NoEntry, States
    <3> QED BY <3>2, <3>3
  <2>2. /\ journal' = [journal EXCEPT ![cur] = e]
        /\ disk' \in {disk, journal'}
        /\ pc' = "idle" /\ scope' = {} /\ cur' = Nobody /\ cause' = "nothing"
        /\ todo' = {} /\ held' = {} /\ kernel' = kernel
    BY <1>8, <2>1 DEF RollbackDone, Persist, SaveErr, Unlock, Rest, IndInv, TypeOK
  <2> HIDE DEF e
  <2>3. TypeOK'
    BY <2>1, <2>2, OwnersAssumption DEF Empty, IndInv, TypeOK, Entry, NoEntry, States, Phases, Causes,
       Nobody, Present
  <2>4. NoOrphan'
    BY <2>1, <2>2, OwnersAssumption DEF NoOrphan, MemoryCoversKernel, IndInv, TypeOK, Entry, NoEntry, States, Phases, Causes,
       Nobody, Present
  <2>5. DiskCoversMemory'
    BY <1>8, <2>1, <2>2, OwnersAssumption DEF DiskCoversMemory, RollbackDone, IndInv, TypeOK, Entry, NoEntry, States, Phases, Causes,
       Nobody, Present
  <2>6. MemoryCoversKernel'
    BY <1>8, <2>1, <2>2, OwnersAssumption DEF MemoryCoversKernel, RollbackDone, IndInv, TypeOK, Entry, NoEntry, States, Phases, Causes,
       Nobody, Present
  <2>7. InFlight'
    BY <2>1, <2>2, OwnersAssumption DEF InFlight, IndInv, TypeOK, Entry, NoEntry, States, Phases, Causes,
       Nobody, Present
  <2> QED BY <2>3, <2>4, <2>5, <2>6, <2>7 DEF IndInv
<1> QED BY <1>1, <1>2, <1>3, <1>4, <1>5, <1>6, <1>7, <1>8

\* teardown_entry and the save at the end of a sweep keep it.
LEMMA TeardownInv ==
    ASSUME IndInv,
           \/ \E o \in Owners : TeardownEntry(o)
           \/ \E r \in Routes : RemoveRoute(r)
           \/ \E r \in Routes : RemoveRouteFails(r)
           \/ EntryDone \/ SweepDone
    PROVE  IndInv'
<1>1. ASSUME NEW o \in Owners, TeardownEntry(o) PROVE IndInv'
  BY <1>1, OwnersAssumption
  DEF IndInv, TypeOK, NoOrphan, DiskCoversMemory, MemoryCoversKernel, InFlight,
          Entry, NoEntry, States, Phases, Causes, Nobody, Present,
          TeardownEntry
<1>2. ASSUME NEW r \in Routes, RemoveRoute(r) PROVE IndInv'
  BY <1>2, OwnersAssumption
  DEF IndInv, TypeOK, NoOrphan, DiskCoversMemory, MemoryCoversKernel, InFlight,
          Entry, NoEntry, States, Phases, Causes, Nobody, Present,
          RemoveRoute, Without, Deletes
<1>3. ASSUME NEW r \in Routes, RemoveRouteFails(r) PROVE IndInv'
  <2>1. /\ kernel' = kernel \/ kernel' = [kernel EXCEPT ![r] = "absent"]
        /\ pc = "removing" /\ r \in todo /\ todo' = todo \ {r} /\ held' = held \cup {r}
        /\ UNCHANGED <<journal, disk, pc, cause, cur, scope>>
    BY <1>3 DEF RemoveRouteFails, Without
  <2>2. TypeOK'
    BY <2>1, OwnersAssumption DEF IndInv, TypeOK, Phases, Nobody, Present
  <2>3. NoOrphan'
    BY <2>1, OwnersAssumption DEF NoOrphan, IndInv, TypeOK, Phases, Nobody, Present
  <2>4. DiskCoversMemory'
    BY <2>1, OwnersAssumption DEF DiskCoversMemory, IndInv, TypeOK, Phases, Nobody, Present
  <2>5. MemoryCoversKernel'
    BY <2>1, OwnersAssumption DEF MemoryCoversKernel, IndInv, TypeOK, Phases, Nobody, Present
  <2>6. InFlight'
    BY <2>1, OwnersAssumption DEF InFlight, IndInv, TypeOK, Present
  <2> QED BY <2>2, <2>3, <2>4, <2>5, <2>6 DEF IndInv
<1>4. CASE EntryDone
  <2>1. TypeOK'
    BY <1>4, OwnersAssumption DEF IndInv, TypeOK, Entry, NoEntry,
       States, Phases, Causes, Nobody, Present, EntryDone, AfterTeardown
  <2>2. NoOrphan'
    BY <1>4, OwnersAssumption DEF IndInv, TypeOK, NoOrphan, MemoryCoversKernel, InFlight, Entry, NoEntry,
       States, Phases, Causes, Nobody, Present, EntryDone, AfterTeardown
  <2>3. DiskCoversMemory'
    BY <1>4, OwnersAssumption DEF IndInv, TypeOK, DiskCoversMemory, InFlight, Entry, NoEntry,
       States, Phases, Causes, Nobody, Present, EntryDone, AfterTeardown
  <2>4. MemoryCoversKernel'
    BY <1>4, OwnersAssumption DEF IndInv, TypeOK, MemoryCoversKernel, InFlight, NoOrphan, Entry, NoEntry,
       States, Phases, Causes, Nobody, Present, EntryDone, AfterTeardown
  <2>5. InFlight'
    BY <1>4, OwnersAssumption DEF IndInv, TypeOK, InFlight, MemoryCoversKernel, Entry, NoEntry,
       States, Phases, Causes, Nobody, Present, EntryDone, AfterTeardown
  <2> QED BY <2>1, <2>2, <2>3, <2>4, <2>5 DEF IndInv
<1>5. CASE SweepDone
  <2>0. /\ disk' \in {disk, journal}
        /\ pc' \in {"idle", "down"}
        /\ journal' = Empty \/ (pc' = "idle" /\ journal' = journal)
        /\ pc' = "down" => journal' = Empty
        /\ scope' = {} /\ cur' = Nobody /\ todo' = {} /\ held' = {}
        /\ cause' = "nothing" /\ kernel' = kernel
    BY <1>5 DEF SweepDone, SaveOk, SaveErr, Rest
  <2>1. TypeOK'
    <3>1. Empty \in [Owners -> Entry]
      BY DEF Empty, Entry, NoEntry, States
    <3> QED BY <2>0, <3>1, OwnersAssumption DEF IndInv, TypeOK, Phases, Causes, Present, Nobody
  <2>2. NoOrphan'
    BY <1>5, OwnersAssumption DEF IndInv, TypeOK, NoOrphan, MemoryCoversKernel, InFlight, Entry, NoEntry,
       States, Phases, Causes, Nobody, Present, SweepDone, SaveOk, SaveErr, Rest, Empty
  <2>3. DiskCoversMemory'
    BY <1>5, OwnersAssumption DEF IndInv, TypeOK, DiskCoversMemory, InFlight, Entry, NoEntry,
       States, Phases, Causes, Nobody, Present, SweepDone, SaveOk, SaveErr, Rest, Empty
  <2>4. MemoryCoversKernel'
    BY <1>5, OwnersAssumption DEF IndInv, TypeOK, MemoryCoversKernel, InFlight, NoOrphan, Entry, NoEntry,
       States, Phases, Causes, Nobody, Present, SweepDone, SaveOk, SaveErr, Rest, Empty
  <2>5. InFlight'
    BY <1>5, OwnersAssumption DEF IndInv, TypeOK, InFlight, MemoryCoversKernel, Entry, NoEntry,
       States, Phases, Causes, Nobody, Present, SweepDone, SaveOk, SaveErr, Rest, Empty
  <2> QED BY <2>1, <2>2, <2>3, <2>4, <2>5 DEF IndInv
<1> QED BY <1>1, <1>2, <1>3, <1>4, <1>5

\* So do the requests that start a sweep, recovery, the death of the process
\* and whatever the rest of the system does to the routing table.
LEMMA OtherInv ==
    ASSUME IndInv,
           \/ \E o \in Owners : RemoveOwner(o)
           \/ \E u \in Uids : CleanupUid(u)
           \/ \E u \in Uids, keep \in SUBSET Owners : CleanupSessionUid(u, keep)
           \/ Shutdown \/ Open \/ Crash \/ Outsider
    PROVE  IndInv'
<1>1. ASSUME NEW o \in Owners, RemoveOwner(o) PROVE IndInv'
  BY <1>1, OwnersAssumption
  DEF IndInv, TypeOK, NoOrphan, DiskCoversMemory, MemoryCoversKernel, InFlight,
          Entry, NoEntry, States, Phases, Causes, Nobody, Present,
          RemoveOwner, Sweep
<1>2. ASSUME NEW u \in Uids, CleanupUid(u) PROVE IndInv'
  BY <1>2, OwnersAssumption
  DEF IndInv, TypeOK, NoOrphan, DiskCoversMemory, MemoryCoversKernel, InFlight,
          Entry, NoEntry, States, Phases, Causes, Nobody, Present,
          CleanupUid, Sweep
<1>3. ASSUME NEW u \in Uids, NEW keep \in SUBSET Owners, CleanupSessionUid(u, keep) PROVE IndInv'
  BY <1>3, OwnersAssumption
  DEF IndInv, TypeOK, NoOrphan, DiskCoversMemory, MemoryCoversKernel, InFlight,
          Entry, NoEntry, States, Phases, Causes, Nobody, Present,
          CleanupSessionUid, Sweep
<1>4. CASE Shutdown
  BY <1>4, OwnersAssumption
  DEF IndInv, TypeOK, NoOrphan, DiskCoversMemory, MemoryCoversKernel, InFlight,
          Entry, NoEntry, States, Phases, Causes, Nobody, Present,
          Shutdown, Sweep
<1>5. CASE Open
  <2>1. TypeOK'
    BY <1>5, OwnersAssumption DEF IndInv, TypeOK, Entry, NoEntry,
       States, Phases, Causes, Nobody, Present, Open, Sweep, Unlock, Rest
  <2>2. NoOrphan'
    BY <1>5, OwnersAssumption DEF IndInv, TypeOK, NoOrphan, MemoryCoversKernel, InFlight, Entry, NoEntry,
       States, Phases, Causes, Nobody, Present, Open, Sweep, Unlock, Rest
  <2>3. DiskCoversMemory'
    BY <1>5, OwnersAssumption DEF IndInv, TypeOK, DiskCoversMemory, InFlight, Entry, NoEntry,
       States, Phases, Causes, Nobody, Present, Open, Sweep, Unlock, Rest
  <2>4. MemoryCoversKernel'
    BY <1>5, OwnersAssumption DEF IndInv, TypeOK, MemoryCoversKernel, InFlight, NoOrphan, Entry, NoEntry,
       States, Phases, Causes, Nobody, Present, Open, Sweep, Unlock, Rest
  <2>5. InFlight'
    BY <1>5, OwnersAssumption DEF IndInv, TypeOK, InFlight, MemoryCoversKernel, Entry, NoEntry,
       States, Phases, Causes, Nobody, Present, Open, Sweep, Unlock, Rest
  <2> QED BY <2>1, <2>2, <2>3, <2>4, <2>5 DEF IndInv
<1>6. CASE Crash
  BY <1>6, OwnersAssumption
  DEF IndInv, TypeOK, NoOrphan, DiskCoversMemory, MemoryCoversKernel, InFlight,
          Entry, NoEntry, States, Phases, Causes, Nobody, Present,
          Crash, Rest, Empty
<1>7. ASSUME NEW r \in Routes, OutsiderAdds(r) PROVE IndInv'
  BY <1>7, OwnersAssumption
  DEF IndInv, TypeOK, NoOrphan, DiskCoversMemory, MemoryCoversKernel, InFlight,
          Entry, NoEntry, States, Phases, Causes, Nobody, Present,
          OutsiderAdds, core
<1>8. ASSUME NEW r \in Routes, OutsiderRemoves(r) PROVE IndInv'
  BY <1>8, OwnersAssumption
  DEF IndInv, TypeOK, NoOrphan, DiskCoversMemory, MemoryCoversKernel, InFlight,
          Entry, NoEntry, States, Phases, Causes, Nobody, Present,
          OutsiderRemoves, core
<1> QED BY <1>1, <1>2, <1>3, <1>4, <1>5, <1>6, <1>7, <1>8 DEF Outsider

\* IndInv is inductive.
LEMMA NextInv == IndInv /\ [Next]_vars => IndInv'
<1> SUFFICES ASSUME IndInv, [Next]_vars PROVE IndInv'
  OBVIOUS
<1>1. CASE Request
  BY <1>1, ApplyInv, OtherInv DEF Request
<1>2. CASE Work
  BY <1>2, ApplyWorkInv, TeardownInv DEF Work
<1>3. CASE Open \/ Crash \/ Outsider
  BY <1>3, OtherInv
<1>4. CASE UNCHANGED vars
  BY <1>4 DEF vars, core, IndInv, TypeOK, NoOrphan, DiskCoversMemory, MemoryCoversKernel,
     InFlight, Present
<1> QED BY <1>1, <1>2, <1>3, <1>4 DEF Next

\* The inductive invariant holds in every reachable state, for any number of
\* owners and routes, crashes and failures.
THEOREM JournalInv == Spec => []IndInv
<1>1. Init => IndInv
  BY InitInv
<1>2. IndInv /\ [Next]_vars => IndInv'
  BY NextInv
<1> QED BY <1>1, <1>2, PTL DEF Spec

\* Type correctness of the journal, the file and the routing table.
THEOREM TypeCorrect == Spec => []TypeOK
<1>1. IndInv => TypeOK
  BY DEF IndInv
<1> QED BY <1>1, JournalInv, PTL

\* "A crash never leaks unowned routes": at every instant the file lists every
\* route the daemon has in the kernel.
THEOREM CrashLeaksNothing == Spec => []NoOrphan
<1>1. IndInv => NoOrphan
  BY DEF IndInv
<1> QED BY <1>1, JournalInv, PTL

\* The swallowed errors of persist() only ever leave too much in the file.
THEOREM FileNeverBehind == Spec => []DiskCoversMemory
<1>1. IndInv => DiskCoversMemory
  BY DEF IndInv
<1> QED BY <1>1, JournalInv, PTL

\* While the daemon runs, its memory lists every route it has installed.
THEOREM MemoryNeverBehind == Spec => []MemoryCoversKernel
<1>1. IndInv => MemoryCoversKernel
  BY DEF IndInv
<1> QED BY <1>1, JournalInv, PTL

-----------------------------------------------------------------------------
(* What a step does to the file and to the routing table.                  *)

\* A step either leaves the routing table alone, or leaves the file alone and
\* changes one route: the entry in flight adds one that is absent, an add that
\* fails does so unnoticed, one is deleted, or an outsider adds one.
LEMMA StepShape ==
    ASSUME IndInv, [Next]_vars
    PROVE  \/ kernel' = kernel
           \/ /\ disk' = disk
              /\ \E r \in Routes :
                    \/ AddRoute(r)
                    \/ CanAdd(r) /\ kernel' = [kernel EXCEPT ![r] = "lost"]
                    \/ Deletes(r) /\ kernel' = [kernel EXCEPT ![r] = "absent"]
                    \/ OutsiderAdds(r) \/ OutsiderRemoves(r)
<1>1. CASE Request
  BY <1>1 DEF Request, Apply, RemoveOwner, CleanupUid, CleanupSessionUid, Shutdown, Sweep
<1>2. CASE Work
  <2>1. CASE SaveAhead \/ SaveAheadFails \/ ApplyDone \/ RollbackDone \/ EntryDone \/ SweepDone
    BY <2>1 DEF SaveAhead, SaveAheadFails, ApplyDone, RollbackDone, EntryDone, SweepDone
  <2>2. CASE \E o \in Owners : TeardownEntry(o)
    BY <2>2 DEF TeardownEntry
  <2>3. ASSUME NEW r \in Routes, AddRoute(r) \/ AddRouteFails(r)
        PROVE  \/ kernel' = kernel
               \/ /\ disk' = disk
                  /\ AddRoute(r) \/ (CanAdd(r) /\ kernel' = [kernel EXCEPT ![r] = "lost"])
    BY <2>3 DEF AddRoute, AddRouteFails
  <2>4. ASSUME NEW r \in Routes, RollbackRoute(r) \/ RollbackRouteFails(r)
                                 \/ RemoveRoute(r) \/ RemoveRouteFails(r)
        PROVE  \/ kernel' = kernel
               \/ /\ disk' = disk
                  /\ Deletes(r) /\ kernel' = [kernel EXCEPT ![r] = "absent"]
    BY <2>4 DEF RollbackRoute, RollbackRouteFails, RemoveRoute, RemoveRouteFails, Without
  <2> QED BY <1>2, <2>1, <2>2, <2>3, <2>4 DEF Work
<1>3. CASE Open \/ Crash
  BY <1>3 DEF Open, Crash, Sweep
<1>4. CASE Outsider
  BY <1>4 DEF Outsider, OutsiderAdds, OutsiderRemoves
<1>5. CASE UNCHANGED vars
  BY <1>5 DEF vars
<1> QED BY <1>1, <1>2, <1>3, <1>4, <1>5 DEF Next

\* No request, rollback, crash or recovery withdraws or replaces a route that
\* somebody else installed.
THEOREM ForeignSafe == Spec => ForeignUntouched
<1> DEFINE A == \A r \in Routes :
                   kernel[r] = "foreign" /\ kernel'[r] # "foreign" => Outsider
<1>1. IndInv /\ [Next]_vars => [A]_vars
  <2> SUFFICES ASSUME IndInv, [Next]_vars, NEW r \in Routes,
                      kernel[r] = "foreign", kernel'[r] # "foreign"
               PROVE  Outsider
    OBVIOUS
  <2>1. PICK q \in Routes :
           \/ AddRoute(q)
           \/ CanAdd(q) /\ kernel' = [kernel EXCEPT ![q] = "lost"]
           \/ Deletes(q) /\ kernel' = [kernel EXCEPT ![q] = "absent"]
           \/ OutsiderAdds(q) \/ OutsiderRemoves(q)
    BY StepShape
  <2>2. CASE AddRoute(q) \/ (CanAdd(q) /\ kernel' = [kernel EXCEPT ![q] = "lost"])
    BY <2>2 DEF AddRoute, CanAdd, IndInv, TypeOK
  <2>3. CASE Deletes(q) /\ kernel' = [kernel EXCEPT ![q] = "absent"]
    BY <2>3, OwnersAssumption DEF Deletes, IndInv, TypeOK
  <2> QED BY <2>1, <2>2, <2>3 DEF Outsider
<1> QED BY <1>1, JournalInv, PTL DEF Spec, ForeignUntouched

\* A change of one route is a change of what is installed for one owner.
LEMMA InstalledChange ==
    ASSUME IndInv, NEW r \in Routes, NEW w \in Owners \cup {"absent", "foreign", "lost"},
           kernel' = [kernel EXCEPT ![r] = w]
    PROVE  installed' = [o \in Owners |-> IF o = w THEN installed[o] \cup {r}
                                                   ELSE installed[o] \ {r}]
<1>1. kernel \in [Routes -> Owners \cup {"absent", "foreign", "lost"}]
  BY DEF IndInv, TypeOK
<1>2. ASSUME NEW o \in Owners
      PROVE  {q \in Routes : kernel'[q] = o} =
                IF o = w THEN {q \in Routes : kernel[q] = o} \cup {r}
                         ELSE {q \in Routes : kernel[q] = o} \ {r}
  BY <1>1
<1> QED BY <1>2 DEF installed

\* The journal implements the ledger: write-ahead claims, exclusive routes.
THEOREM JournalImplementsLedger == Spec => ImplementsLedger
<1>1. Init => Ledger!Init
  <2> SUFFICES ASSUME Init PROVE Ledger!Init
    OBVIOUS
  <2>1. claimed = [o \in Owners |-> {}]
    BY DEF Init, claimed, Empty, NoEntry
  <2>2. installed = [o \in Owners |-> {}]
    BY OwnersAssumption DEF Init, installed
  <2> QED BY <2>1, <2>2 DEF Ledger!Init, Ledger!Nothing
<1>2. IndInv /\ IndInv' /\ [Next]_vars => [Ledger!Next]_<<claimed, installed>>
  <2> SUFFICES ASSUME IndInv, IndInv', [Next]_vars
               PROVE  Ledger!Next \/ UNCHANGED <<claimed, installed>>
    OBVIOUS
  <2>1. CASE kernel' = kernel
    <3>1. installed' = installed
      BY <2>1 DEF installed
    <3>2. claimed' \in [Owners -> SUBSET Routes]
      BY DEF IndInv, TypeOK, Entry, claimed
    <3>3. \A o \in Owners : installed[o] \subseteq claimed'[o]
      BY <2>1 DEF IndInv, NoOrphan, installed, claimed
    <3> QED BY <3>1, <3>2, <3>3 DEF Ledger!Next, Ledger!Rewrite
  <2>2. ASSUME NEW r \in Routes, disk' = disk, AddRoute(r)
        PROVE  Ledger!Next
    <3>1. /\ cur \in Owners
          /\ r \in claimed[cur]
          /\ \A p \in Owners : r \notin installed[p]
      BY <2>2, OwnersAssumption DEF AddRoute, CanAdd, IndInv, TypeOK, InFlight, DiskCoversMemory,
         Present, claimed, installed
    <3>2. claimed' = claimed
      BY <2>2 DEF claimed
    <3>3. installed' = [installed EXCEPT ![cur] = @ \cup {r}]
      <4>1. installed' = [o \in Owners |-> IF o = cur THEN installed[o] \cup {r}
                                                      ELSE installed[o] \ {r}]
        BY <2>2, <3>1, InstalledChange DEF AddRoute
      <4>2. installed = [o \in Owners |-> installed[o]]
        BY DEF installed
      <4> QED BY <3>1, <4>1, <4>2
    <3> QED BY <3>1, <3>2, <3>3 DEF Ledger!Next, Ledger!Install
  <2>3. ASSUME NEW r \in Routes, disk' = disk, NEW w \in {"absent", "foreign", "lost"},
               kernel' = [kernel EXCEPT ![r] = w]
        PROVE  Ledger!Next \/ UNCHANGED <<claimed, installed>>
    <3>1. claimed' = claimed
      BY <2>3 DEF claimed
    <3>2. installed' = [o \in Owners |-> installed[o] \ {r}]
      <4>1. w \in Owners \cup {"absent", "foreign", "lost"}
        BY <2>3
      <4>2. installed' = [o \in Owners |-> IF o = w THEN installed[o] \cup {r}
                                                    ELSE installed[o] \ {r}]
        BY <2>3, <4>1, InstalledChange
      <4>3. w \notin Owners
        BY <2>3, OwnersAssumption
      <4> QED BY <4>2, <4>3
    <3>3. installed' \in [Owners -> SUBSET Routes]
      BY <3>2 DEF installed
    <3>4. \A o \in Owners : installed'[o] \subseteq installed[o]
      BY <3>2
    <3> QED BY <3>1, <3>3, <3>4 DEF Ledger!Next, Ledger!Withdraw
  <2> QED BY <2>1, <2>2, <2>3, StepShape DEF OutsiderAdds, OutsiderRemoves
<1> QED BY <1>1, <1>2, JournalInv, PTL DEF Spec, ImplementsLedger, Ledger!Spec

-----------------------------------------------------------------------------
(* The reconcile pass.                                                     *)

Visiting == pass.step \in {"withdraw", "install"}

\* How the daemon can account for a route r that it has in the kernel for o:
\* by the file while it is down, by the entry while it runs, and while the
\* entry is worked on by what was added or is still to be withdrawn.
Listed(r, o) ==
    /\ pc = "down" => r \in disk[o].routes
    /\ pc # "down" => r \in journal[o].routes \/ (pass.step = "install" /\ o = pass.cur)
    /\ o = cur => /\ pc # "saving"
                  /\ pc = "adding" => r \in held
                  /\ pc \in {"rollback", "removing"} => r \in todo \cup held
    /\ o = pass.cur =>
          /\ pass.step = "withdraw" => r \in pass.want \cup pass.todo \cup pass.kept
          /\ pass.step = "install" => r \in pass.want \cup pass.kept

\* Everything in the kernel is accounted for, or was left by a process that
\* ended.
Accounted ==
    \A r \in Routes : kernel[r] \in Owners => Listed(r, kernel[r]) \/ r \in orphans

\* What is worked on belongs to the entry, and what a pass has still to do to
\* an entry it visits.
WorkBounds ==
    /\ pc \in {"adding", "rollback", "removing"} => todo \cup held \subseteq journal[cur].routes
    /\ pass.step = "off" => pass.owners = {}
    /\ \A o \in pass.owners : Visited(o)
    /\ Visiting => pass.cur \in Owners
    /\ pass.step = "install" => pass.todo \subseteq pass.want

AttachInv == AttachTypeOK /\ WorkBounds /\ Accounted

-----------------------------------------------------------------------------
(* Intents.                                                                *)

\* The steps of a job and what the core does meanwhile.
JobPhase ==
    /\ cause = "nothing" <=> pc \notin {"sweep", "removing"}
    /\ cause = "nothing" => scope = {}
    /\ cause = "open" => job.step = "load"
    /\ cause = "stop" => job = NoJob
    /\ job.step = "off" => job = NoJob
    /\ job.step \in {"clear", "undo"} => cause = "request"
    /\ job.step \in {"clear", "undo", "cleared", "arm", "save"} => job.o \in Intents
    /\ job.step = "load" => pc = "idle" \/ cause = "open"
    /\ job.step \in {"cleared", "save"} => pc = "idle"
    /\ job.step \in {"arm", "replay"} => pc \in {"idle", "saving", "adding", "rollback"}
    /\ pc = "down" => job = NoJob
    /\ pass.step # "off" => job = NoJob

\* An intent's record and its entry.
Agrees(o) ==
    /\ store[o] = "on" => Visited(o) \/ amiss[o] = "down"
    /\ Visited(o) => store[o] = "on" \/ amiss[o] = "gone"

\* The intents that the job or the sweep at hand is about to bring in line.
Unsettled(o) ==
    CASE job.step \in {"clear", "cleared", "arm", "save", "undo"} -> o = job.o
      [] job.step = "load"   -> TRUE
      [] job.step = "replay" -> o \in job.todo \/ (pc # "idle" /\ o = cur)
      [] OTHER               -> o \in scope \/ (pc = "removing" /\ o = cur)

OthersAgree ==
    pc # "down" /\ cause # "stop" => \A o \in Intents : Unsettled(o) \/ Agrees(o)

\* A sweep of the user's takes intents down knowingly, applies are of clients
\* or of the job, and a job knows what became of its intent.
JobKnows ==
    /\ job = NoJob /\ cause = "request" =>
          \A o \in Intents : o \in scope \/ o = cur => amiss[o] = "down"
    /\ pc \in {"saving", "adding", "rollback"} /\ cur \in Intents =>
          /\ job.step \in {"arm", "replay"}
          /\ journal[cur].attach
          /\ job.step = "arm" => cur = job.o
          /\ job.step = "replay" => store[cur] = "on"
    /\ job.step \in {"clear", "undo"} =>
          /\ scope \subseteq {job.o}
          /\ pc = "removing" => cur = job.o
          /\ pc = "sweep" => scope = {job.o} \/ ~Visited(job.o)
    /\ job.step = "undo" /\ store[job.o] = "on" => amiss[job.o] = "down"
    /\ job.step = "cleared" => journal[job.o].state = "none"
    /\ job.step = "arm" =>
          /\ job.on
          /\ pc = "idle" /\ journal[job.o].state # "applied" => amiss[job.o] = "down"
          /\ journal[job.o].state = "applied" => journal[job.o].attach
          /\ pc # "idle" => cur = job.o
    /\ job.step = "save" =>
          IF job.on THEN Visited(job.o) ELSE journal[job.o].state = "none"
    /\ job.step = "load" =>
          \A o \in Intents : Visited(o) => o \in scope \/ (pc = "removing" /\ o = cur)
    /\ job.step = "replay" =>
          /\ \A o \in job.todo : store[o] = "on"
          /\ pc # "idle" => cur \in Intents

\* The type invariant of the intents without that of the passes.
JobTypes ==
    /\ store \in [Intents -> {"none", "off", "on"}]
    /\ job \in [step : {"off", "clear", "cleared", "arm", "save", "undo", "load", "replay"},
                o : Intents \cup {Nobody}, on : BOOLEAN, todo : SUBSET Intents]
    /\ amiss \in [Intents -> {"no", "down", "gone"}]

RecordsInv == JobTypes /\ JobPhase /\ OthersAgree /\ JobKnows

-----------------------------------------------------------------------------
\* An entry is put together from a state, routes and an attach flag.
LEMMA EntryType ==
    ASSUME NEW s \in States, NEW rs \in SUBSET Routes, NEW a \in BOOLEAN, s # "none"
    PROVE  [state |-> s, routes |-> rs, attach |-> a] \in Entry
BY DEF Entry

\* The empty journal is a journal.
LEMMA EmptyType == NoEntry \in Entry /\ Empty \in [Owners -> Entry]
BY DEF Empty, NoEntry, Entry, States

\* What a failed apply or a teardown leaves is an entry.
LEMMA LeftType ==
    ASSUME NEW e \in Entry, e.state # "none", NEW left \in SUBSET Routes
    PROVE  /\ AfterRollback(e, left) \in Entry
           /\ AfterTeardown(left) \in Entry
           /\ [e EXCEPT !.routes = left] \in Entry
BY DEF AfterRollback, AfterTeardown, Entry, NoEntry, States

\* An entry that is marked `applied` stays an entry.
LEMMA AppliedType ==
    ASSUME NEW e \in Entry, e.state # "none"
    PROVE  [e EXCEPT !.state = "applied"] \in Entry
BY DEF Entry, NoEntry, States

\* The requests and steps of the journal keep its type invariant, whatever the
\* passes have done to the entries before.
LEMMA JournalTypes ==
    ASSUME TypeOK, Request \/ Work \/ Open \/ Crash \/ Outsider
    PROVE  TypeOK'
<1> USE OwnersAssumption, EmptyType DEF TypeOK, Phases, Causes, Nobody, Present, Rest, Unlock, core
<1>1. ASSUME NEW o \in Owners, NEW rs \in SUBSET Routes, NEW att \in BOOLEAN, Apply(o, rs, att)
      PROVE  TypeOK'
  <2>1. [state |-> "applying", routes |-> rs, attach |-> att] \in Entry
    BY EntryType DEF States
  <2> QED BY <1>1, <2>1 DEF Apply
<1>2. CASE (\E o \in Owners : RemoveOwner(o)) \/ (\E u \in Uids : CleanupUid(u))
           \/ (\E u \in Uids, keep \in SUBSET Owners : CleanupSessionUid(u, keep)) \/ Shutdown
  BY <1>2 DEF RemoveOwner, CleanupUid, CleanupSessionUid, Shutdown, Sweep
<1>3. CASE SaveAhead
  BY <1>3 DEF SaveAhead, SaveOk, Entry
<1>4. CASE SaveAheadFails
  BY <1>4 DEF SaveAheadFails, SaveErr
<1>5. ASSUME NEW r \in Routes, AddRoute(r) \/ AddRouteFails(r) \/ RollbackRoute(r) \/ RollbackRouteFails(r)
      PROVE  TypeOK'
  BY <1>5 DEF AddRoute, AddRouteFails, RollbackRoute, RollbackRouteFails, Without
<1>6. CASE ApplyDone
  <2>1. journal' \in [Owners -> Entry]
    BY <1>6, AppliedType DEF ApplyDone
  <2> QED BY <1>6, <2>1 DEF ApplyDone, Persist, SaveErr
<1>7. CASE RollbackDone
  <2>1. journal' \in [Owners -> Entry]
    BY <1>7, LeftType DEF RollbackDone
  <2> QED BY <1>7, <2>1 DEF RollbackDone, Persist, SaveErr
<1>8. ASSUME NEW o \in Owners, TeardownEntry(o) PROVE TypeOK'
  BY <1>8 DEF TeardownEntry, Entry
<1>9. ASSUME NEW r \in Routes, RemoveRoute(r) \/ RemoveRouteFails(r) PROVE TypeOK'
  BY <1>9 DEF RemoveRoute, RemoveRouteFails, Without
<1>10. CASE EntryDone
  <2>1. journal' \in [Owners -> Entry]
    BY <1>10, LeftType DEF EntryDone
  <2> QED BY <1>10, <2>1 DEF EntryDone
<1>11. CASE SweepDone
  BY <1>11 DEF SweepDone, SaveOk, SaveErr
<1>12. CASE Open
  BY <1>12 DEF Open, Sweep
<1>13. CASE Crash
  BY <1>13 DEF Crash
<1>14. CASE Outsider
  BY <1>14 DEF Outsider, OutsiderAdds, OutsiderRemoves
<1> HIDE DEF TypeOK, Present, Rest, Unlock, core
<1> QED BY <1>1, <1>2, <1>3, <1>4, <1>5, <1>6, <1>7, <1>8, <1>9, <1>10, <1>11, <1>12, <1>13, <1>14
        DEF Request, Work

-----------------------------------------------------------------------------
(* A pass strands no route.                                                *)

\* The daemon starts with nothing in the kernel.
LEMMA InitAttach == AttachInit => AttachInv
BY OwnersAssumption DEF AttachInit, Init, AttachInv, AttachTypeOK, TypeOK, WorkBounds, Accounted,
   Idle, PassSteps, Phases, Causes, Nobody, Present, Empty, NoEntry, Entry, States, Visiting

\* An orphan is a route the daemon has in the kernel; a route that changes
\* hands is none any more.
LEMMA OrphansType ==
    ASSUME AttachTypeOK, History,
           kernel' \in [Routes -> Owners \cup {"absent", "foreign", "lost"}]
    PROVE  orphans' \subseteq {r \in Routes : kernel'[r] \in Owners}
BY DEF AttachTypeOK, History, Unlisted

\* When the process goes down, what the file does not list becomes an orphan.
LEMMA ExitAccounts ==
    ASSUME AttachTypeOK', History, pc # "down", pc' = "down"
    PROVE  Accounted'
BY OwnersAssumption DEF History, Unlisted, Accounted, Listed, AttachTypeOK, TypeOK, Nobody

\* While a request works, the work bounds are those of the journal alone.
LEMMA CoreBounds ==
    ASSUME AttachInv, CoreStep
    PROVE  WorkBounds'
<1> USE DEF AttachInv, AttachTypeOK, WorkBounds, CoreStep, Visiting
<1>1. /\ pass' = pass /\ pass.owners = {} /\ pass.step = "off"
      /\ Request \/ Work \/ Open
  OBVIOUS
<1>2. pc' \in {"adding", "rollback", "removing"} => todo' \cup held' \subseteq journal'[cur'].routes
  <2> USE OwnersAssumption DEF TypeOK, Present, Rest, Unlock, core
  <2>1. CASE Request
    BY <2>1 DEF Request, Apply, RemoveOwner, CleanupUid, CleanupSessionUid, Shutdown, Sweep
  <2>2. CASE SaveAhead \/ SaveAheadFails \/ ApplyDone \/ RollbackDone
    BY <2>2 DEF SaveAhead, SaveAheadFails, ApplyDone, RollbackDone
  <2>3. ASSUME NEW r \in Routes,
               \/ AddRoute(r) \/ AddRouteFails(r) \/ RollbackRoute(r) \/ RollbackRouteFails(r)
               \/ RemoveRoute(r) \/ RemoveRouteFails(r)
        PROVE  todo' \cup held' \subseteq journal'[cur'].routes
    BY <2>3 DEF AddRoute, AddRouteFails, RollbackRoute, RollbackRouteFails, RemoveRoute,
       RemoveRouteFails
  <2>4. ASSUME NEW o \in Owners, TeardownEntry(o)
        PROVE  todo' \cup held' \subseteq journal'[cur'].routes
    BY <2>4 DEF TeardownEntry
  <2>5. CASE EntryDone \/ SweepDone
    BY <2>5 DEF EntryDone, SweepDone
  <2>6. CASE Open
    BY <2>6 DEF Open, Sweep
  <2> HIDE DEF AttachInv, AttachTypeOK, WorkBounds, CoreStep, TypeOK
  <2> QED BY <1>1, <2>1, <2>2, <2>3, <2>4, <2>5, <2>6 DEF Work
<1> QED BY <1>1, <1>2

\* A request and the steps it takes account for what they add and withdraw.
LEMMA CoreAccounts ==
    ASSUME AttachInv, CoreStep, History, AttachTypeOK'
    PROVE  Accounted'
<1> USE OwnersAssumption DEF AttachInv, AttachTypeOK, TypeOK, WorkBounds, Accounted, Listed, History,
    CoreStep, Present, Nobody, Rest, Unlock, core
<1>1. CASE pc' = "down"
  <2>1. pc # "down"
    BY <1>1 DEF Request, Work, Open, Apply, RemoveOwner, CleanupUid, CleanupSessionUid, Shutdown,
       Sweep, SaveAhead, SaveAheadFails, AddRoute, AddRouteFails, ApplyDone, RollbackRoute,
       RollbackRouteFails, RollbackDone, TeardownEntry, RemoveRoute, RemoveRouteFails, EntryDone,
       SweepDone
  <2> QED BY <1>1, <2>1, ExitAccounts
<1> SUFFICES ASSUME pc' # "down", NEW r \in Routes, kernel'[r] \in Owners, r \notin orphans'
             PROVE  Listed(r, kernel[r])'
  BY <1>1
<1>2. kernel'[r] = kernel[r] => Listed(r, kernel[r])
  OBVIOUS
<1>3. pass' = pass /\ pass.step = "off"
  OBVIOUS
<1>4. ASSUME NEW o \in Owners, NEW rs \in SUBSET Routes, NEW att \in BOOLEAN, Apply(o, rs, att)
      PROVE  Listed(r, kernel[r])'
  BY <1>2, <1>3, <1>4 DEF Apply, Entry, NoEntry
<1>5. CASE (\E o \in Owners : RemoveOwner(o)) \/ (\E u \in Uids : CleanupUid(u))
           \/ (\E u \in Uids, keep \in SUBSET Owners : CleanupSessionUid(u, keep)) \/ Shutdown
  BY <1>2, <1>3, <1>5 DEF RemoveOwner, CleanupUid, CleanupSessionUid, Shutdown, Sweep
<1>6. CASE SaveAhead
  BY <1>2, <1>3, <1>6 DEF SaveAhead, SaveOk
<1>7. CASE SaveAheadFails
  BY <1>2, <1>3, <1>7 DEF SaveAheadFails
<1>8. ASSUME NEW q \in Routes, AddRoute(q) PROVE Listed(r, kernel[r])'
  BY <1>2, <1>3, <1>8 DEF AddRoute, CanAdd
<1>9. ASSUME NEW q \in Routes, AddRouteFails(q) \/ RollbackRouteFails(q) \/ RemoveRouteFails(q)
      PROVE Listed(r, kernel[r])'
  <2>1. \/ kernel' = kernel
        \/ kernel' = [kernel EXCEPT ![q] = "lost"]
        \/ kernel' = [kernel EXCEPT ![q] = "absent"]
    BY <1>9 DEF AddRouteFails, RollbackRouteFails, RemoveRouteFails, Without
  <2>2. kernel'[r] = kernel[r]
    BY <2>1
  <2>3. Listed(r, kernel[r])
    BY <1>2, <2>2
  <2>4. CASE AddRouteFails(q)
    BY <1>3, <2>2, <2>3, <2>4 DEF AddRouteFails
  <2>5. CASE RollbackRouteFails(q) \/ RemoveRouteFails(q)
    BY <1>3, <2>2, <2>3, <2>5 DEF RollbackRouteFails, RemoveRouteFails
  <2> QED BY <1>9, <2>4, <2>5
<1>10. CASE ApplyDone
  BY <1>2, <1>3, <1>10 DEF ApplyDone, Entry
<1>11. ASSUME NEW q \in Routes, RollbackRoute(q) PROVE Listed(r, kernel[r])'
  BY <1>2, <1>3, <1>11 DEF RollbackRoute, Deletes
<1>12. CASE RollbackDone
  BY <1>2, <1>3, <1>12 DEF RollbackDone, AfterRollback, Entry, NoEntry
<1>13. ASSUME NEW o \in Owners, TeardownEntry(o) PROVE Listed(r, kernel[r])'
  BY <1>2, <1>3, <1>13 DEF TeardownEntry
<1>14. ASSUME NEW q \in Routes, RemoveRoute(q) PROVE Listed(r, kernel[r])'
  <2>1. \/ kernel' = kernel /\ kernel[q] \notin Owners
        \/ kernel' = [kernel EXCEPT ![q] = "absent"]
    BY <1>14 DEF RemoveRoute, Without, Deletes
  <2>2. kernel'[r] = kernel[r] /\ r # q
    BY <2>1
  <2> QED BY <1>2, <1>3, <1>14, <2>2 DEF RemoveRoute
<1>15. CASE EntryDone
  BY <1>2, <1>3, <1>15 DEF EntryDone, AfterTeardown, NoEntry
<1>16. CASE SweepDone
  BY <1>2, <1>3, <1>16 DEF SweepDone
<1>17. CASE Open
  BY <1>2, <1>3, <1>17 DEF Open, Sweep
<1> HIDE DEF AttachInv, AttachTypeOK, TypeOK, WorkBounds, Accounted, Listed, History
<1> QED BY <1>4, <1>5, <1>6, <1>7, <1>8, <1>9, <1>10, <1>11, <1>12, <1>13, <1>14, <1>15, <1>16, <1>17
        DEF Request, Work

\* The steps of a pass keep the entries it visits armed, and account for what
\* they withdraw and install.
LEMMA PassStep ==
    ASSUME AttachInv, PassBegin \/ PassWork, History
    PROVE  AttachInv'
<1> USE OwnersAssumption DEF AttachInv, AttachTypeOK, TypeOK, WorkBounds, Accounted, Listed, History,
    Visiting, Visited, PassSteps, Nobody, Present, Phases, Causes, core
<1>0. /\ pc = "idle" /\ pc' = pc
      /\ orphans' = {r \in orphans : kernel'[r] = kernel[r]}
  BY DEF PassBegin, PassWork, ReconcileEntry, Withdraw, WithdrawFails, WithdrawDone, Install,
     InstallFails, EntryReconciled, PassDone
<1>1. CASE PassBegin
  BY <1>0, <1>1 DEF PassBegin, Idle
<1>2. ASSUME NEW o \in Owners, NEW d \in SUBSET Routes, ReconcileEntry(o, d)
      PROVE  AttachInv'
  BY <1>0, <1>2 DEF ReconcileEntry, Entry
<1>3. ASSUME NEW r \in Routes, Withdraw(r) PROVE AttachInv'
  <2>1. /\ kernel' = kernel \/ kernel' = [kernel EXCEPT ![r] = "absent"]
        /\ UNCHANGED <<journal, disk, core>>
        /\ pass.step = "withdraw" /\ r \in pass.todo
        /\ pass' = [pass EXCEPT !.todo = @ \ {r}, !.changed = TRUE]
        /\ kernel'[r] \notin Owners
    BY <1>3 DEF Withdraw, Without, Deletes
  <2>2. AttachTypeOK'
    BY <1>0, <2>1
  <2>3. WorkBounds'
    BY <1>0, <2>1
  <2>4. Accounted'
    BY <1>0, <2>1
  <2> QED BY <2>2, <2>3, <2>4
<1>4. ASSUME NEW r \in Routes, WithdrawFails(r) PROVE AttachInv'
  <2>1. /\ kernel' = kernel \/ kernel' = [kernel EXCEPT ![r] = "absent"]
        /\ UNCHANGED <<journal, disk, core>>
        /\ pass.step = "withdraw" /\ r \in pass.todo
        /\ pass' = [pass EXCEPT !.todo = @ \ {r}, !.kept = @ \cup {r}]
    BY <1>4 DEF WithdrawFails, Without
  <2>2. AttachTypeOK'
    BY <1>0, <2>1
  <2>3. WorkBounds'
    BY <1>0, <2>1
  <2>4. Accounted'
    BY <1>0, <2>1
  <2> QED BY <2>2, <2>3, <2>4
<1>5. CASE WithdrawDone
  BY <1>0, <1>5 DEF WithdrawDone
<1>6. ASSUME NEW r \in Routes, Install(r) PROVE AttachInv'
  <2>1. /\ kernel[r] = "absent" /\ kernel' = [kernel EXCEPT ![r] = pass.cur]
        /\ r \in pass.want /\ pass.cur \in Owners /\ pass.step = "install"
        /\ pass' = [pass EXCEPT !.todo = @ \ {r}, !.changed = TRUE]
        /\ UNCHANGED <<journal, disk, core>>
    BY <1>6 DEF Install, CanAdd
  <2>2. AttachTypeOK'
    BY <1>0, <2>1
  <2>3. WorkBounds'
    BY <1>0, <2>1
  <2>4. Accounted'
    BY <1>0, <2>1
  <2> QED BY <2>2, <2>3, <2>4
<1>7. ASSUME NEW r \in Routes, InstallFails(r) PROVE AttachInv'
  <2>1. /\ kernel' = kernel \/ (kernel[r] = "absent" /\ kernel' = [kernel EXCEPT ![r] = pass.cur])
        /\ r \in pass.want /\ pass.cur \in Owners /\ pass.step = "install"
        /\ pass' = [pass EXCEPT !.todo = @ \ {r}]
        /\ UNCHANGED <<journal, disk, core>>
    BY <1>7 DEF InstallFails, CanAdd
  <2>2. AttachTypeOK'
    BY <1>0, <2>1
  <2>3. WorkBounds'
    BY <1>0, <2>1
  <2>4. Accounted'
    BY <1>0, <2>1
  <2> QED BY <2>2, <2>3, <2>4
<1>8. CASE EntryReconciled
  <2> DEFINE o == pass.cur
             rs == pass.want \cup pass.kept
  <2>1. /\ o \in Owners /\ rs \in SUBSET Routes
        /\ journal[o] \in Entry /\ journal[o].state = "applied" /\ journal[o].attach
        /\ pass.step = "install"
    BY <1>8 DEF EntryReconciled
  <2>2. [journal[o] EXCEPT !.routes = rs] \in Entry
    BY <2>1, LeftType
  <2>3. journal' = [journal EXCEPT ![o] = [journal[o] EXCEPT !.routes = rs]]
    BY <1>8 DEF EntryReconciled
  <2>4. /\ journal' \in [Owners -> Entry]
        /\ journal'[o].routes = rs
        /\ \A q \in Owners : /\ journal'[q].state = journal[q].state
                             /\ journal'[q].attach = journal[q].attach
                             /\ q # o => journal'[q] = journal[q]
    BY <2>1, <2>2, <2>3 DEF Entry
  <2>5. /\ disk' \in {disk, journal'} /\ UNCHANGED <<kernel, core>>
        /\ pass' = [pass EXCEPT !.step = "next", !.cur = Nobody, !.want = {},
                                !.kept = {}, !.changed = FALSE]
    BY <1>8 DEF EntryReconciled, Persist, SaveErr
  <2> HIDE DEF o, rs
  <2>6. AttachTypeOK'
    BY <1>0, <2>1, <2>4, <2>5
  <2>7. WorkBounds'
    BY <1>0, <2>1, <2>4, <2>5
  <2>8. Accounted'
    BY <1>0, <2>1, <2>4, <2>5 DEF o, rs
  <2> QED BY <2>6, <2>7, <2>8
<1>9. CASE PassDone
  BY <1>0, <1>9 DEF PassDone, Idle
<1> HIDE DEF AttachInv, AttachTypeOK, TypeOK, WorkBounds, Accounted, Listed, History
<1> QED BY <1>1, <1>2, <1>3, <1>4, <1>5, <1>6, <1>7, <1>8, <1>9 DEF PassWork

\* Every step of the requests, the passes, a crash and the others keeps the
\* invariant.
LEMMA AttachStep == AttachInv /\ [AttachNext]_avars => AttachInv'
<1> SUFFICES ASSUME AttachInv, [AttachNext]_avars PROVE AttachInv'
  OBVIOUS
<1>1. CASE CoreStep /\ History
  <2>1. TypeOK'
    BY <1>1, JournalTypes DEF CoreStep, AttachInv, AttachTypeOK
  <2>2. orphans' \subseteq {r \in Routes : kernel'[r] \in Owners}
    BY <1>1, <2>1, OrphansType DEF AttachInv, TypeOK
  <2>3. AttachTypeOK'
    BY <1>1, <2>1, <2>2 DEF AttachTypeOK, AttachInv, CoreStep
  <2> QED BY <1>1, <2>3, CoreBounds, CoreAccounts DEF AttachInv
<1>2. CASE (PassBegin \/ PassWork) /\ History
  BY <1>2, PassStep
<1>3. CASE Outsider /\ UNCHANGED pass /\ History
  <2>1. TypeOK'
    BY <1>3, JournalTypes DEF AttachInv, AttachTypeOK
  <2>2. orphans' \subseteq {r \in Routes : kernel'[r] \in Owners}
    BY <1>3, <2>1, OrphansType DEF AttachInv, TypeOK
  <2>3. UNCHANGED <<journal, disk, core, pass>> /\ orphans' = {r \in orphans : kernel'[r] = kernel[r]}
    BY <1>3 DEF Outsider, OutsiderAdds, OutsiderRemoves, History, core
  <2>4. \A r \in Routes : kernel'[r] \in Owners => kernel'[r] = kernel[r]
    BY <1>3, OwnersAssumption DEF Outsider, OutsiderAdds, OutsiderRemoves, AttachInv, AttachTypeOK, TypeOK
  <2>5. AttachTypeOK' /\ WorkBounds'
    BY <2>1, <2>2, <2>3 DEF AttachInv, AttachTypeOK, WorkBounds, Visiting, Visited, core
  <2>6. Accounted'
    BY <2>3, <2>4 DEF AttachInv, Accounted, Listed, core
  <2> QED BY <2>5, <2>6 DEF AttachInv
<1>4. CASE Crash /\ pass' = Idle /\ History
  <2>1. TypeOK'
    BY <1>4, JournalTypes DEF AttachInv, AttachTypeOK
  <2>2. orphans' \subseteq {r \in Routes : kernel'[r] \in Owners}
    BY <1>4, <2>1, OrphansType DEF AttachInv, TypeOK
  <2>3. AttachTypeOK' /\ WorkBounds'
    BY <1>4, <2>1, <2>2 DEF Crash, Idle, Nobody, PassSteps, AttachTypeOK, WorkBounds, Visiting
  <2>4. Accounted'
    BY <1>4, <2>3, ExitAccounts DEF Crash
  <2> QED BY <2>3, <2>4 DEF AttachInv
<1>5. CASE UNCHANGED avars
  BY <1>5 DEF avars, vars, core, AttachInv, AttachTypeOK, TypeOK, WorkBounds, Accounted, Listed,
     Visiting, Visited, Present
<1> QED BY <1>1, <1>2, <1>3, <1>4, <1>5 DEF AttachNext

\* The inductive invariant of the passes.
THEOREM AttachInvariant == AttachSpec => []AttachInv
BY InitAttach, AttachStep, PTL DEF AttachSpec

\* reconcile_attach: whatever fails in a pass, every route the daemon has in the
\* kernel stays listed under its owner; only the end of a process orphans any.
THEOREM PassesStrandNothing == AttachSpec => []OnlyExitsOrphan
<1>1. AttachInv => OnlyExitsOrphan
  BY DEF AttachInv, Accounted, Listed, OnlyExitsOrphan
<1> QED BY <1>1, AttachInvariant, PTL

-----------------------------------------------------------------------------
(* Intents implement the passes and the journal.                           *)

\* A step that leaves journal, file, kernel, core and pass alone leaves the
\* orphans alone too.
LEMMA SameOrphans ==
    ASSUME Same, UNCHANGED pass, History
    PROVE  UNCHANGED avars
BY DEF Same, vars, core, avars, History

\* Tearing down the entry of an intent is removing its owner.
LEMMA SweepOne ==
    ASSUME NEW o \in Owners, pc = "idle", o \in Present(journal), Sweep({o}, "request"),
           UNCHANGED journal
    PROVE  Request
BY DEF RemoveOwner, Request

\* Each step of an intent's request, of the replay and of everything else is a
\* step of the requests and passes, or changes none of what these know.
LEMMA IntentsRefine ==
    ASSUME AttachInv, RecordsInv, [IntentsNext]_ivars
    PROVE  [AttachNext]_avars
<1> USE OwnersAssumption, IntentsAssumption DEF RecordsInv
<1>1. ASSUME NEW o \in Intents, UNCHANGED pass, History,
             IntentSet(o, TRUE) \/ IntentSet(o, FALSE) \/ IntentDel(o) \/ IntentDelFails(o)
      PROVE  [AttachNext]_avars
  <2>1. pc = "idle" /\ pass.step = "off"
    BY <1>1 DEF IntentSet, IntentDel, IntentDelFails, Free
  <2>2. \/ Same
        \/ o \in Present(journal) /\ Sweep({o}, "request") /\ UNCHANGED journal
    BY <1>1 DEF IntentSet, IntentDel, IntentDelFails
  <2> QED BY <1>1, <2>1, <2>2, SameOrphans, SweepOne DEF CoreStep, AttachNext
<1>2. CASE ClientRequest /\ UNCHANGED pass /\ History
  <2>1. Request /\ pass.step = "off"
    BY <1>2 DEF ClientRequest, Request, Free
  <2> QED BY <1>2, <2>1 DEF CoreStep, AttachNext
<1>3. CASE IntentsOpen /\ UNCHANGED pass /\ History
  <2>1. Open /\ pass.step = "off"
    BY <1>3 DEF IntentsOpen, JobPhase, AttachInv, AttachTypeOK, Open
  <2> QED BY <1>3, <2>1 DEF CoreStep, AttachNext
<1>4. CASE JournalWork /\ UNCHANGED pass /\ History
  BY <1>4 DEF JournalWork, CoreStep, AttachNext
<1>5. CASE IntentWork /\ UNCHANGED pass /\ History
  <2>1. job # NoJob /\ pass.step = "off"
    <3>1. job.step # "off"
      BY <1>5 DEF IntentWork, ClearDone, IntentArm, IntentSkip, IntentArmed, IntentSaved,
         IntentSaveFails, UndoDone, ReplayLoad, ReplayIntent, ReplayRefused, ReplayDone
    <3> QED BY <3>1 DEF NoJob, JobPhase
  <2>2. CASE ClearDone
    <3>1. SweepDone
      BY <2>2 DEF ClearDone, SweepDone, Unlock, SaveErr, Persist, JobPhase
    <3> QED BY <1>5, <2>1, <3>1 DEF Work, CoreStep, AttachNext
  <2>3. ASSUME NEW rs \in SUBSET Routes, IntentArm(rs) PROVE [AttachNext]_avars
    <3>1. Request
      BY <2>3 DEF IntentArm, Request, JobPhase
    <3> QED BY <1>5, <2>1, <3>1 DEF CoreStep, AttachNext
  <2>4. CASE IntentSaveFails
    <3>1. \/ Same
          \/ job.o \in Present(journal) /\ Sweep({job.o}, "request") /\ UNCHANGED journal
      BY <2>4 DEF IntentSaveFails
    <3>2. pc = "idle" /\ job.o \in Owners
      BY <2>4 DEF IntentSaveFails, JobPhase
    <3> QED BY <1>5, <2>1, <3>1, <3>2, SameOrphans, SweepOne DEF CoreStep, AttachNext
  <2>5. CASE UndoDone
    BY <1>5, <2>1, <2>5 DEF UndoDone, Work, CoreStep, AttachNext
  <2>6. ASSUME NEW o \in Intents, NEW rs \in SUBSET Routes, ReplayIntent(o, rs)
        PROVE  [AttachNext]_avars
    <3>1. Request
      BY <2>6 DEF ReplayIntent, Request
    <3> QED BY <1>5, <2>1, <3>1 DEF CoreStep, AttachNext
  <2>7. CASE \/ IntentSkip \/ IntentArmed \/ IntentSaved \/ ReplayLoad \/ ReplayDone
             \/ \E o \in Intents : ReplayRefused(o)
    BY <1>5, <2>7, SameOrphans DEF IntentSkip, IntentArmed, IntentSaved, ReplayLoad, ReplayDone,
       ReplayRefused
  <2> QED BY <1>5, <2>2, <2>3, <2>4, <2>5, <2>6, <2>7 DEF IntentWork
<1>6. CASE PassBegin /\ History
  BY <1>6 DEF AttachNext
<1>7. CASE PassWork /\ History
  BY <1>7 DEF AttachNext
<1>8. CASE Outsider /\ UNCHANGED pass /\ History
  BY <1>8 DEF AttachNext
<1>9. CASE Crash /\ pass' = Idle /\ History
  BY <1>9 DEF AttachNext
<1>10. CASE UNCHANGED ivars
  BY <1>10 DEF ivars
<1> QED BY <1>1, <1>2, <1>3, <1>4, <1>5, <1>6, <1>7, <1>8, <1>9, <1>10
        DEF IntentsNext, IntentRequest, CoreWork

-----------------------------------------------------------------------------
(* Records and entries agree.                                              *)

\* No intent has a record at first.
LEMMA InitRecords == IntentsInit => RecordsInv
<1> SUFFICES ASSUME IntentsInit PROVE RecordsInv
  OBVIOUS
<1>1. JobTypes
  BY DEF IntentsInit, NoJob, JobTypes
<1>2. JobPhase
  BY DEF IntentsInit, AttachInit, Init, Idle, NoJob, JobPhase
<1>3. OthersAgree
  BY IntentsAssumption, OwnersAssumption DEF IntentsInit, AttachInit, Init, Idle, NoJob, OthersAgree, Agrees,
     Visited, Empty, NoEntry
<1>4. JobKnows
  BY IntentsAssumption, OwnersAssumption DEF IntentsInit, AttachInit, Init, NoJob, JobKnows
<1> QED BY <1>1, <1>2, <1>3, <1>4 DEF RecordsInv

\* net.intent.set and net.intent.del.
LEMMA RequestRecords ==
    ASSUME AttachInv, RecordsInv, NEW o \in Intents, UNCHANGED pass,
           IntentSet(o, TRUE) \/ IntentSet(o, FALSE) \/ IntentDel(o) \/ IntentDelFails(o)
    PROVE  RecordsInv'
<1>0. /\ journal \in [Owners -> Entry] /\ scope = {} /\ cur = Nobody /\ pc = "idle" /\ pass.step = "off"
      /\ job = NoJob /\ o \in Owners /\ Intents \subseteq Owners /\ Nobody \notin Owners
      /\ UNCHANGED journal
      /\ cause = "nothing"
  BY OwnersAssumption, IntentsAssumption DEF AttachInv, AttachTypeOK, TypeOK, IntentSet, IntentDel, IntentDelFails, Free, Same, vars, Nobody,
     RecordsInv, JobPhase
<1> USE <1>0 DEF RecordsInv, Same, vars, core, Sweep, Present, NoJob
<1>1. ASSUME NEW on \in BOOLEAN, IntentSet(o, on) PROVE RecordsInv'
  <2> USE <1>1 DEF IntentSet
  <2>1. JobTypes'
    BY DEF JobTypes
  <2>2. JobPhase'
    BY DEF JobPhase
  <2>3. OthersAgree'
    BY DEF OthersAgree, Agrees, Unsettled, Visited
  <2>4. JobKnows'
    BY DEF JobKnows, Visited
  <2> QED BY <2>1, <2>2, <2>3, <2>4
<1>2. CASE IntentDel(o)
  <2> USE <1>2 DEF IntentDel
  <2>1. JobTypes'
    BY DEF JobTypes
  <2>2. JobPhase'
    BY DEF JobPhase
  <2>3. OthersAgree'
    BY DEF OthersAgree, Agrees, Unsettled, Visited, JobTypes
  <2>4. JobKnows'
    <3>1. store'[o] = "none"
      BY DEF JobTypes
    <3>2. CASE o \in Present(journal)
      <4>1. /\ job' = [step |-> "undo", o |-> o, on |-> FALSE, todo |-> {}]
            /\ pc' = "sweep" /\ cause' = "request" /\ scope' = {o} /\ cur' = cur
        BY <3>2
      <4> QED BY <3>1, <4>1 DEF JobKnows
    <3>3. CASE o \notin Present(journal)
      <4>1. UNCHANGED <<job, pc, cause, scope, cur, journal>>
        BY <3>3
      <4> QED BY <4>1 DEF JobKnows
    <3> QED BY <3>2, <3>3
  <2> QED BY <2>1, <2>2, <2>3, <2>4
<1>3. CASE IntentDelFails(o)
  <2> USE <1>3 DEF IntentDelFails, StoreErr
  <2>1. JobTypes'
    BY DEF JobTypes
  <2>2. JobPhase'
    BY DEF JobPhase
  <2>3. OthersAgree'
    BY DEF OthersAgree, Agrees, Unsettled, Visited, JobTypes
  <2>4. JobKnows'
    BY DEF JobKnows, Visited
  <2> QED BY <2>1, <2>2, <2>3, <2>4
<1> HIDE DEF RecordsInv
<1> QED BY <1>1, <1>2, <1>3

\* What a client asks for does not touch an intent's entry, or says that it is
\* taken down; "Disconnect all" ends the process.
LEMMA ClientRecords ==
    ASSUME AttachInv, RecordsInv, UNCHANGED pass, ClientRequest
    PROVE  RecordsInv'
<1>0. /\ journal \in [Owners -> Entry] /\ scope = {} /\ cur = Nobody /\ pc = "idle" /\ pass.step = "off"
      /\ job = NoJob /\ Intents \subseteq Managed /\ Intents \subseteq Owners /\ Nobody \notin Owners
      /\ cause = "nothing"
      /\ UNCHANGED <<store, job>>
  BY OwnersAssumption, IntentsAssumption DEF AttachInv, AttachTypeOK, TypeOK, ClientRequest, Free, Nobody, RecordsInv, JobPhase
<1> USE <1>0 DEF RecordsInv, Sweep, Present, NoJob
<1>1. ASSUME NEW o \in Owners \ Intents, NEW rs \in SUBSET Routes, NEW att \in BOOLEAN,
             Apply(o, rs, att), UNCHANGED amiss
      PROVE  RecordsInv'
  <2> USE <1>1 DEF Apply
  <2>0. \A i \in Intents : journal'[i] = journal[i]
    OBVIOUS
  <2>1. JobTypes'
    BY DEF JobTypes
  <2>2. JobPhase'
    BY DEF JobPhase
  <2>3. OthersAgree'
    BY <2>0 DEF OthersAgree, Agrees, Unsettled, Visited
  <2>4. JobKnows'
    BY <2>0 DEF JobKnows, Visited
  <2> QED BY <2>1, <2>2, <2>3, <2>4
<1>2. ASSUME NEW u \in Uids, NEW keep \in SUBSET Owners, CleanupSessionUid(u, keep), UNCHANGED amiss
      PROVE  RecordsInv'
  <2> USE <1>2 DEF CleanupSessionUid
  <2>0. scope' \cap Intents = {}
    OBVIOUS
  <2>1. JobTypes'
    BY DEF JobTypes
  <2>2. JobPhase'
    BY DEF JobPhase
  <2>3. OthersAgree'
    BY <2>0 DEF OthersAgree, Agrees, Unsettled, Visited
  <2>4. JobKnows'
    BY <2>0 DEF JobKnows, Visited
  <2> QED BY <2>1, <2>2, <2>3, <2>4
<1>3. CASE Shutdown /\ UNCHANGED amiss
  <2> USE <1>3 DEF Shutdown
  <2>1. JobTypes'
    BY DEF JobTypes
  <2>2. JobPhase'
    BY DEF JobPhase
  <2>3. OthersAgree'
    BY DEF OthersAgree
  <2>4. JobKnows'
    BY DEF JobKnows, Visited
  <2> QED BY <2>1, <2>2, <2>3, <2>4
<1>4. CASE ((\E o \in Owners : RemoveOwner(o)) \/ (\E u \in Uids : CleanupUid(u))) /\ Down(scope')
  <2>0. /\ pc' = "sweep" /\ cause' = "request" /\ cur' = cur /\ UNCHANGED journal
        /\ amiss' = [o \in Intents |-> IF o \in scope' THEN "down" ELSE amiss[o]]
    BY <1>4 DEF RemoveOwner, CleanupUid, Down
  <2>1. JobTypes'
    BY <2>0 DEF JobTypes
  <2>2. JobPhase'
    BY <2>0 DEF JobPhase
  <2>3. OthersAgree'
    BY <2>0 DEF OthersAgree, Agrees, Unsettled, Visited
  <2>4. JobKnows'
    BY <2>0 DEF JobKnows, Visited
  <2> QED BY <2>1, <2>2, <2>3, <2>4
<1> HIDE DEF RecordsInv
<1> QED BY <1>1, <1>2, <1>3, <1>4 DEF ClientRequest

\* Everything on disk is torn down before the store is read.
LEMMA OpenRecords ==
    ASSUME AttachInv, RecordsInv, UNCHANGED pass, IntentsOpen
    PROVE  RecordsInv'
<1>0. /\ cur = Nobody /\ scope = {} /\ pc = "down" /\ job = NoJob /\ pass.step = "off"
      /\ Intents \subseteq Owners /\ Nobody \notin Owners /\ cause = "nothing"
      /\ journal' = disk /\ disk \in [Owners -> Entry]
      /\ job' = [step |-> "load", o |-> Nobody, on |-> FALSE, todo |-> {}]
      /\ UNCHANGED <<store, amiss>> /\ cur' = Nobody
      /\ \/ Present(disk) = {} /\ pc' = "idle" /\ cause' = "nothing" /\ scope' = {}
         \/ pc' = "sweep" /\ cause' = "open" /\ scope' = Present(disk)
  BY OwnersAssumption, IntentsAssumption DEF AttachInv, AttachTypeOK, TypeOK, IntentsOpen, Open, Unlock, Rest, Sweep, Nobody,
     RecordsInv, JobPhase, NoJob
<1> USE <1>0 DEF RecordsInv, NoJob
<1>1. JobTypes'
  BY DEF JobTypes
<1>2. JobPhase'
  BY DEF JobPhase
<1>3. OthersAgree'
  BY DEF OthersAgree, Unsettled
<1>4. JobKnows'
  BY DEF JobKnows, Visited, Present
<1> QED BY <1>1, <1>2, <1>3, <1>4

\* The steps of an apply: it is of a client, or of the job, which learns how it
\* ended.
LEMMA ApplyRecords ==
    ASSUME AttachInv, RecordsInv, UNCHANGED pass, JournalWork,
           pc \in {"saving", "adding", "rollback"}
    PROVE  RecordsInv'
<1>0. /\ journal \in [Owners -> Entry] /\ cur \in Owners
      /\ Intents \subseteq Owners /\ Nobody \notin Owners
      /\ cause = "nothing" /\ scope = {} /\ pass.step = "off"
      /\ job.step \in {"off", "arm", "replay"}
      /\ job.step = "off" => job = NoJob /\ cur \notin Intents
      /\ job.step # "off" => cur \in Intents
      /\ job.step = "arm" => cur = job.o
      /\ cur \in Intents => journal[cur].attach
      /\ UNCHANGED store
  BY OwnersAssumption, IntentsAssumption DEF AttachInv, AttachTypeOK, TypeOK, JournalWork, Present,
     Nobody, RecordsInv, JobPhase, JobKnows, JobTypes
<1>1. CASE /\ UNCHANGED <<journal, cause, cur, scope, amiss, job>>
           /\ pc' \in {"saving", "adding", "rollback"}
  <2> USE <1>0, <1>1 DEF RecordsInv
  <2>1. JobTypes'
    BY DEF JobTypes
  <2>2. JobPhase'
    BY DEF JobPhase, NoJob
  <2>3. OthersAgree'
    BY DEF OthersAgree, Agrees, Unsettled, Visited
  <2>4. JobKnows'
    BY DEF JobKnows, Visited
  <2> QED BY <2>1, <2>2, <2>3, <2>4
<1>2. CASE /\ pc' = "idle" /\ cause' = "nothing" /\ cur' = Nobody /\ scope' = {} /\ job' = job
           /\ \A o \in Owners \ {cur} : journal'[o] = journal[o]
           /\ \/ /\ journal'[cur].state = "applied" /\ journal'[cur].attach = journal[cur].attach
                 /\ amiss' = amiss
              \/ journal'[cur].state # "applied" /\ Down({cur})
  <2> USE <1>0, <1>2 DEF RecordsInv
  <2>1. JobTypes'
    BY DEF JobTypes, Down
  <2>2. JobPhase'
    BY DEF JobPhase, NoJob
  <2>3. OthersAgree'
    BY DEF OthersAgree, Agrees, Unsettled, Visited, Down, JobKnows
  <2>4. JobKnows'
    BY DEF JobKnows, Visited, Down, NoJob
  <2> QED BY <2>1, <2>2, <2>3, <2>4
<1>3. Work /\ (IF SaveAheadFails \/ RollbackDone THEN Down({cur}) ELSE UNCHANGED amiss)
      /\ job' = IF pc' = "down" THEN NoJob ELSE job
  BY DEF JournalWork
<1>4. CASE SaveAhead \/ \E r \in Routes : AddRoute(r) \/ AddRouteFails(r) \/ RollbackRoute(r) \/ RollbackRouteFails(r)
  <2>1. /\ UNCHANGED <<journal, cause, cur, scope>>
        /\ pc' \in {"saving", "adding", "rollback"}
    BY <1>4 DEF SaveAhead, AddRoute, AddRouteFails, RollbackRoute, RollbackRouteFails
  <2>2. ~(SaveAheadFails \/ RollbackDone)
    BY <2>1 DEF SaveAheadFails, RollbackDone, Unlock
  <2> QED BY <1>1, <1>3, <2>1, <2>2
<1>5. CASE SaveAheadFails
  BY <1>0, <1>2, <1>3, <1>5 DEF SaveAheadFails, Unlock, Rest, NoEntry
<1>6. CASE ApplyDone
  <2>1. ~(SaveAheadFails \/ RollbackDone)
    BY <1>6 DEF ApplyDone, SaveAheadFails, RollbackDone
  <2>2. journal'[cur].state = "applied" /\ journal'[cur].attach = journal[cur].attach
    BY <1>0, <1>6 DEF ApplyDone, Entry
  <2> QED BY <1>0, <1>2, <1>3, <1>6, <2>1, <2>2 DEF ApplyDone, Unlock, Rest
<1>7. CASE RollbackDone
  <2>1. journal'[cur].state # "applied"
    BY <1>0, <1>7 DEF RollbackDone, AfterRollback, NoEntry, Entry
  <2> QED BY <1>0, <1>2, <1>3, <1>7, <2>1 DEF RollbackDone, Unlock, Rest
<1>8. Work => \/ SaveAhead \/ SaveAheadFails \/ ApplyDone \/ RollbackDone
              \/ \E r \in Routes : AddRoute(r) \/ AddRouteFails(r) \/ RollbackRoute(r) \/ RollbackRouteFails(r)
  BY DEF Work, TeardownEntry, RemoveRoute, RemoveRouteFails, EntryDone, SweepDone
<1> QED BY <1>3, <1>4, <1>5, <1>6, <1>7, <1>8

\* The steps of a sweep: an intent it takes down is down for a reason, is the
\* job's, or was on disk when the daemon started.
LEMMA SweepRecords ==
    ASSUME AttachInv, RecordsInv, UNCHANGED pass, JournalWork,
           pc \notin {"saving", "adding", "rollback"}
    PROVE  RecordsInv'
<1>0. /\ journal \in [Owners -> Entry] /\ cur \in Owners \cup {Nobody}
      /\ pc = "sweep" => cur = Nobody
      /\ pc = "removing" => cur \in Owners
      /\ Intents \subseteq Owners /\ Nobody \notin Owners /\ pass.step = "off"
      /\ scope \subseteq Owners \ {cur}
      /\ UNCHANGED store
      /\ Work /\ (scope = {} /\ pc = "sweep" => job.step \notin {"clear", "undo"})
      /\ job' = IF pc' = "down" THEN NoJob ELSE job
      /\ UNCHANGED amiss
  <2>1. ~(SaveAheadFails \/ RollbackDone)
    BY DEF SaveAheadFails, RollbackDone
  <2> QED BY <2>1, OwnersAssumption, IntentsAssumption DEF AttachInv, AttachTypeOK, TypeOK,
             JournalWork, Present, Nobody, JobTypes
<1>1. ASSUME NEW o \in Owners, TeardownEntry(o) PROVE RecordsInv'
  <2>0. /\ pc = "sweep" /\ o \in scope /\ pc' = "removing" /\ cur' = o /\ scope' = scope \ {o}
        /\ UNCHANGED <<journal, cause, job>>
    BY <1>0, <1>1 DEF TeardownEntry
  <2> USE <1>0, <2>0 DEF RecordsInv
  <2>1. JobTypes'
    BY DEF JobTypes
  <2>2. JobPhase'
    BY DEF JobPhase, NoJob
  <2>3. OthersAgree'
    BY DEF OthersAgree, Agrees, Unsettled, Visited
  <2>4. JobKnows'
    BY DEF JobKnows, Visited, JobPhase
  <2> QED BY <2>1, <2>2, <2>3, <2>4
<1>2. ASSUME NEW r \in Routes, RemoveRoute(r) \/ RemoveRouteFails(r) PROVE RecordsInv'
  <2>0. pc = "removing" /\ UNCHANGED <<journal, pc, cause, cur, scope, job>>
    BY <1>0, <1>2 DEF RemoveRoute, RemoveRouteFails
  <2> USE <1>0, <2>0 DEF RecordsInv
  <2>1. JobTypes'
    BY DEF JobTypes
  <2>2. JobPhase'
    BY DEF JobPhase, NoJob
  <2>3. OthersAgree'
    BY DEF OthersAgree, Agrees, Unsettled, Visited
  <2>4. JobKnows'
    BY DEF JobKnows, Visited
  <2> QED BY <2>1, <2>2, <2>3, <2>4
<1>3. CASE EntryDone
  <2>0. /\ pc = "removing" /\ pc' = "sweep" /\ cur' = Nobody /\ UNCHANGED <<cause, scope, job>>
        /\ journal'[cur].state # "applied"
        /\ \A o \in Owners \ {cur} : journal'[o] = journal[o]
    BY <1>0, <1>3 DEF EntryDone, AfterTeardown, NoEntry
  <2> USE <1>0, <2>0 DEF RecordsInv
  <2>1. JobTypes'
    BY DEF JobTypes
  <2>2. JobPhase'
    BY DEF JobPhase, NoJob
  <2>3. OthersAgree'
    <3>1. /\ job.step \in {"off", "clear", "undo", "load"}
          /\ job.step \in {"clear", "undo"} => cur = job.o
          /\ job.step = "off" => job = NoJob /\ cause \in {"request", "stop"}
      BY DEF JobKnows, JobPhase, JobTypes, AttachInv, AttachTypeOK, TypeOK, Causes
    <3>2. job.step = "off" /\ cause = "request" /\ cur \in Intents => amiss[cur] = "down"
      BY <3>1 DEF JobKnows
    <3> QED BY <3>1, <3>2 DEF OthersAgree, Agrees, Unsettled, Visited
  <2>4. JobKnows'
    BY DEF JobKnows, Visited, JobPhase
  <2> QED BY <2>1, <2>2, <2>3, <2>4
<1>4. CASE SweepDone
  <2>0. /\ pc = "sweep" /\ scope = {} /\ cause' = "nothing" /\ cur' = Nobody /\ scope' = {}
        /\ \/ pc' = "down" /\ job' = NoJob
           \/ pc' = "idle" /\ job' = job /\ journal' = journal /\ cause # "stop"
        /\ job.step \notin {"clear", "undo"}
    BY <1>0, <1>4 DEF SweepDone, Rest
  <2> USE <1>0, <2>0 DEF RecordsInv
  <2>1. JobTypes'
    BY DEF JobTypes, NoJob
  <2>2. JobPhase'
    BY DEF JobPhase, NoJob
  <2>3. OthersAgree'
    BY DEF OthersAgree, Agrees, Unsettled, Visited, JobPhase
  <2>4. JobKnows'
    BY DEF JobKnows, Visited, JobPhase, NoJob
  <2> QED BY <2>1, <2>2, <2>3, <2>4
<1>5. Work => \/ \E o \in Owners : TeardownEntry(o)
              \/ \E r \in Routes : RemoveRoute(r) \/ RemoveRouteFails(r)
              \/ EntryDone \/ SweepDone
  BY DEF Work, SaveAhead, SaveAheadFails, AddRoute, AddRouteFails, ApplyDone, RollbackRoute,
     RollbackRouteFails, RollbackDone
<1> QED BY <1>0, <1>1, <1>2, <1>3, <1>4, <1>5

\* The steps of net.intent.set and net.intent.del after the first.
LEMMA JobRecords ==
    ASSUME AttachInv, RecordsInv, UNCHANGED pass,
           \/ ClearDone \/ IntentSkip \/ IntentArmed \/ IntentSaved \/ IntentSaveFails \/ UndoDone
           \/ \E rs \in SUBSET Routes : IntentArm(rs)
    PROVE  RecordsInv'
<1>0. /\ journal \in [Owners -> Entry] /\ Intents \subseteq Owners /\ Nobody \notin Owners
      /\ pc = "idle" => scope = {} /\ cur = Nobody /\ cause = "nothing"
      /\ pc = "sweep" => cur = Nobody
      /\ pass.step = "off" /\ job # NoJob /\ job.o \in Intents
      /\ job.step \in {"clear", "undo"} => cause = "request"
      /\ job.step \in {"cleared", "save"} => pc = "idle"
  <2>1. job.step \in {"clear", "cleared", "arm", "save", "undo"}
    BY DEF ClearDone, IntentSkip, IntentArmed, IntentSaved, IntentSaveFails, UndoDone, IntentArm
  <2> QED BY <2>1, OwnersAssumption, IntentsAssumption DEF AttachInv, AttachTypeOK, TypeOK, Nobody,
             RecordsInv, JobPhase, NoJob
<1> USE <1>0 DEF RecordsInv
<1>1. CASE ClearDone
  <2>0. /\ job.step = "clear" /\ pc = "sweep" /\ pc' = "idle" /\ cause' = "nothing" /\ scope' = {} /\ cur' = Nobody
        /\ UNCHANGED <<journal, store>> /\ ~Visited(job.o)
        /\ \/ job' = NoJob /\ Down({job.o})
           \/ /\ job' = [job EXCEPT !.step = "cleared"] /\ UNCHANGED amiss
              /\ journal[job.o].state = "none"
    BY <1>1 DEF ClearDone, Unlock, Rest, JobKnows, Present
  <2>1. JobTypes'
    <3>1. CASE job' = NoJob
      BY <2>0, <3>1 DEF JobTypes, Down, NoJob
    <3>2. CASE job' # NoJob
      BY <2>0, <3>2 DEF JobTypes, Down
    <3> QED BY <3>1, <3>2
  <2>2. JobPhase'
    BY <2>0 DEF JobPhase, NoJob, JobTypes
  <2>3. OthersAgree'
    BY <2>0 DEF OthersAgree, Agrees, Unsettled, Visited, Down, NoJob, JobTypes
  <2>4. JobKnows'
    BY <2>0 DEF JobKnows, NoJob, JobTypes
  <2> QED BY <2>1, <2>2, <2>3, <2>4
<1>2. ASSUME NEW rs \in SUBSET Routes, IntentArm(rs) PROVE RecordsInv'
  <2>0. /\ job.step = "cleared" /\ job.on /\ pc = "idle" /\ pc' = "saving" /\ cur' = job.o
        /\ job' = [job EXCEPT !.step = "arm"]
        /\ journal'[job.o].attach /\ journal'[job.o].state = "applying"
        /\ \A o \in Owners \ {job.o} : journal'[o] = journal[o]
        /\ UNCHANGED <<cause, scope, store, amiss>>
    BY <1>2 DEF IntentArm, Apply
  <2>1. JobTypes'
    BY <2>0 DEF JobTypes
  <2>2. JobPhase'
    BY <2>0 DEF JobPhase, NoJob, JobTypes
  <2>3. OthersAgree'
    BY <2>0 DEF OthersAgree, Agrees, Unsettled, Visited, JobTypes
  <2>4. JobKnows'
    BY <2>0 DEF JobKnows, NoJob, JobTypes
  <2> QED BY <2>1, <2>2, <2>3, <2>4
<1>3. CASE IntentSkip
  <2> USE <1>3 DEF IntentSkip, Same, vars, core
  <2>1. JobTypes'
    BY DEF JobTypes
  <2>2. JobPhase'
    BY DEF JobPhase, NoJob, JobTypes
  <2>3. OthersAgree'
    BY DEF OthersAgree, Agrees, Unsettled, Visited, JobTypes
  <2>4. JobKnows'
    BY DEF JobKnows, NoJob, JobTypes
  <2> QED BY <2>1, <2>2, <2>3, <2>4
<1>4. CASE IntentArmed
  <2>0. /\ job.step = "arm" /\ pc = "idle" /\ UNCHANGED <<journal, pc, cause, cur, scope, store, amiss>>
        /\ \/ job' = [job EXCEPT !.step = "save"] /\ job.on /\ Visited(job.o)
           \/ job' = NoJob /\ ~Visited(job.o) /\ amiss[job.o] = "down"
    BY <1>4 DEF IntentArmed, Same, vars, core, JobKnows, Visited
  <2>1. JobTypes'
    <3>1. CASE job' = NoJob
      BY <2>0, <3>1 DEF JobTypes, NoJob
    <3>2. CASE job' # NoJob
      BY <2>0, <3>2 DEF JobTypes
    <3> QED BY <3>1, <3>2
  <2>2. JobPhase'
    BY <2>0 DEF JobPhase, NoJob, JobTypes
  <2>3. OthersAgree'
    BY <2>0 DEF OthersAgree, Agrees, Unsettled, Visited, NoJob, JobTypes
  <2>4. JobKnows'
    BY <2>0 DEF JobKnows, NoJob, JobTypes, Visited
  <2> QED BY <2>1, <2>2, <2>3, <2>4
<1>5. CASE IntentSaved
  <2>0. /\ job.step = "save" /\ job' = NoJob /\ UNCHANGED <<journal, pc, cause, cur, scope>>
        /\ store' = [store EXCEPT ![job.o] = IF job.on THEN "on" ELSE "off"]
        /\ amiss' = [amiss EXCEPT ![job.o] = "no"]
        /\ IF job.on THEN Visited(job.o) ELSE ~Visited(job.o)
    BY <1>5 DEF IntentSaved, Record, Same, vars, core, JobKnows, Visited
  <2>1. JobTypes'
    BY <2>0 DEF JobTypes, NoJob
  <2>2. JobPhase'
    BY <2>0 DEF JobPhase, NoJob
  <2>3. OthersAgree'
    BY <2>0 DEF OthersAgree, Agrees, Unsettled, Visited, NoJob, JobTypes
  <2>4. JobKnows'
    BY <2>0 DEF JobKnows, NoJob
  <2> QED BY <2>1, <2>2, <2>3, <2>4
<1>6. CASE IntentSaveFails
  <2>0. /\ job.step = "save" /\ UNCHANGED <<journal, cur>> /\ Down({job.o})
        /\ store' \in {store, [store EXCEPT ![job.o] = IF job.on THEN "on" ELSE "off"]}
        /\ \/ /\ job' = [job EXCEPT !.step = "undo"]
              /\ pc' = "sweep" /\ cause' = "request" /\ scope' = {job.o}
           \/ job' = NoJob /\ UNCHANGED <<pc, cause, scope>> /\ ~Visited(job.o)
    BY <1>6 DEF IntentSaveFails, StoreErr, Record, Same, vars, core, Sweep, Present, Visited
  <2>1. JobTypes'
    <3>1. CASE job' = NoJob
      BY <2>0, <3>1 DEF JobTypes, Down, NoJob
    <3>2. CASE job' # NoJob
      BY <2>0, <3>2 DEF JobTypes, Down
    <3> QED BY <3>1, <3>2
  <2>2. JobPhase'
    BY <2>0 DEF JobPhase, NoJob, JobTypes
  <2>3. OthersAgree'
    BY <2>0 DEF OthersAgree, Agrees, Unsettled, Visited, NoJob, JobTypes, Down
  <2>4. JobKnows'
    BY <2>0 DEF JobKnows, NoJob, JobTypes, Down
  <2> QED BY <2>1, <2>2, <2>3, <2>4
<1>7. CASE UndoDone
  <2>0. /\ job.step = "undo" /\ pc = "sweep" /\ pc' = "idle" /\ UNCHANGED <<journal, store, amiss>>
        /\ cause' = "nothing" /\ cur' = Nobody /\ scope' = {} /\ job' = NoJob
        /\ ~Visited(job.o) /\ (store[job.o] = "on" => amiss[job.o] = "down")
    BY <1>7 DEF UndoDone, SweepDone, Rest, JobKnows
  <2>1. JobTypes'
    BY <2>0 DEF JobTypes, NoJob
  <2>2. JobPhase'
    BY <2>0 DEF JobPhase, NoJob
  <2>3. OthersAgree'
    BY <2>0 DEF OthersAgree, Agrees, Unsettled, Visited, NoJob
  <2>4. JobKnows'
    BY <2>0 DEF JobKnows, NoJob
  <2> QED BY <2>1, <2>2, <2>3, <2>4
<1> HIDE DEF RecordsInv
<1> QED BY <1>1, <1>2, <1>3, <1>4, <1>5, <1>6, <1>7

\* replay_intents, once the recovery is over.
LEMMA ReplayRecords ==
    ASSUME AttachInv, RecordsInv, UNCHANGED pass,
           \/ ReplayLoad \/ ReplayDone
           \/ \E o \in Intents : ReplayRefused(o) \/ \E rs \in SUBSET Routes : ReplayIntent(o, rs)
    PROVE  RecordsInv'
<1>0. /\ journal \in [Owners -> Entry] /\ Intents \subseteq Owners /\ Nobody \notin Owners
      /\ pc = "idle" /\ scope = {} /\ cur = Nobody /\ cause = "nothing"
      /\ pass.step = "off" /\ job # NoJob /\ job.step \in {"load", "replay"}
      /\ UNCHANGED store
  <2>1. job.step \in {"load", "replay"} /\ pc = "idle" /\ UNCHANGED store
    BY DEF ReplayLoad, ReplayDone, ReplayRefused, ReplayIntent, Apply
  <2> QED BY <2>1, OwnersAssumption, IntentsAssumption DEF AttachInv, AttachTypeOK, TypeOK, Nobody,
             RecordsInv, JobPhase, NoJob
<1> USE <1>0 DEF RecordsInv
<1>1. CASE ReplayLoad
  <2>0. /\ job.step = "load" /\ UNCHANGED <<journal, pc, cause, cur, scope>>
        /\ \A o \in Intents : ~Visited(o)
        /\ Enabled \in SUBSET Intents /\ \A o \in Intents : o \in Enabled <=> store[o] = "on"
        /\ \/ /\ job' = [job EXCEPT !.step = "replay", !.todo = Enabled]
              /\ amiss' = [o \in Intents |-> "no"]
           \/ /\ job' = NoJob
              /\ amiss' = [o \in Intents |-> IF o \in Enabled THEN "down" ELSE amiss[o]]
    BY <1>1 DEF ReplayLoad, Enabled, Down, Same, vars, core, JobKnows
  <2>1. CASE job' = NoJob
    <3>0. amiss' = [o \in Intents |-> IF o \in Enabled THEN "down" ELSE amiss[o]]
      BY <2>0, <2>1 DEF NoJob
    <3>1. JobTypes'
      BY <2>0, <2>1, <3>0 DEF JobTypes, NoJob
    <3>2. JobPhase'
      BY <2>0, <2>1 DEF JobPhase, NoJob
    <3>3. OthersAgree'
      BY <2>0, <2>1, <3>0 DEF OthersAgree, Agrees, Unsettled, Visited, NoJob
    <3>4. JobKnows'
      BY <2>0, <2>1 DEF JobKnows, NoJob
    <3> QED BY <3>1, <3>2, <3>3, <3>4
  <2>2. CASE job' # NoJob
    <3>0. /\ job'.step = "replay" /\ job'.todo = Enabled
          /\ job' \in [step : {"off", "clear", "cleared", "arm", "save", "undo", "load", "replay"},
                      o : Intents \cup {Nobody}, on : BOOLEAN, todo : SUBSET Intents]
          /\ amiss' = [o \in Intents |-> "no"]
      BY <2>0, <2>2 DEF JobTypes
    <3>1. JobTypes'
      BY <2>0, <3>0 DEF JobTypes
    <3>2. JobPhase'
      BY <2>0, <3>0 DEF JobPhase, NoJob
    <3>3. OthersAgree'
      BY <2>0, <3>0 DEF OthersAgree, Agrees, Unsettled, Visited
    <3>4. JobKnows'
      BY <2>0, <3>0 DEF JobKnows, NoJob
    <3> QED BY <3>1, <3>2, <3>3, <3>4
  <2> QED BY <2>1, <2>2
<1>2. CASE ReplayDone
  <2>0. /\ job.step = "replay" /\ job.todo = {} /\ job' = NoJob
        /\ UNCHANGED <<journal, pc, cause, cur, scope, amiss>>
    BY <1>2 DEF ReplayDone, Same, vars, core
  <2>1. JobTypes'
    BY <2>0 DEF JobTypes, NoJob
  <2>2. JobPhase'
    BY <2>0 DEF JobPhase, NoJob
  <2>3. OthersAgree'
    BY <2>0 DEF OthersAgree, Agrees, Unsettled, Visited, NoJob
  <2>4. JobKnows'
    BY <2>0 DEF JobKnows, NoJob
  <2> QED BY <2>1, <2>2, <2>3, <2>4
<1>3. ASSUME NEW o \in Intents, ReplayRefused(o) PROVE RecordsInv'
  <2>0. /\ job.step = "replay" /\ o \in job.todo /\ job' = [job EXCEPT !.todo = @ \ {o}]
        /\ UNCHANGED <<journal, pc, cause, cur, scope>> /\ store[o] = "on"
        /\ amiss' = [p \in Intents |-> IF p \in {o} THEN "down" ELSE amiss[p]]
    BY <1>3 DEF ReplayRefused, Down, Same, vars, core, JobKnows
  <2>1. JobTypes'
    BY <2>0 DEF JobTypes
  <2>2. JobPhase'
    BY <2>0 DEF JobPhase, NoJob, JobTypes
  <2>3. OthersAgree'
    BY <2>0 DEF OthersAgree, Agrees, Unsettled, Visited, JobTypes
  <2>4. JobKnows'
    BY <2>0 DEF JobKnows, NoJob, JobTypes
  <2> QED BY <2>1, <2>2, <2>3, <2>4
<1>4. ASSUME NEW o \in Intents, NEW rs \in SUBSET Routes, ReplayIntent(o, rs) PROVE RecordsInv'
  <2>0. /\ job.step = "replay" /\ o \in job.todo /\ job' = [job EXCEPT !.todo = @ \ {o}]
        /\ store[o] = "on" /\ pc' = "saving" /\ cur' = o /\ UNCHANGED <<cause, scope, amiss>>
        /\ journal'[o].attach /\ journal'[o].state = "applying"
        /\ \A p \in Owners \ {o} : journal'[p] = journal[p]
    BY <1>4 DEF ReplayIntent, Apply, JobKnows
  <2>1. JobTypes'
    BY <2>0 DEF JobTypes
  <2>2. JobPhase'
    BY <2>0 DEF JobPhase, NoJob, JobTypes
  <2>3. OthersAgree'
    BY <2>0 DEF OthersAgree, Agrees, Unsettled, Visited, JobTypes
  <2>4. JobKnows'
    BY <2>0 DEF JobKnows, NoJob, JobTypes
  <2> QED BY <2>1, <2>2, <2>3, <2>4
<1> HIDE DEF RecordsInv
<1> QED BY <1>1, <1>2, <1>3, <1>4

\* A pass changes the routes of entries, never which of them are armed.
LEMMA PassRecords ==
    ASSUME AttachInv, RecordsInv, UNCHANGED intent, (Free /\ PassBegin) \/ PassWork
    PROVE  RecordsInv'
<1>1. /\ UNCHANGED <<core, intent>> /\ job = NoJob
      /\ pass'.step # "off" => job' = NoJob
      /\ Intents \subseteq Owners
  BY OwnersAssumption, IntentsAssumption DEF Free, PassBegin, PassWork, ReconcileEntry, Withdraw,
     WithdrawFails, WithdrawDone, Install, InstallFails, EntryReconciled, PassDone, RecordsInv,
     JobPhase, intent
<1>2. \A o \in Owners : Visited(o)' <=> Visited(o)
  <2>1. CASE EntryReconciled
    <3>1. /\ pass.cur \in Owners /\ journal \in [Owners -> Entry]
          /\ journal' = [journal EXCEPT ![pass.cur].routes = pass.want \cup pass.kept]
      BY <2>1 DEF EntryReconciled, AttachInv, AttachTypeOK, TypeOK, WorkBounds, Visiting
    <3> QED BY <3>1 DEF Visited, Entry
  <2>2. CASE journal' = journal
    BY <2>2 DEF Visited
  <2> QED BY <2>1, <2>2 DEF PassBegin, PassWork, ReconcileEntry, Withdraw, WithdrawFails,
             WithdrawDone, Install, InstallFails, PassDone
<1>3. JobTypes'
  BY <1>1 DEF RecordsInv, JobTypes, intent
<1>4. JobPhase'
  BY <1>1 DEF RecordsInv, JobPhase, intent, core, NoJob
<1>5. OthersAgree'
  BY <1>1, <1>2 DEF RecordsInv, OthersAgree, Unsettled, Agrees, intent, core
<1>6. JobKnows'
  <2>1. pc = "idle" /\ pc' = "idle"
    BY <1>1 DEF Free, PassBegin, PassWork, ReconcileEntry, Withdraw, WithdrawFails, WithdrawDone,
       Install, InstallFails, EntryReconciled, PassDone, AttachInv, AttachTypeOK, core
  <2> QED BY <1>1, <2>1 DEF RecordsInv, JobKnows, intent, core, NoJob
<1> QED BY <1>3, <1>4, <1>5, <1>6 DEF RecordsInv

\* Every step keeps records and entries in line.
LEMMA IntentsStep == AttachInv /\ RecordsInv /\ [IntentsNext]_ivars => AttachInv' /\ RecordsInv'
<1> SUFFICES ASSUME AttachInv, RecordsInv, [IntentsNext]_ivars PROVE AttachInv' /\ RecordsInv'
  OBVIOUS
<1>1. AttachInv'
  BY IntentsRefine, AttachStep
<1> SUFFICES RecordsInv'
  BY <1>1
<1>2. CASE IntentRequest /\ UNCHANGED pass
  BY <1>2, RequestRecords DEF IntentRequest
<1>3. CASE ClientRequest /\ UNCHANGED pass
  BY <1>3, ClientRecords
<1>4. CASE IntentsOpen /\ UNCHANGED pass
  BY <1>4, OpenRecords
<1>5. CASE CoreWork
  <2>1. CASE JournalWork
    BY <1>5, <2>1, ApplyRecords, SweepRecords DEF CoreWork
  <2>2. CASE IntentWork
    BY <1>5, <2>2, JobRecords, ReplayRecords DEF CoreWork, IntentWork
  <2> QED BY <1>5, <2>1, <2>2 DEF CoreWork
<1>6. CASE ((Free /\ PassBegin) \/ PassWork) /\ UNCHANGED intent
  BY <1>6, PassRecords
<1>7. CASE Outsider /\ UNCHANGED <<pass, intent>>
  BY <1>7 DEF Outsider, OutsiderAdds, OutsiderRemoves, core, intent, RecordsInv, JobTypes, JobPhase,
     OthersAgree, Unsettled, Agrees, Visited, JobKnows
<1>8. CASE Crash /\ pass' = Idle /\ job' = NoJob /\ UNCHANGED <<store, amiss>>
  BY <1>8 DEF Crash, Rest, Idle, NoJob, RecordsInv, JobTypes, JobPhase, OthersAgree, JobKnows
<1>9. CASE UNCHANGED ivars
  BY <1>9 DEF ivars, avars, vars, core, intent, RecordsInv, JobTypes, JobPhase, OthersAgree,
     Unsettled, Agrees, Visited, JobKnows
<1> QED BY <1>2, <1>3, <1>4, <1>5, <1>6, <1>7, <1>8, <1>9 DEF IntentsNext

\* The inductive invariant of the intents, on top of the one of the passes.
THEOREM IntentsInductive == IntentsSpec => [](AttachInv /\ RecordsInv)
<1>1. IntentsInit => AttachInv /\ RecordsInv
  BY InitAttach, InitRecords DEF IntentsInit
<1> QED BY <1>1, IntentsStep, PTL DEF IntentsSpec

\* net_intent_set, net_intent_del and replay_intents: whatever fails and wherever
\* the process dies, an enabled intent is armed and an armed one recorded between
\* requests, unless the user or a reported failure made it otherwise.
THEOREM RecordsMatchEntries == IntentsSpec => []IntentsInv
<1>1. AttachInv /\ RecordsInv => IntentsInv
  <2> SUFFICES ASSUME AttachInv, RecordsInv PROVE IntentsInv
    OBVIOUS
  <2>1. IntentsTypeOK
    BY DEF AttachInv, RecordsInv, JobTypes, JobPhase, IntentsTypeOK
  <2>2. OnlyExitsOrphan
    BY DEF AttachInv, Accounted, Listed, OnlyExitsOrphan
  <2>3. IntentsAgree
    BY DEF AttachInv, AttachTypeOK, TypeOK, RecordsInv, JobPhase, OthersAgree, Unsettled, Agrees,
       IntentsAgree, Free, NoJob
  <2> QED BY <2>1, <2>2, <2>3 DEF IntentsInv
<1> QED BY <1>1, IntentsInductive, PTL

\* Intents are owners like any other to the journal and the reconcile pass: every
\* step of their requests and replay is a step of those.
THEOREM IntentsAddNothing == IntentsSpec => ImplementsAttach
<1>1. IntentsInit => AttachInit
  BY DEF IntentsInit
<1>2. AttachInv /\ RecordsInv /\ [IntentsNext]_ivars => [AttachNext]_avars
  BY IntentsRefine
<1> QED BY <1>1, <1>2, IntentsInductive, PTL DEF IntentsSpec, ImplementsAttach, AttachSpec
=============================================================================
