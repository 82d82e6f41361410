--------------------------- MODULE RoutingIntents ---------------------------
(***************************************************************************)
(* Routing intents (net.intent.set, net.intent.del and replay_intents in   *)
(* crates/daemon/src/core.rs, the store in intents.rs), on top of the      *)
(* attach entries: an intent is an armed attach entry with an owner of its *)
(* own, and a durable record from which a restart arms it again.           *)
(*                                                                         *)
(* A request holds the core from its first step to its last, but the       *)
(* journal, the kernel and the store change one after the other, and each  *)
(* change can fail or be the last one before a crash.  The store itself is *)
(* replaced atomically and has one writer, the holder of the core.         *)
(***************************************************************************)
EXTENDS AttachReconcile

CONSTANT Intents    \* the owners with the prefix `intent:`

ASSUME IntentsAssumption == Intents \subseteq Managed

VARIABLES
    store,      \* store[o]: "none", "off" or "on", the durable records
    job,        \* the intent request or replay that holds the core, or NoJob
    amiss       \* history: amiss[o]: why journal and store may differ, or "no"

intent == <<store, job, amiss>>
ivars  == <<avars, intent>>

NoJob == [step |-> "off", o |-> Nobody, on |-> FALSE, todo |-> {}]

IntentsTypeOK ==
    /\ AttachTypeOK
    /\ store \in [Intents -> {"none", "off", "on"}]
    /\ job \in [step : {"off", "clear", "cleared", "arm", "save", "undo", "load", "replay"},
                o : Intents \cup {Nobody}, on : BOOLEAN, todo : SUBSET Intents]
    /\ amiss \in [Intents -> {"no", "down", "gone"}]
    /\ pc = "down" => job = NoJob
    /\ pass.step # "off" => job = NoJob

IntentsInit ==
    /\ AttachInit
    /\ store = [o \in Intents |-> "none"]
    /\ job = NoJob
    /\ amiss = [o \in Intents |-> "no"]

Free == pc = "idle" /\ pass.step = "off" /\ job = NoJob

Same == UNCHANGED vars

\* The intents O are down for a reason: the user took them down, or their
\* request failed and says so.
Down(O) == amiss' = [o \in Intents |-> IF o \in O THEN "down" ELSE amiss[o]]

\* IntentStore::save renames and then syncs the directory.
StoreErr(o, v) == store' \in {store, [store EXCEPT ![o] = v]}

-----------------------------------------------------------------------------
(* net_intent_set.                                                         *)

\* An entry the intent has is torn down first.
IntentSet(o, on) ==
    /\ Free
    /\ job' = [NoJob EXCEPT !.step = IF o \in Present(journal) THEN "clear" ELSE "cleared",
                            !.o = o, !.on = on]
    /\ IF o \in Present(journal) THEN Sweep({o}, "request") /\ UNCHANGED journal ELSE Same
    /\ UNCHANGED <<store, amiss>>

\* When that fails the request ends at once, and nothing is saved.
ClearDone ==
    /\ job.step = "clear"
    /\ pc = "sweep"
    /\ scope = {}
    /\ IF job.o \in Present(journal)
       THEN job' = NoJob /\ Down({job.o}) /\ UNCHANGED disk
       ELSE job' = [job EXCEPT !.step = "cleared"] /\ Persist(journal) /\ UNCHANGED amiss
    /\ Unlock
    /\ UNCHANGED <<journal, kernel, store>>

\* An enabled intent is applied with what its spec derives; a disabled one
\* keeps only its record.
IntentArm(rs) ==
    /\ job.step = "cleared"
    /\ job.on
    /\ Apply(job.o, rs, TRUE)
    /\ job' = [job EXCEPT !.step = "arm"]
    /\ UNCHANGED <<store, amiss>>

IntentSkip ==
    /\ job.step = "cleared"
    /\ ~job.on
    /\ job' = [job EXCEPT !.step = "save"]
    /\ Same
    /\ UNCHANGED <<store, amiss>>

IntentArmed ==
    /\ job.step = "arm"
    /\ pc = "idle"
    /\ job' = IF journal[job.o].state = "applied" THEN [job EXCEPT !.step = "save"] ELSE NoJob
    /\ Same
    /\ UNCHANGED <<store, amiss>>

Record(on) == IF on THEN "on" ELSE "off"

IntentSaved ==
    /\ job.step = "save"
    /\ store' = [store EXCEPT ![job.o] = Record(job.on)]
    /\ amiss' = [amiss EXCEPT ![job.o] = "no"]
    /\ job' = NoJob
    /\ Same

\* Bug: what was applied stays when its record could not be saved.
IntentSaveFails_Keeps ==
    /\ job.step = "save"
    /\ StoreErr(job.o, Record(job.on))
    /\ Down({job.o})
    /\ job' = NoJob
    /\ Same

\* "undo so the intent does not die silently on restart".
IntentSaveFails ==
    /\ job.step = "save"
    /\ StoreErr(job.o, Record(job.on))
    /\ Down({job.o})
    /\ IF job.o \in Present(journal)
       THEN /\ job' = [job EXCEPT !.step = "undo"]
            /\ Sweep({job.o}, "request") /\ UNCHANGED journal
       ELSE job' = NoJob /\ Same

-----------------------------------------------------------------------------
(* net_intent_del: the record goes first, then the entry.                  *)

\* Bug: the entry goes at once, without withdrawing its routes.
IntentDel_Forgets(o) ==
    /\ Free
    /\ store' = [store EXCEPT ![o] = "none"]
    /\ amiss' = [amiss EXCEPT ![o] = "no"]
    /\ journal' = [journal EXCEPT ![o] = NoEntry]
    /\ UNCHANGED <<disk, kernel, core, job>>

IntentDel(o) ==
    /\ Free
    /\ store' = [store EXCEPT ![o] = "none"]
    /\ amiss' = [amiss EXCEPT ![o] = "no"]
    /\ IF o \in Present(journal)
       THEN /\ job' = [NoJob EXCEPT !.step = "undo", !.o = o]
            /\ Sweep({o}, "request") /\ UNCHANGED journal
       ELSE Same /\ UNCHANGED job

\* The request fails and the entry stays, whatever became of the record.
IntentDelFails(o) ==
    /\ Free
    /\ StoreErr(o, "none")
    /\ amiss' = [amiss EXCEPT ![o] = IF store'[o] = store[o] THEN @ ELSE "gone"]
    /\ Same
    /\ UNCHANGED job

UndoDone == job.step = "undo" /\ SweepDone /\ job' = NoJob /\ UNCHANGED <<store, amiss>>

-----------------------------------------------------------------------------
(* A restart: recovery, and then replay_intents, before the socket exists. *)

Enabled == {o \in Intents : store[o] = "on"}

IntentsOpen ==
    /\ Open
    /\ job' = [NoJob EXCEPT !.step = "load"]
    /\ UNCHANGED <<store, amiss>>

\* The store is read once the recovery is over; if it cannot be read, nothing
\* is armed.
ReplayLoad ==
    /\ job.step = "load"
    /\ pc = "idle"
    /\ \/ /\ job' = [job EXCEPT !.step = "replay", !.todo = Enabled]
          /\ amiss' = [o \in Intents |-> "no"]
       \/ job' = NoJob /\ Down(Enabled)
    /\ Same
    /\ UNCHANGED store

ReplayIntent(o, rs) ==
    /\ job.step = "replay"
    /\ o \in job.todo
    /\ Apply(o, rs, TRUE)
    /\ job' = [job EXCEPT !.todo = @ \ {o}]
    /\ UNCHANGED <<store, amiss>>

\* The recovery could not remove all of the intent's old routes.
ReplayRefused(o) ==
    /\ job.step = "replay"
    /\ pc = "idle"
    /\ o \in job.todo \cap Present(journal)
    /\ job' = [job EXCEPT !.todo = @ \ {o}]
    /\ Down({o})
    /\ Same
    /\ UNCHANGED store

ReplayDone ==
    /\ job.step = "replay"
    /\ pc = "idle"
    /\ job.todo = {}
    /\ job' = NoJob
    /\ Same
    /\ UNCHANGED <<store, amiss>>

-----------------------------------------------------------------------------
(* Everything else the core does.                                          *)

\* check_client_owner refuses to apply under an intent's name; nothing
\* refuses to remove one, and "Disconnect all" takes them down too.
ClientRequest ==
    /\ Free
    /\ \/ /\ \/ \E o \in Owners \ Intents, rs \in SUBSET Routes, att \in BOOLEAN :
                   Apply(o, rs, att)
             \/ \E u \in Uids, keep \in SUBSET Owners : CleanupSessionUid(u, keep)
             \/ Shutdown
          /\ UNCHANGED amiss
       \/ /\ (\E o \in Owners : RemoveOwner(o)) \/ (\E u \in Uids : CleanupUid(u))
          /\ Down(scope')
    /\ UNCHANGED <<store, job>>

\* The steps of the journal; a failed apply of an intent is reported, or
\* logged by the replay.
JournalWork ==
    /\ pass.step = "off"
    /\ Work
    /\ scope = {} /\ pc = "sweep" => job.step \notin {"clear", "undo"}
    /\ IF SaveAheadFails \/ RollbackDone THEN Down({cur}) ELSE UNCHANGED amiss
    /\ job' = IF pc' = "down" THEN NoJob ELSE job
    /\ UNCHANGED store

IntentWork ==
    \/ ClearDone
    \/ \E rs \in SUBSET Routes : IntentArm(rs)
    \/ IntentSkip
    \/ IntentArmed
    \/ IntentSaved
    \/ IntentSaveFails
    \/ UndoDone
    \/ ReplayLoad
    \/ \E o \in Intents, rs \in SUBSET Routes : ReplayIntent(o, rs)
    \/ \E o \in Intents : ReplayRefused(o)
    \/ ReplayDone

IntentRequest ==
    \E o \in Intents : IntentSet(o, TRUE) \/ IntentSet(o, FALSE) \/ IntentDel(o) \/ IntentDelFails(o)

CoreWork == (IntentWork \/ JournalWork) /\ UNCHANGED pass

IntentsNext ==
    \/ (IntentRequest \/ ClientRequest \/ IntentsOpen) /\ UNCHANGED pass /\ History
    \/ CoreWork /\ History
    \/ Free /\ PassBegin /\ History /\ UNCHANGED intent
    \/ PassWork /\ History /\ UNCHANGED intent
    \/ Outsider /\ UNCHANGED <<pass, intent>> /\ History
    \/ Crash /\ pass' = Idle /\ job' = NoJob /\ History /\ UNCHANGED <<store, amiss>>

\* The thread goes on with what it has begun, and systemd restarts the daemon.
IntentsSpec ==
    /\ IntentsInit
    /\ [][IntentsNext]_ivars
    /\ WF_ivars(CoreWork /\ History)
    /\ WF_ivars(IntentsOpen /\ UNCHANGED pass /\ History)
    /\ WF_ivars(PassWork /\ History /\ UNCHANGED intent)

-----------------------------------------------------------------------------
\* Between requests, records and entries agree: an enabled intent is armed, so
\* that passes visit it, and an armed one is recorded, so that it does not die
\* silently on restart.  Session cleanups, passes, crashes and restarts do not
\* disturb this; only requests of the user, or failures that are reported, do.
IntentsAgree ==
    Free => \A o \in Intents :
        /\ store[o] = "on" => Visited(o) \/ amiss[o] = "down"
        /\ Visited(o) => store[o] = "on" \/ amiss[o] = "gone"

\* With it, a pass strands no route and the core has one holder.
IntentsInv == IntentsTypeOK /\ OnlyExitsOrphan /\ IntentsAgree

\* Every request, recovery with its replay, and pass ends, whatever fails.
CoreFreed == ~Free /\ pc # "down" ~> Free \/ pc = "down"

\* Intents add nothing to what the journal and the passes promise: to them, an
\* intent is one more owner, and each step of its requests is a step of theirs.
ImplementsAttach == AttachSpec
=============================================================================
