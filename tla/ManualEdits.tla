---------------------------- MODULE ManualEdits ----------------------------
(***************************************************************************)
(* Routes and policy rules a user edits by hand (net.route.add, .del,      *)
(* net.rule.add, .del in crates/daemon/src/core.rs): the `manual` owner of *)
(* the journal, which lists what the daemon added for the user and what it *)
(* took away from others to put back later; its reconcile pass, teardown   *)
(* and recovery.                                                           *)
(*                                                                         *)
(* A slot is a key of the kernel's tables (destination, metric and table   *)
(* of a route; a rule has one of its own).  At most one object is in it:   *)
(* the daemon's, or that of somebody else.  Each save and each kernel call *)
(* is a step; it may fail with its effect uncertain, and the daemon may    *)
(* die between any two.                                                    *)
(***************************************************************************)
EXTENDS Integers, Sequences, FiniteSets, SequencesExt

CONSTANTS
    Slots,          \* kernel keys
    MaxList,        \* bound: resources of the entry
    MaxTroubles     \* bound: failures, crashes and outside edits

ASSUME ManualAssumption ==
    IsFiniteSet(Slots) /\ Slots # {} /\ MaxList \in Nat /\ MaxTroubles \in Nat

VARIABLES
    entry,      \* the `manual` entry in memory
    disk,       \* the same entry in state.json
    slot,       \* who has each slot
    pc,         \* what the thread holding the core is doing
    job,        \* its operands
    owed,       \* history: slots of others the daemon emptied and not restored
    doubt,      \* history: slots where something failed half way
    troubles    \* troubles so far

core == <<pc, job>>
hist == <<owed, doubt>>
vars == <<entry, disk, slot, core, hist, troubles>>

Kinds     == {"net", "sup"}     \* NetRoute or NetRule, Suppressed*
Resources == [kind : Kinds, slot : Slots]
Net(s)    == [kind |-> "net", slot |-> s]
Sup(s)    == [kind |-> "sup", slot |-> s]

NoEntry == [state |-> "none", list |-> <<>>]
Rest    == [res |-> <<>>, todo |-> <<>>, left |-> <<>>, seen |-> {}]

\* Shapes; an entry that stands for something lists it.
TypeOK ==
    /\ \A e \in {entry, disk} :
          /\ e.state \in {"none", "applying", "applied", "stale"}
          /\ e.list \in Seq(Resources) /\ Len(e.list) <= MaxList
          /\ e.state = "none" => e.list = <<>>
          /\ e.state \in {"applied", "stale"} => e.list # <<>>
    /\ slot \in [Slots -> {"none", "ours", "foreign"}]
    /\ pc \in {"down", "idle", "entry", "claim", "kernel", "save", "pass", "teardown"}
    /\ owed \subseteq Slots /\ doubt \subseteq Slots

Init ==
    /\ entry = NoEntry /\ disk = NoEntry
    /\ slot \in [Slots -> {"none", "foreign"}]
    /\ pc = "idle" /\ job = Rest
    /\ owed = {} /\ doubt = {} /\ troubles = 0

-----------------------------------------------------------------------------
(* Pieces.                                                                 *)

Trouble     == troubles < MaxTroubles /\ troubles' = troubles + 1
Outcome(ok) == IF ok THEN UNCHANGED troubles ELSE Trouble

\* JournalStore::save; an error says nothing about which document is on disk.
Save(e, ok) == IF ok THEN disk' = e ELSE disk' \in {disk, e}

Listed(e) == ToSet(e.list)

\* An entry that lists nothing is dropped.
Kept(e) == IF e.list = <<>> THEN NoEntry ELSE e

\* Put an object into a slot, or take it out; `how` is what the kernel says.
Put(s, who, how) ==
    CASE how \in {"done", "unsure"} -> slot[s] = "none" /\ slot' = [slot EXCEPT ![s] = who]
      [] how = "refused" -> slot[s] # "none" /\ UNCHANGED slot
      [] how = "failed"  -> UNCHANGED slot
Take(s, who, how) ==
    CASE how \in {"done", "unsure"} -> slot[s] = who /\ slot' = [slot EXCEPT ![s] = "none"]
      [] how = "refused" -> slot[s] # who /\ UNCHANGED slot
      [] how = "failed"  -> UNCHANGED slot

Hows == {"done", "refused", "failed", "unsure"}

\* What the daemon owes others after a step of its own.
Owed == (owed \cup {s \in Slots : slot[s] = "foreign" /\ slot'[s] = "none"})
            \ {s \in Slots : slot'[s] = "foreign"}

-----------------------------------------------------------------------------
(* net_route_add, net_rule_add; net_route_del and net_rule_del of an       *)
(* object that is not the daemon's.                                        *)

\* What is deleted is what net.tables just showed.
Edit(k, s) ==
    /\ pc = "idle" /\ Len(entry.list) < MaxList
    /\ k = "sup" => slot[s] = "foreign"
    /\ job' = [Rest EXCEPT !.res = <<[kind |-> k, slot |-> s]>>]
    /\ pc' = IF entry = NoEntry THEN "entry" ELSE "claim"
    /\ UNCHANGED <<entry, disk, slot, hist>>

\* manual_entry: if it cannot be saved, the empty entry stays in memory.
ManualEntry(ok) ==
    /\ pc = "entry"
    /\ entry' = [NoEntry EXCEPT !.state = "applying"]
    /\ Save(entry', ok)
    /\ IF ok THEN pc' = "claim" /\ UNCHANGED job ELSE pc' = "idle" /\ job' = Rest
    /\ UNCHANGED <<slot, hist>>

\* Bug: the claim is left to the save after the kernel call.
Claim_NotSaved(ok) ==
    /\ pc = "claim"
    /\ entry' = [state |-> IF job.res[1].kind = "net" THEN "applying" ELSE "applied",
                 list  |-> entry.list \o job.res]
    /\ ok /\ pc' = "kernel"
    /\ UNCHANGED <<disk, slot, job, hist>>

\* A suppression listed above the user's own object for the same slot: the
\* teardown comes to it while that object is still there.
Buried(r) == r.kind = "sup" /\ Net(r.slot) \in Listed(entry)

\* The claim; one that cannot be saved stays in memory all the same.
Claim(ok) ==
    LET r == job.res[1]
    IN /\ pc = "claim"
       /\ entry' = [state |-> IF r.kind = "net" THEN "applying" ELSE "applied",
                    list  |-> Append(entry.list, r)]
       /\ Save(entry', ok)
       /\ doubt' = IF (~ok /\ r \notin Listed(disk)) \/ Buried(r) THEN doubt \cup {r.slot} ELSE doubt
       /\ IF ok THEN pc' = "kernel" /\ UNCHANGED job ELSE pc' = "idle" /\ job' = Rest
       /\ UNCHANGED <<slot, owed>>

\* What fails is taken back, and nothing says whether it was done.
KernelEdit(how) ==
    LET r == job.res[1]
    IN /\ pc = "kernel"
       /\ IF r.kind = "net" THEN Put(r.slot, "ours", how) ELSE Take(r.slot, "foreign", how)
       /\ owed' = Owed
       /\ doubt' = IF how = "unsure" THEN doubt \cup {r.slot} ELSE doubt
       /\ entry' = IF how = "done" THEN [entry EXCEPT !.state = "applied"]
                   ELSE Kept([entry EXCEPT !.list = Front(@)])
       /\ pc' = "save" /\ job' = Rest
       /\ UNCHANGED disk

\* persist, or the save of a teardown: memory stands whether it works or not.
SaveLast(ok) ==
    /\ pc = "save"
    /\ Save(entry, ok)
    /\ pc' = "idle"
    /\ UNCHANGED <<entry, slot, job, hist>>

-----------------------------------------------------------------------------
(* net_route_del and net_rule_del of the daemon's own.                     *)

\* resources.retain
Without(list, x) ==
    LET kept[i \in 0..Len(list)] ==
            IF i = 0 THEN <<>>
            ELSE IF list[i] = x THEN kept[i - 1] ELSE Append(kept[i - 1], list[i])
    IN kept[Len(list)]

Unlisted(s) == Kept([entry EXCEPT !.list = Without(entry.list, Net(s))])

\* Kernel first, then the journal; one nobody lists is simply deleted, and
\* for a rule the journal is saved all the same.
DeleteOwn(s, how) ==
    /\ pc = "idle" /\ slot[s] = "ours"
    /\ Take(s, "ours", how)
    /\ IF how = "done" /\ Net(s) \in Listed(entry)
         THEN entry' = Unlisted(s) /\ pc' = "save"
         ELSE /\ pc' \in IF how = "done" THEN {"idle", "save"} ELSE {"idle"}
              /\ UNCHANGED entry
    /\ UNCHANGED <<disk, job, hist>>

-----------------------------------------------------------------------------
(* reconcile_manual.                                                       *)

\* Bug: only what others put back is looked at.
Visits_SupOnly(list) == SelectSeq(list, LAMBDA r : r.kind = "sup")

Visits(list) == list

\* The tables are dumped once; only an `applied` entry is visited.
PassBegin ==
    /\ pc = "idle" /\ entry.state = "applied"
    /\ pc' = "pass"
    /\ job' = [Rest EXCEPT !.todo = Visits(entry.list),
                           !.seen = {Net(s) : s \in {t \in Slots : slot[t] = "ours"}}
                                    \cup {Sup(s) : s \in {t \in Slots : slot[t] = "foreign"}}]
    /\ UNCHANGED <<entry, disk, slot, hist>>

\* Lost overrides are added again, what came back is taken away again; an
\* error is left for the next pass.
PassItem(how) ==
    LET r == Head(job.todo)
    IN /\ pc = "pass" /\ job.todo # <<>>
       /\ CASE r.kind = "net" /\ r \notin job.seen -> Put(r.slot, "ours", how)
            [] r.kind = "sup" /\ r \in job.seen    -> Take(r.slot, "foreign", how)
            [] OTHER                               -> how = "done" /\ UNCHANGED slot
       /\ owed' = Owed
       /\ job' = [job EXCEPT !.todo = Tail(@)]
       /\ UNCHANGED <<entry, disk, pc, doubt>>

PassEnd ==
    /\ pc = "pass" /\ job.todo = <<>>
    /\ pc' = "idle" /\ job' = Rest
    /\ UNCHANGED <<entry, disk, slot, hist>>

-----------------------------------------------------------------------------
(* teardown_entry of the generic owners, for cleanup, shutdown and         *)
(* recovery.                                                               *)

\* Bug: in the order in which the edits were made.
Undo_Forward(list) == list

\* Newest first.
Undo(list) == Reverse(list)

Begin(e) == pc' = "teardown" /\ job' = [Rest EXCEPT !.todo = Undo(e.list)]

Cleanup ==
    /\ pc = "idle" /\ entry # NoEntry
    /\ Begin(entry)
    /\ UNCHANGED <<entry, disk, slot, hist>>

\* A slot somebody took meanwhile counts as put back, an object that is gone
\* as removed; anything else is kept for another time.
UndoItem(how) ==
    LET r == Head(job.todo)
    IN /\ pc = "teardown" /\ job.todo # <<>>
       /\ IF r.kind = "net" THEN Take(r.slot, "ours", how) ELSE Put(r.slot, "foreign", how)
       /\ owed' = Owed
       /\ doubt' = IF r.kind = "net" /\ how = "failed" THEN doubt \cup {r.slot} ELSE doubt
       /\ job' = [job EXCEPT !.todo = Tail(@),
                             !.left = IF how \in {"done", "refused"} THEN @ ELSE <<r>> \o @]
       /\ UNCHANGED <<entry, disk, pc>>

UndoEnd ==
    /\ pc = "teardown" /\ job.todo = <<>>
    /\ entry' = Kept([state |-> "stale", list |-> job.left])
    /\ pc' = "save" /\ job' = Rest
    /\ UNCHANGED <<disk, slot, hist>>

Crash ==
    /\ pc # "down"
    /\ pc' = "down" /\ job' = Rest
    /\ entry' = NoEntry
    /\ UNCHANGED <<disk, slot, hist>>

\* open_with_all
Restart ==
    /\ pc = "down"
    /\ entry' = disk
    /\ IF disk = NoEntry THEN pc' = "idle" /\ UNCHANGED job ELSE Begin(disk)
    /\ UNCHANGED <<disk, slot, hist>>

\* Others delete an object, add theirs, or replace what is in the slot.
Outside(s) ==
    /\ \E who \in {"none", "foreign"} \ {slot[s]} : slot' = [slot EXCEPT ![s] = who]
    /\ owed' = owed \ {s}
    /\ UNCHANGED <<entry, disk, core, doubt>>

-----------------------------------------------------------------------------
CoreStep ==
    \/ \E ok \in BOOLEAN : (ManualEntry(ok) \/ Claim(ok) \/ SaveLast(ok)) /\ Outcome(ok)
    \/ \E how \in Hows : (KernelEdit(how) \/ PassItem(how) \/ UndoItem(how))
                            /\ Outcome(how \in {"done", "refused"})
    \/ (PassEnd \/ UndoEnd) /\ UNCHANGED troubles

Pass == PassBegin /\ UNCHANGED troubles

Entering ==
    \/ (Cleanup \/ Restart \/ \E k \in Kinds, s \in Slots : Edit(k, s)) /\ UNCHANGED troubles
    \/ \E s \in Slots, how \in Hows : DeleteOwn(s, how) /\ Outcome(how \in {"done", "refused"})

World == (Crash \/ \E s \in Slots : Outside(s)) /\ Trouble

Next == CoreStep \/ Pass \/ Entering \/ World

Spec == Init /\ [][Next]_vars

\* The thread in the core finishes what it began, and passes keep coming.
FairSpec == Spec /\ WF_vars(CoreStep) /\ SF_vars(Pass)

-----------------------------------------------------------------------------
(* Properties.                                                             *)

AtRest == pc = "idle"

\* What the user's edits took from others is back or still listed to be put
\* back, whatever was added over it, failed or crashed in between; so it is
\* back when the edits are gone.  Set aside: an edit that failed with
\* something done, an object suppressed in a slot for which the user already
\* had one listed, and one whose slot the daemon could not empty.
PutBack == AtRest => \A s \in owed \ doubt : Sup(s) \in Listed(entry)

\* An override that got lost comes back while the user's edits stand.
OverrideReturns ==
    \A s \in Slots :
        (AtRest /\ entry.state = "applied" /\ Net(s) \in Listed(entry) /\ slot[s] = "none")
            ~> (slot[s] # "none" \/ entry.state # "applied" \/ Net(s) \notin Listed(entry))

\* What the daemon added for the user, and what it took from others, the file
\* knows; the same is set aside.
OnDisk ==
    \A s \in Slots \ doubt : /\ slot[s] = "ours" => Net(s) \in Listed(disk)
                             /\ s \in owed => Sup(s) \in Listed(disk)

\* Memory and file are lists the daemon can read back, and the file covers the
\* network.
RecordsAgree == TypeOK /\ OnDisk
=============================================================================
