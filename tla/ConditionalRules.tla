-------------------------- MODULE ConditionalRules --------------------------
(***************************************************************************)
(* Conditional routes of one user: the rule store                          *)
(* (crates/daemon/src/cond_rules.rs), the condRules.put and .remove        *)
(* handlers and eval_conditional (server.rs), and reconcile_conditional    *)
(* (core.rs).                                                              *)
(*                                                                         *)
(* The store has no lock.  A request loads the document, changes it and    *)
(* saves it through a temporary file with a fixed name; then it, like the  *)
(* loop that wakes on network changes, reads the rules, the addresses and  *)
(* the installed routes one after the other, and only then asks for the    *)
(* core.  Each of these is a step.  A rule has one condition, which a link *)
(* meets or not, and one route; applying and withdrawing the routes of an  *)
(* owner are single steps here, since OwnershipJournal takes them apart.   *)
(* Links are those match_interface does not filter out by name or owner.   *)
(***************************************************************************)
EXTENDS Integers, FiniteSets, FiniteSetsExt

CONSTANTS
    Rules,          \* rule ids
    Dests,          \* destinations
    Links,          \* interface indices
    Editors,        \* connections that send requests
    Loop,           \* the network loop
    NoOne,
    MaxRequests,    \* bound: requests
    MaxTroubles     \* bound: failures, crashes and changes of the network

ASSUME CondAssumption ==
    /\ Links \subseteq Nat \ {0} /\ Loop \notin Editors /\ NoOne \notin Editors \cup {Loop}
    /\ MaxRequests \in Nat /\ MaxTroubles \in Nat

VARIABLES
    file,       \* rules.json
    temp,       \* rules.json.tmp
    entries,    \* the cond: entries of the journal
    kernel,     \* who has the route to each destination
    addrs,      \* links that meet the condition
    pc, my,     \* what each evaluator does, and the values it carries
    holder,     \* who holds the core
    todo,       \* rules the holder has yet to look at
    acked,      \* history: what the last request for a rule was told is stored
    mixed,      \* history: rules changed by saves that overlap, while any is under
                \* way or the file is not whole
    requests, troubles

store    == <<file, temp>>
net      == <<entries, kernel>>
condVars == <<store, net, addrs, pc, my, holder, todo, acked, mixed, requests, troubles>>

Evaluators == Editors \cup {Loop}
Saving     == {"unlink", "create", "write", "rename"}
Savers     == {c \in Editors : pc[c] \in Saving}
Specs      == [on : BOOLEAN, dest : Dests]
NoRule     == [on |-> FALSE, dest |-> NoOne]
Documents  == [Rules -> Specs \cup {NoRule}]
Empty      == [r \in Rules |-> NoRule]
Routes     == [dest : Dests, link : Links]
NoEntry    == [state |-> "none", route |-> NoOne]

\* An inode: its document, and who is still to write it.
File(d, who) == [doc |-> d, writer |-> who]
NoFile       == File(Empty, Loop)
Whole        == file.writer = NoOne

Rest == [doc |-> Empty, rule |-> NoOne, addrs |-> {}, seen |-> {}]

\* Shapes; the core is held by an evaluator that is at work in it, and what
\* is left for it are rules it read or owners it found.
CondTypeOK ==
    /\ file.doc \in Documents /\ file.writer \in Editors \cup {NoOne}
    /\ temp.doc \in Documents /\ temp.writer \in Editors \cup {NoOne, Loop}
    /\ \A r \in Rules : \/ entries[r] = NoEntry
                        \/ entries[r] \in [state : {"applied", "stale"}, route : Routes]
    /\ kernel \in [Dests -> Links \cup {0, -1}] /\ addrs \subseteq Links
    /\ \A e \in Evaluators : (holder = e) <=> (pc[e] = "inside")
    /\ todo # {} <=> holder # NoOne

CondInit ==
    /\ file = File(Empty, NoOne) /\ temp = NoFile
    /\ entries = [r \in Rules |-> NoEntry]
    /\ kernel = [d \in Dests |-> 0] /\ addrs \in SUBSET Links
    /\ pc = [e \in Evaluators |-> "idle"] /\ my = [e \in Evaluators |-> Rest]
    /\ holder = NoOne /\ todo = {}
    /\ acked = [r \in Rules |-> {}] /\ mixed = {}
    /\ requests = 0 /\ troubles = 0

-----------------------------------------------------------------------------
(* Pieces.                                                                 *)

Trouble     == troubles < MaxTroubles /\ troubles' = troubles + 1
Outcome(ok) == IF ok THEN UNCHANGED troubles ELSE Trouble

Goto(e, l) == pc' = [pc EXCEPT ![e] = l]
Quit(e)    == Goto(e, "idle") /\ my' = [my EXCEPT ![e] = Rest]

\* An overlap ends with its last save, if that leaves a whole document.
Overlap == mixed' = IF Savers' = {} /\ Whole' THEN {} ELSE mixed

-----------------------------------------------------------------------------
(* condRules.put, condRules.remove and the store.                          *)

\* upsert, remove: a document that cannot be read fails the request, one that
\* does not change is not saved.
Request(c, r, s) ==
    /\ pc[c] = "idle" /\ requests < MaxRequests /\ requests' = requests + 1
    /\ Whole
    /\ LET d == [file.doc EXCEPT ![r] = s]
       IN IF d = file.doc
            THEN Goto(c, "rules") /\ UNCHANGED <<my, mixed>>
            ELSE /\ Goto(c, "unlink")
                 /\ my' = [my EXCEPT ![c] = [Rest EXCEPT !.doc = d, !.rule = r]]
                 /\ mixed' = IF Savers = {} THEN {}
                             ELSE mixed \cup {r} \cup {my[a].rule : a \in Savers}
    /\ UNCHANGED <<store, net, addrs, holder, todo, acked>>

\* save: remove_file
Unlink(c) ==
    /\ pc[c] = "unlink"
    /\ temp' = NoFile
    /\ Goto(c, "create")
    /\ UNCHANGED <<file, my, acked>>

\* Bug: the document is written over the old one.
Create_InPlace(c) ==
    /\ pc[c] = "create"
    /\ file' = File(my[c].doc, c) /\ temp' = File(my[c].doc, c)
    /\ Goto(c, "write")
    /\ UNCHANGED <<my, acked>>

\* create_new(true)
Create(c) ==
    /\ pc[c] = "create"
    /\ IF temp = NoFile
         THEN temp' = File(my[c].doc, c) /\ Goto(c, "write") /\ UNCHANGED my
         ELSE UNCHANGED temp /\ Quit(c)
    /\ UNCHANGED <<file, acked>>

\* write_all and sync_all, to the inode wherever its name is by now
Written(f, c) == IF f.writer = c THEN File(f.doc, NoOne) ELSE f
Write(c, ok) ==
    /\ pc[c] = "write"
    /\ IF ok THEN temp' = Written(temp, c) /\ file' = Written(file, c) /\ Goto(c, "rename")
                  /\ UNCHANGED my
             ELSE UNCHANGED store /\ Quit(c)
    /\ UNCHANGED acked

\* rename, and the sync of the directory, which fails too late
Rename(c, ok) ==
    /\ pc[c] = "rename"
    /\ IF temp = NoFile
         THEN ok /\ Quit(c) /\ UNCHANGED <<store, acked>>
         ELSE /\ file' = temp /\ temp' = NoFile
              /\ acked' = [r \in Rules |->
                    IF r \in mixed THEN {}
                    ELSE IF r # my[c].rule THEN acked[r]
                    ELSE IF ok THEN {my[c].doc[r]} ELSE {}]
              /\ my' = [my EXCEPT ![c] = Rest] /\ Goto(c, IF ok THEN "rules" ELSE "idle")

-----------------------------------------------------------------------------
(* eval_conditional.                                                       *)

\* The network loop wakes at any time, a request comes here when it is stored.
Begins(e) == pc[e] = IF e = Loop THEN "idle" ELSE "rules"

\* load_all_rules: what cannot be read counts as no rules.
ReadRules(e) ==
    /\ Begins(e)
    /\ my' = [my EXCEPT ![e] = [Rest EXCEPT !.doc = IF Whole THEN file.doc ELSE Empty]]
    /\ Goto(e, "addrs")

ReadAddrs(e) ==
    /\ pc[e] = "addrs"
    /\ my' = [my EXCEPT ![e].addrs = addrs]
    /\ Goto(e, "seen")

\* owned_routes
ReadRoutes(e) ==
    /\ pc[e] = "seen"
    /\ my' = [my EXCEPT ![e].seen = {w \in Routes : kernel[w.dest] = w.link}]
    /\ Goto(e, "core")

\* Each of the three may fail and end the evaluation.
Read(e, ok) ==
    /\ IF ok THEN ReadRules(e) \/ ReadAddrs(e) \/ ReadRoutes(e)
             ELSE (Begins(e) \/ pc[e] \in {"addrs", "seen"}) /\ Quit(e)
    /\ UNCHANGED <<net, holder, todo>>

-----------------------------------------------------------------------------
(* reconcile_conditional.                                                  *)

\* Bug: owners of rules that are gone are not looked for.
Orphans_None(e) == {}

\* Owners whose rule is gone.
Orphans(e) == {r \in Rules : entries[r] # NoEntry /\ my[e].doc[r] = NoRule}

\* The core is held until nothing is left to do.
Hold(e) ==
    IF todo' = {} THEN holder' = NoOne /\ Quit(e)
                  ELSE holder' = e /\ Goto(e, "inside") /\ UNCHANGED my

Enter(e) ==
    /\ pc[e] = "core" /\ holder = NoOne
    /\ todo' = Orphans(e) \cup {r \in Rules : my[e].doc[r] # NoRule}
    /\ Hold(e)
    /\ UNCHANGED net

\* match_interface, plan_routes: the lowest index that meets the condition.
Desired(e, r) ==
    IF my[e].doc[r].on /\ my[e].addrs # {}
    THEN {[dest |-> my[e].doc[r].dest, link |-> Min(my[e].addrs)]} ELSE {}

InSync(e, r) ==
    /\ entries[r].state = "applied" /\ Desired(e, r) = {entries[r].route}
    /\ entries[r].route \in my[e].seen

\* The table without the route of an entry; one that is gone is no error.
Without(r) ==
    IF entries[r] # NoEntry /\ kernel[entries[r].route.dest] = entries[r].route.link
    THEN [kernel EXCEPT ![entries[r].route.dest] = 0] ELSE kernel

Withdrawn(r, ok) ==
    IF ok THEN kernel' = Without(r) /\ entries' = [entries EXCEPT ![r] = NoEntry]
          ELSE entries' = [entries EXCEPT ![r].state = "stale"] /\ UNCHANGED kernel

\* remove_owner_inner if the owner has an entry, then apply_routes_inner;
\* a destination somebody else has refuses the route.
Installed(r, w, how) ==
    IF how = "kept" THEN entries[r] # NoEntry /\ Withdrawn(r, FALSE)
    ELSE LET free == Without(r)[w.dest] = 0 /\ how = "done"
         IN /\ kernel' = IF free THEN [Without(r) EXCEPT ![w.dest] = w.link] ELSE Without(r)
            /\ entries' = [entries EXCEPT ![r] =
                              IF free THEN [state |-> "applied", route |-> w] ELSE NoEntry]

\* Owners without a rule come first.  The order of the rules is that of the
\* document, which any order may be.
Item(e, r, how) ==
    /\ holder = e /\ r \in todo
    /\ my[e].doc[r] # NoRule => \A x \in todo : my[e].doc[x] # NoRule
    /\ todo' = todo \ {r}
    /\ IF Desired(e, r) = {}
         THEN IF entries[r] = NoEntry THEN how = "done" /\ UNCHANGED net
              ELSE how # "refused" /\ Withdrawn(r, how = "done")
         ELSE IF InSync(e, r) THEN how = "done" /\ UNCHANGED net
              ELSE \E w \in Desired(e, r) : Installed(r, w, how)
    /\ Hold(e)

-----------------------------------------------------------------------------
(* Cleanup, crashes and the network.                                       *)

\* Tear every owner down; those in `left` fail.
Teardown(left) ==
    /\ left \subseteq {r \in Rules : entries[r] # NoEntry}
    /\ entries' = [r \in Rules |-> IF r \in left THEN [entries[r] EXCEPT !.state = "stale"]
                                   ELSE NoEntry]
    /\ kernel' = [d \in Dests |->
                     IF \E r \in Rules \ left : entries[r] # NoEntry
                                                /\ entries[r].route = [dest |-> d, link |-> kernel[d]]
                     THEN 0 ELSE kernel[d]]

\* cleanup_uid; the rules are stored and come back.
CleanupUid(left) ==
    /\ holder = NoOne /\ \E r \in Rules : entries[r] # NoEntry
    /\ Teardown(left)
    /\ UNCHANGED <<store, addrs, pc, my, holder, todo, acked, mixed, requests>>

\* The daemon dies and starts again: open_with_all tears down what the
\* journal lists; what was being written stays as it is.
Crash(left) ==
    /\ Teardown(left)
    /\ pc' = [e \in Evaluators |-> "idle"] /\ my' = [e \in Evaluators |-> Rest]
    /\ holder' = NoOne /\ todo' = {}
    /\ UNCHANGED <<store, addrs, acked, requests>>
    /\ Overlap

\* Addresses come and go, with or without the routes; others take and free
\* destinations (-1).
NetChanges ==
    /\ \/ /\ addrs' \in SUBSET Links \ {addrs}
          /\ kernel' \in {kernel, [d \in Dests |->
                IF kernel[d] \in Links \ addrs' THEN 0 ELSE kernel[d]]}
       \/ /\ \E d \in Dests, w \in {0, -1} : kernel' = [kernel EXCEPT ![d] = w] /\ kernel' # kernel
          /\ UNCHANGED addrs
    /\ UNCHANGED <<store, entries, pc, my, holder, todo, acked, mixed, requests>>

-----------------------------------------------------------------------------
SaveStep(c) ==
    /\ \/ (Unlink(c) \/ Create(c)) /\ UNCHANGED troubles
       \/ \E ok \in BOOLEAN : (Write(c, ok) \/ Rename(c, ok)) /\ Outcome(ok)
    /\ Overlap
    /\ UNCHANGED <<net, addrs, holder, todo, requests>>

EvalStep(e) ==
    /\ \/ Enter(e) /\ UNCHANGED troubles
       \/ \E ok \in BOOLEAN : Read(e, ok) /\ Outcome(ok)
       \/ \E r \in Rules, how \in {"done", "kept", "refused"} :
             Item(e, r, how) /\ Outcome(how = "done")
    /\ UNCHANGED <<store, addrs, acked, mixed, requests>>

Edits == \E c \in Editors, r \in Rules, s \in Specs \cup {NoRule} :
          Request(c, r, s) /\ UNCHANGED troubles

World ==
    \/ \E left \in SUBSET Rules : (CleanupUid(left) \/ Crash(left)) /\ Trouble
    \/ NetChanges /\ Trouble

CondNext ==
    \/ \E c \in Editors : SaveStep(c)
    \/ \E e \in Evaluators : EvalStep(e)
    \/ Edits \/ World

\* The loop keeps waking and its turn in the core comes, and evaluations go on.
\* Nothing is asked of saves.
CondSpec ==
    /\ CondInit /\ [][CondNext]_condVars
    /\ SF_condVars(EvalStep(Loop)) /\ \A c \in Editors : WF_condVars(EvalStep(c))

-----------------------------------------------------------------------------
(* Properties.                                                             *)

\* rules.json is a whole document, through failures and crashes at any step
\* of a save, unless saves overlap; and it has every change that was
\* acknowledged, unless overlapping requests change that rule: those lose one
\* another's changes.
SavedWhole ==
    /\ mixed = {} => Whole
    /\ \A r \in Rules : \A s \in acked[r] : file.doc[r] = s

\* With it, the core is held by the evaluator that is inside and no other.
StoreSound == CondTypeOK /\ SavedWhole

\* Everything is as the stored rules want it now: the route of a rule whose
\* condition holds is on the preferred link, unless others have its
\* destination, and a rule that does not hold, is switched off or gone has
\* none.
Settled ==
    \A r \in Rules :
        IF file.doc[r].on /\ addrs # {}
        THEN kernel[file.doc[r].dest] \in {Min(addrs), -1}
        ELSE entries[r] = NoEntry

\* That is reached again after every change of the rules or the network,
\* failure and crash, although evaluations on older readings come later.
Converges == []<>(~Whole \/ Settled)
=============================================================================
