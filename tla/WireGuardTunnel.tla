-------------------------- MODULE WireGuardTunnel --------------------------
(***************************************************************************)
(* One full WireGuard tunnel of the Linux daemon: the staged connect with  *)
(* its fallback link name, disconnect, the reconcile pass, re-application  *)
(* of DNS, and recovery after a crash (crates/daemon/src/core.rs,          *)
(* netlink.rs).                                                            *)
(*                                                                         *)
(* Everything runs under the mutex of the core.  Each save of the journal  *)
(* and each kernel call is a step of its own: the daemon can die between   *)
(* any two, any of them can fail (ok = FALSE) with its effect uncertain,   *)
(* and others edit links, rules and routes at any time.  The number of     *)
(* such troubles in one behaviour is bounded.                              *)
(*                                                                         *)
(* A link is known by its name, its ifindex and the owner marker in its    *)
(* alias.  The kernel does not reuse an ifindex, so an entry that has the  *)
(* index of its link (`known`) cannot take another link for it.            *)
(***************************************************************************)
EXTENDS Integers, Sequences, FiniteSets

CONSTANT MaxTroubles    \* bound: failures, crashes and outside events

ASSUME WireGuardAssumption == MaxTroubles \in Nat

VARIABLES
    entry,      \* the journal entry of the tunnel, in memory
    disk,       \* the same entry in state.json
    links,      \* who has the link of either name
    net,        \* what the kernel holds on the tunnel's link
    rule,       \* who holds the priority of the tunnel's policy rules
    pc,         \* what the thread holding the core is doing
    job,        \* its operands
    lost,       \* history: links created under a name that was never saved
    troubles    \* troubles so far

journals == <<entry, disk>>
kernel   == <<links, net, rule>>
core     == <<pc, job>>
vars     == <<journals, kernel, core, lost, troubles>>

Names   == {"want", "spare"}    \* the requested name and the fallback
Own     == {"bare", "ours"}     \* created here; without and with the marker
Kinds   == Own \cup {"none", "foreign", "alien"}  \* alien: not WireGuard at all
OnLink  == {"address", "route", "dns"}
Objects == OnLink \cup {"rule"}

NoEntry == [state |-> "none", name |-> "want", known |-> FALSE, res |-> {},
            dns |-> FALSE, warn |-> FALSE]
Entry   == [state : {"none", "applying", "applied", "stale"}, name : Names,
            known : BOOLEAN, res : SUBSET (Objects \cup {"link"}),
            dns : BOOLEAN, warn : BOOLEAN]
Rest    == [name |-> "want", step |-> 0, todo |-> {}, held |-> {}, owned |-> FALSE]

\* Shapes; the marker of the link is in every entry, its index in every
\* entry with more than the link.
TypeOK ==
    /\ entry \in Entry /\ disk \in Entry
    /\ links \in [Names -> Kinds]
    /\ net \subseteq OnLink
    /\ rule \in {"absent", "ours", "foreign"}
    /\ pc \in {"down", "idle", "create", "mark", "index", "step", "kernel", "flag",
               "teardown", "removing", "finish", "restore"}
    /\ job.name \in Names /\ job.todo \cup job.held \subseteq Objects \cup {"link"}
    /\ lost \subseteq Names
    /\ \A e \in {entry, disk} :
          /\ e.state = "none" <=> e.res = {}
          /\ e.state # "none" => "link" \in e.res
          /\ e.res \cap Objects # {} => e.known

Init ==
    /\ entry = NoEntry /\ disk = NoEntry
    /\ links = [n \in Names |-> "none"] /\ net = {} /\ rule = "absent"
    /\ pc = "idle" /\ job = Rest
    /\ lost = {} /\ troubles = 0

-----------------------------------------------------------------------------
(* Pieces.                                                                 *)

Trouble == troubles < MaxTroubles /\ troubles' = troubles + 1

\* A failure counts, unless an outsider's edit made it inevitable.
Replaced == ~entry.known /\ links[entry.name] \notin {"none", "ours"}
Doomed ==
    \/ pc \in {"mark", "step", "kernel", "restore"} /\ links[job.name] \notin Own
    \/ pc \in {"kernel", "restore", "removing"} /\ rule = "foreign"
    \/ pc = "removing" /\ Replaced
Outcome(ok) == IF ok \/ Doomed THEN UNCHANGED troubles ELSE Trouble

\* JournalStore::save; an error says nothing about which document is on disk.
Save(e, ok) == IF ok THEN disk' = e ELSE disk' \in {disk, e}

GiveUp == pc' = "teardown"

\* An entry without an index finds its link by the name alone.
Owned   == links[entry.name] = "ours"
Present == ~entry.known /\ links[entry.name] \in {"foreign", "bare"}

\* A link of the fallback name that no entry names any more.
Strays(ls, e) == {n \in Names : ls[n] \in Own /\ e.name # n}

-----------------------------------------------------------------------------
(* connect_wireguard.                                                      *)

\* allocate_full takes a slot whose priority is free.
Connect(ok) ==
    LET e == [NoEntry EXCEPT !.state = "applying", !.res = {"link"}]
    IN /\ pc = "idle" /\ entry = NoEntry
       /\ Save(e, ok)
       /\ IF ok THEN entry' = e /\ pc' = "create" /\ job' = Rest /\ rule' = "absent"
          ELSE UNCHANGED <<entry, pc, job, rule>>
       /\ UNCHANGED <<links, net, lost>>

CreateLink(ok) ==
    /\ pc = "create" /\ links[job.name] = "none"
    /\ IF ok THEN links' = [links EXCEPT ![job.name] = "bare"] /\ pc' = "mark" /\ UNCHANGED lost
       ELSE /\ \E k \in {"none", "bare"} : links' = [links EXCEPT ![job.name] = k]
            /\ lost' = lost \cup Strays(links', entry)
            /\ GiveUp
    /\ UNCHANGED <<journals, net, rule, job>>

\* The name is taken: the fallback is tried.  If that is taken too nothing
\* was created, and the entry goes without a teardown.
NameTaken ==
    /\ pc = "create" /\ links[job.name] # "none"
    /\ IF job.name = "want"
         THEN job' = [job EXCEPT !.name = "spare"] /\ UNCHANGED <<entry, pc>>
         ELSE entry' = NoEntry /\ pc' = "finish" /\ UNCHANGED job
    /\ UNCHANGED <<disk, kernel, lost>>

\* The alias is set and read back; a link that fails this is deleted if that
\* works.
MarkLink(ok) ==
    /\ pc = "mark"
    /\ IF ok THEN /\ links[job.name] = "bare"
                  /\ links' = [links EXCEPT ![job.name] = "ours"]
                  /\ pc' = "index" /\ UNCHANGED lost
       ELSE /\ IF links[job.name] = "bare"
                 THEN \E k \in {"none", "bare", "ours"} : links' = [links EXCEPT ![job.name] = k]
                 ELSE UNCHANGED links
            /\ lost' = lost \cup Strays(links', entry)
            /\ GiveUp
    /\ UNCHANGED <<journals, net, rule, job>>

\* Bug: only the index is journaled, not the name the link really has.
TakeIndex_OldName(ok) ==
    /\ pc = "index"
    /\ entry' = [entry EXCEPT !.known = TRUE]
    /\ Save(entry', ok)
    /\ IF ok THEN pc' = "step" /\ job' = [job EXCEPT !.step = 1] ELSE GiveUp /\ UNCHANGED job
    /\ UNCHANGED <<kernel, lost>>

\* The index and the name the link really has are journaled.
TakeIndex(ok) ==
    /\ pc = "index"
    /\ entry' = [entry EXCEPT !.name = job.name, !.known = TRUE]
    /\ Save(entry', ok)
    /\ IF ok THEN pc' = "step" /\ job' = [job EXCEPT !.step = 1] ELSE GiveUp /\ UNCHANGED job
    /\ UNCHANGED <<kernel, lost>>

\* "config" is the configuration of the device with the checks of its
\* endpoints, "up" the MTU and the link state, "verify" verify_transport.
Steps == <<"config", "address", "up", "route", "rule", "verify", "dns">>
Now   == Steps[job.step]
NextStep == pc' = "step" /\ job' = [job EXCEPT !.step = @ + 1]

\* Bug: the intent is not saved ahead of the kernel call.
JournalStep_NotSaved(ok) ==
    /\ pc = "step" /\ job.step <= Len(Steps)
    /\ entry' = [entry EXCEPT !.res = @ \cup ({Now} \cap Objects)]
    /\ ok
    /\ pc' = "kernel"
    /\ UNCHANGED <<disk, kernel, job, lost>>

\* What is about to be added is journaled; other steps save nothing.
JournalStep(ok) ==
    /\ pc = "step" /\ job.step <= Len(Steps)
    /\ entry' = [entry EXCEPT !.res = @ \cup ({Now} \cap Objects)]
    /\ IF Now \in Objects THEN Save(entry', ok) ELSE ok /\ UNCHANGED disk
    /\ IF ok THEN pc' = "kernel" ELSE GiveUp
    /\ UNCHANGED <<kernel, job, lost>>

KernelStep(ok) ==
    LET n == IF Owned THEN net \cup ({Now} \cap OnLink) ELSE net
        r == IF Now = "rule" /\ rule = "absent" THEN "ours" ELSE rule
    IN /\ pc = "kernel" /\ Now # "dns"
       /\ IF ok THEN /\ Owned
                     /\ Now = "rule" => rule = "absent"
                     /\ net' = n /\ rule' = r /\ NextStep
          ELSE net' \in {net, n} /\ rule' \in {rule, r} /\ GiveUp /\ UNCHANGED job
       /\ UNCHANGED <<journals, links, lost>>

\* Applied; or systemd-resolved is not there, or a split tunnel names no
\* domain, which is worth a warning; or an error, which is not forgiven.
DnsStep(how) ==
    /\ pc = "kernel" /\ Now = "dns"
    /\ how \in {"applied", "failed"} => Owned
    /\ IF how = "applied" THEN net' = net \cup {"dns"}
       ELSE IF how = "failed" THEN net' \in {net, net \cup {"dns"}} ELSE UNCHANGED net
    /\ entry' = CASE how = "applied"     -> [entry EXCEPT !.dns = TRUE]
                  [] how = "unavailable" -> [entry EXCEPT !.warn = TRUE]
                  [] how = "skipped"     -> [entry EXCEPT !.warn = TRUE, !.res = @ \ {"dns"}]
                  [] how = "failed"      -> entry
    /\ IF how = "failed" THEN GiveUp ELSE pc' = "flag"
    /\ UNCHANGED <<disk, links, rule, job, lost>>

SaveFlag(ok) ==
    /\ pc = "flag"
    /\ Save(entry, ok)
    /\ IF ok THEN NextStep ELSE GiveUp /\ UNCHANGED job
    /\ UNCHANGED <<entry, kernel, lost>>

\* The entry becomes `applied`; if that cannot be saved the tunnel goes again.
Commit(ok) ==
    /\ pc = "step" /\ job.step > Len(Steps)
    /\ entry' = [entry EXCEPT !.state = "applied"]
    /\ Save(entry', ok)
    /\ IF ok THEN pc' = "idle" /\ job' = Rest ELSE GiveUp /\ UNCHANGED job
    /\ UNCHANGED <<kernel, lost>>

-----------------------------------------------------------------------------
(* reconcile_network and restore_owned_network.                            *)

\* Bug: a tunnel without its link is left for the user to disconnect.
Pass_LeavesDead ==
    /\ pc = "idle" /\ entry.state = "applied"
    /\ Owned
    /\ pc' = "restore" /\ job' = [Rest EXCEPT !.name = entry.name, !.todo = {"route", "rule"}]
    /\ UNCHANGED <<journals, kernel, lost>>

\* A tunnel without its link is torn down, any other restored.
Pass ==
    /\ pc = "idle" /\ entry.state = "applied"
    /\ IF Owned THEN pc' = "restore" ELSE GiveUp
    /\ job' = [Rest EXCEPT !.name = entry.name, !.todo = {"route", "rule"}]
    /\ UNCHANGED <<journals, kernel, lost>>

RestoreRoute(ok) ==
    /\ pc = "restore" /\ "route" \in job.todo
    /\ IF "route" \in net THEN ok /\ UNCHANGED net
       ELSE IF ok THEN Owned /\ net' = net \cup {"route"} ELSE UNCHANGED net
    /\ job' = [job EXCEPT !.todo = @ \ {"route"}]
    /\ IF ok THEN UNCHANGED pc ELSE GiveUp
    /\ UNCHANGED <<journals, links, rule, lost>>

\* A rule whose priority someone else has taken cannot be restored.
RestoreRule(ok) ==
    /\ pc = "restore" /\ job.todo = {"rule"}
    /\ IF ok THEN rule # "foreign" /\ rule' = "ours" /\ pc' = "idle" /\ job' = Rest
       ELSE UNCHANGED rule /\ GiveUp /\ UNCHANGED job
    /\ UNCHANGED <<journals, links, net, lost>>

-----------------------------------------------------------------------------
(* teardown_wireguard_entry, under disconnect_wireguard, a failed connect  *)
(* or pass, and the startup recovery of open_with_all.                     *)

Disconnect ==
    /\ pc = "idle" /\ entry # NoEntry
    /\ GiveUp
    /\ job' = [Rest EXCEPT !.name = entry.name]
    /\ UNCHANGED <<journals, kernel, lost>>

\* Nothing is touched while a link has the name and cannot be verified.
TeardownBegin(ok) ==
    /\ pc = "teardown"
    /\ IF ok /\ ~Present
         THEN /\ pc' = "removing"
              /\ job' = [job EXCEPT !.todo = entry.res, !.held = {}, !.owned = Owned]
              /\ UNCHANGED entry
         ELSE entry' = [entry EXCEPT !.state = "stale"] /\ pc' = "finish" /\ UNCHANGED job
    /\ UNCHANGED <<disk, kernel, lost>>

\* Resources go in the reverse of the order they were added in.
Rank(r) == CASE r = "dns" -> 1 [] r = "rule" -> 2 [] r = "route" -> 3
             [] r = "address" -> 4 [] r = "link" -> 5

\* With the link went what was on it; the rules did not.  A rule whose
\* priority someone else has taken cannot be verified.
RemoveItem(r, ok) ==
    /\ pc = "removing" /\ r \in job.todo \ {"link"}
    /\ \A s \in job.todo : Rank(r) <= Rank(s)
    /\ ok /\ r = "rule" => rule # "foreign"
    /\ ~ok => job.owned \/ r = "rule"
    /\ LET n == IF job.owned THEN net \ {r} ELSE net
           p == IF r = "rule" /\ rule = "ours" THEN "absent" ELSE rule
       IN IF ok THEN net' = n /\ rule' = p ELSE net' \in {net, n} /\ rule' \in {rule, p}
    /\ job' = [job EXCEPT !.todo = @ \ {r}, !.held = IF ok THEN @ ELSE @ \cup {r}]
    /\ UNCHANGED <<journals, links, pc, lost>>

\* Bug: the link is deleted although something of the tunnel is left.
LastIsLink_Eager(held) == TRUE

\* The link is deleted only when everything else is gone.
LastIsLink(held) == held = {}

\* Bug: whatever link has the name is deleted.
Deletable_ByName == links[entry.name] # "none"

\* delete_link checks the identity again.
Deletable == links[entry.name] = "ours"
Deleted   == IF Deletable THEN [links EXCEPT ![entry.name] = "none"] ELSE links

After(left) == IF left = {} THEN NoEntry ELSE [entry EXCEPT !.state = "stale", !.res = left]

RemoveLink(ok) ==
    /\ pc = "removing" /\ job.todo = {"link"}
    /\ LET try  == LastIsLink(job.held) /\ job.owned
           left == IF job.held = {} /\ ok THEN {} ELSE job.held \cup {"link"}
       IN /\ ~ok => try
          /\ ok /\ try => ~Replaced
          /\ links' \in IF ~try THEN {links} ELSE IF ok THEN {Deleted} ELSE {links, Deleted}
          /\ net' = IF links' # links THEN {} ELSE net
          /\ entry' = After(left)
    /\ pc' = "finish"
    /\ UNCHANGED <<disk, rule, job, lost>>

\* The caller saves; the entry in memory stands whether that works or not.
Finish(ok) ==
    /\ pc = "finish"
    /\ Save(entry, ok)
    /\ pc' = "idle" /\ job' = Rest
    /\ UNCHANGED <<entry, kernel, lost>>

-----------------------------------------------------------------------------
Noted(e, applied) == [e EXCEPT !.dns = applied, !.warn = ~applied]

\* reapply_dns: after systemd-resolved restarts; a failed apply reverts, or not.
ReapplyDns(applied, ok) ==
    /\ pc = "idle" /\ entry.state = "applied" /\ "dns" \in entry.res
    /\ Owned
    /\ net' \in {net \cup {"dns"}} \cup (IF applied THEN {} ELSE {net, net \ {"dns"}})
    /\ entry' = Noted(entry, applied)
    /\ IF entry' = entry THEN ok /\ UNCHANGED disk ELSE Save(entry', ok)
    /\ UNCHANGED <<links, rule, core, lost>>

Crash ==
    /\ pc # "down"
    /\ pc' = "down" /\ job' = Rest
    /\ entry' = NoEntry
    /\ lost' = lost \cup Strays(links, disk)
    /\ UNCHANGED <<disk, kernel>>

Restart ==
    /\ pc = "down"
    /\ entry' = disk
    /\ IF disk = NoEntry THEN pc' = "idle" /\ UNCHANGED job
       ELSE GiveUp /\ job' = [Rest EXCEPT !.name = disk.name]
    /\ UNCHANGED <<disk, kernel, lost>>

\* Others delete links and create their own.
LinkEdited(n, k) ==
    /\ IF links[n] = "none" THEN k \in {"foreign", "alien"} ELSE k = "none"
    /\ links' = [links EXCEPT ![n] = k]
    /\ lost' = lost \ {n}
    /\ net' = IF links[n] = "ours" /\ n \notin lost THEN {} ELSE net
    /\ UNCHANGED <<journals, rule, core>>

\* Others flush the tunnel's rules or routes, or take the priority; a
\* restart of systemd-resolved forgets the DNS of the link.
NetEdited ==
    /\ \/ rule' = (IF rule = "absent" THEN "foreign" ELSE "absent") /\ UNCHANGED net
       \/ \E r \in net \cap {"route", "dns"} : net' = net \ {r} /\ UNCHANGED rule
    /\ UNCHANGED <<journals, links, core, lost>>

-----------------------------------------------------------------------------
CoreStep ==
    \/ \E ok \in BOOLEAN :
         /\ \/ CreateLink(ok) \/ MarkLink(ok) \/ TakeIndex(ok) \/ JournalStep(ok)
            \/ KernelStep(ok) \/ SaveFlag(ok) \/ Commit(ok)
            \/ RestoreRoute(ok) \/ RestoreRule(ok)
            \/ TeardownBegin(ok) \/ RemoveLink(ok) \/ Finish(ok)
            \/ \E r \in Objects : RemoveItem(r, ok)
         /\ Outcome(ok)
    \/ (NameTaken \/ \E how \in {"applied", "unavailable", "skipped"} : DnsStep(how))
         /\ UNCHANGED troubles
    \/ DnsStep("failed") /\ Trouble

Resolve == Pass /\ UNCHANGED troubles

\* Requests, re-application of DNS, and the restart of the process.
Entering ==
    \/ \E ok \in BOOLEAN :
         (Connect(ok) \/ \E applied \in BOOLEAN : ReapplyDns(applied, ok)) /\ Outcome(ok)
    \/ (Disconnect \/ Restart) /\ UNCHANGED troubles

World == (Crash \/ NetEdited \/ \E n \in Names, k \in Kinds : LinkEdited(n, k)) /\ Trouble

Next == CoreStep \/ Resolve \/ Entering \/ World

Spec == Init /\ [][Next]_vars

\* The thread in the core finishes what it began, and passes keep coming.
FairSpec == Spec /\ WF_vars(CoreStep) /\ SF_vars(Resolve)

-----------------------------------------------------------------------------
(* Properties.                                                             *)

AtRest == pc = "idle"

\* Every link the daemon created bears the name the file has for it, and one
\* of the requested name always does.  The exception is the fallback link
\* while, or because, its name has not been saved (create_link is called a
\* second time under the journal record of the first name).
LinksOnDisk ==
    \A n \in Names : links[n] \in Own =>
        \/ disk.state # "none" /\ disk.name = n
        \/ n = "spare" /\ (n \in lost \/ pc \in {"mark", "index"} \/ entry.name = n)

\* A tunnel the daemon has forgotten left nothing behind, but for such a link.
ForgottenIsClean ==
    AtRest /\ entry = NoEntry =>
        net = {} /\ rule # "ours" /\ \A n \in Names : links[n] \in Own => n \in lost

\* The status tells the truth about itself: DNS is applied or warned about.
DnsApplies == AtRest /\ entry.state = "applied" => entry.dns = ~entry.warn

\* Between requests journal, file, network and status agree: links are on disk
\* under the name they have, a forgotten entry has left nothing, and DNS is
\* applied or warned about.
RecordsAgree == TypeOK /\ LinksOnDisk /\ ForgottenIsClean /\ DnsApplies

\* Links, and policy rules, of others are never touched by the daemon: not by
\* a connect that finds its name taken, not by a recovery that has only the
\* name to go by, not by a teardown whose link was replaced meanwhile.
LeavesOthers ==
    [][~World => /\ \A n \in Names : links[n] \in {"foreign", "alien"} => links'[n] = links[n]
                 /\ rule = "foreign" => rule' = "foreign" \/ Connect(TRUE)]_vars

\* The daemon deletes its link last: no policy rule, and so no default route,
\* is left pointing at a tunnel it has just removed.
LinkGoesLast ==
    [][~World => \A n \in Names :
          links[n] = "ours" /\ links'[n] = "none" => rule # "ours" /\ net = {}]_vars

\* An `applied` tunnel whose link is gone does not stay so.
DeadIsResolved ==
    (AtRest /\ entry.state = "applied" /\ ~Owned) ~> (Owned \/ entry.state # "applied")

\* What is added to the link, and the rules, keep to the ledger.
Ledger == INSTANCE RouteLedger
    WITH Owners    <- {"wg"},
         Routes    <- Objects,
         claimed   <- [o \in {"wg"} |-> disk.res \cap Objects],
         installed <- [o \in {"wg"} |-> net \cup (IF rule = "ours" THEN {"rule"} ELSE {})]

\* No address, route, rule or DNS setting goes in before its claim is on
\* disk, and no claim is dropped while it is in, whatever fails or crashes.
ImplementsLedger == Ledger!Spec
=============================================================================
