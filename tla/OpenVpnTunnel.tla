--------------------------- MODULE OpenVpnTunnel ---------------------------
(***************************************************************************)
(* One OpenVPN tunnel of the Linux daemon: connect, the one-second poll of *)
(* the management socket, the network it applies for each push, reconnects *)
(* of the child, restoring, disconnect and recovery                        *)
(* (crates/daemon/src/core.rs, openvpn_process.rs;                         *)
(* crates/core/src/openvpn_management.rs).                                 *)
(*                                                                         *)
(* The daemon's part runs under the mutex of the core, one save or kernel  *)
(* call at a time.  The child runs beside it: it makes and drops sessions, *)
(* takes its TUN link with it when it has to, and only writes what it did  *)
(* to a socket that is read later.                                         *)
(*                                                                         *)
(* A link is known by its ifindex, which the kernel does not reuse.  Only  *)
(* remembered indices matter, so a new link is given the smallest number   *)
(* that nobody remembers.                                                  *)
(***************************************************************************)
EXTENDS Integers, Sequences, FiniteSets

CONSTANTS
    MaxTroubles,    \* bound: failures, crashes, lost sessions, outside edits
    MaxQueue        \* bound: unread management events

ASSUME OpenVpnAssumption == MaxTroubles \in Nat /\ MaxQueue \in Nat

VARIABLES
    entry,      \* the journal entry of the tunnel, in memory
    disk,       \* the same entry in state.json
    run,        \* openvpn_runtime: the management snapshot
    proc,       \* the child: none, without a session, with one, on its way out
    tracked,    \* whether the runner knows the child
    queue,      \* management events nobody has read
    link,       \* ifindex of the TUN link, 0 if there is none
    net,        \* routes and DNS on that link
    rule,       \* who holds the priority of the tunnel's policy rules
    other,      \* whether another entry owns a full tunnel
    pc,         \* what the thread holding the core is doing
    job,        \* its operands
    amiss,      \* history: "session", a loss read together with what came after
                \* it; "dns", a setting on the link that no claim stands for
    troubles    \* troubles so far

journals == <<entry, disk>>
child    == <<proc, tracked, queue>>
kernel   == <<link, net, rule>>
core     == <<pc, job>>
vars     == <<journals, run, child, kernel, other, core, amiss, troubles>>

Pushes  == {"split", "full"}        \* also the routes each of them brings
Objects == Pushes \cup {"rule", "dns"}
Events  == Pushes \cup {"connecting", "connected", "reconnecting", "exiting", "auth"}

NoEntry == [state |-> "none", res |-> {}, full |-> FALSE, idx |-> 0, dnsOn |-> FALSE]
NoRun   == [state |-> "none", active |-> "none", pending |-> "none"]
NewRun  == [NoRun EXCEPT !.state = "connecting"]
Rest    == [goal |-> "none", idx |-> 0, todo |-> {}, teardown |-> FALSE, present |-> FALSE]

Entry == [state : {"none", "applying", "applied", "stale"}, res : SUBSET Objects,
          full : BOOLEAN, idx : 0..4, dnsOn : BOOLEAN]

\* Shapes; routes are journaled with the index of their link, rules only for
\* a full tunnel.
TypeOK ==
    /\ entry \in Entry /\ disk \in Entry
    /\ run \in [state : {"none", "connecting", "connected", "reconnecting", "exiting"},
                active : Pushes \cup {"none"}, pending : Pushes \cup {"none"}]
    /\ proc \in {"none", "down", "up", "leaving"} /\ tracked \in BOOLEAN
    /\ queue \in Seq(Events) /\ Len(queue) <= MaxQueue
    /\ link \in 0..4 /\ net \subseteq Objects \ {"rule"}
    /\ rule \in {"absent", "ours", "foreign"}
    /\ pc \in {"down", "idle", "spawn", "started", "clear", "take", "step", "kernel",
               "flag", "stale", "restore", "teardown", "cleanup", "finish"}
    /\ job.todo \subseteq Objects /\ job.idx \in 0..4
    /\ \A e \in {entry, disk} : /\ e.res # {} => e.idx # 0
                                /\ "rule" \in e.res => e.full
                                /\ e.dnsOn => "dns" \in e.res
    /\ amiss \subseteq {"session", "dns"}

Init ==
    /\ entry = NoEntry /\ disk = NoEntry /\ run = NoRun
    /\ proc = "none" /\ tracked = FALSE /\ queue = <<>>
    /\ link = 0 /\ net = {} /\ rule = "absent" /\ other = FALSE
    /\ pc = "idle" /\ job = Rest /\ amiss = {} /\ troubles = 0

-----------------------------------------------------------------------------
(* Pieces.                                                                 *)

Trouble == troubles < MaxTroubles /\ troubles' = troubles + 1

\* A failure counts, unless the outside made it inevitable.
Doomed ==
    \/ pc \in {"kernel", "restore"} /\ link # job.idx
    \/ pc = "take" /\ link = 0
    \/ pc \in {"kernel", "clear", "restore"} /\ rule = "foreign"
    \/ pc = "clear" /\ link = 0
Outcome(ok) == IF ok \/ Doomed THEN UNCHANGED troubles ELSE Trouble

\* JournalStore::save; an error says nothing about which document is on disk.
Save(e, ok) == IF ok THEN disk' = e ELSE disk' \in {disk, e}

\* fail_openvpn, and every other way to teardown_openvpn_entry.
Fail == pc' = "teardown" /\ job' = [Rest EXCEPT !.teardown = TRUE]

\* The network a session asks for.
Desired(push) == IF push = "none" THEN {}
                 ELSE {push, "dns"} \cup (IF push = "full" THEN {"rule"} ELSE {})

\* Resources are added in this order and removed in the reverse one.
Rank(r) == CASE r \in Pushes -> 1 [] r = "rule" -> 2 [] r = "dns" -> 3
First(todo) == CHOOSE r \in todo : \A s \in todo : Rank(r) <= Rank(s)
Last(todo)  == CHOOSE r \in todo : \A s \in todo : Rank(r) >= Rank(s)

-----------------------------------------------------------------------------
(* connect_openvpn and TrustedOpenVpnRunner::start.                        *)

\* A free name and a free mark; no child of an earlier life is about.
Connect(ok) ==
    /\ pc = "idle" /\ entry = NoEntry /\ proc = "none" /\ link = 0
    /\ Save([NoEntry EXCEPT !.state = "applying"], ok)
    /\ IF ok THEN entry' = [NoEntry EXCEPT !.state = "applying"] /\ pc' = "spawn"
       ELSE UNCHANGED <<entry, pc>>
    /\ UNCHANGED <<run, child, kernel, other, job, amiss>>

\* A child that could not be set up is terminated, if that works; it is
\* tracked only when all worked.
Spawn(ok) ==
    /\ pc = "spawn"
    /\ IF ok THEN proc' = "down" /\ tracked' = TRUE /\ pc' = "started" /\ UNCHANGED job
       ELSE proc' \in {"none", "down"} /\ UNCHANGED tracked /\ Fail
    /\ queue' = <<>>
    /\ UNCHANGED <<journals, run, kernel, other, amiss>>

Started(ok) ==
    /\ pc = "started"
    /\ entry' = [entry EXCEPT !.state = "applied"]
    /\ Save(entry', ok)
    /\ run' = NewRun
    /\ pc' = "idle" /\ job' = Rest
    /\ UNCHANGED <<child, kernel, other, amiss>>

-----------------------------------------------------------------------------
(* reconcile_openvpn_owner.                                                *)

\* ManagementSnapshot::apply.  "connecting" is any state on the way to a session.
Applied(s, ev) ==
    CASE ev = "connected" -> [state |-> "connected", active |-> s.pending, pending |-> "none"]
      [] ev = "connecting" -> [s EXCEPT !.state = "connecting"]
      [] ev \in {"reconnecting", "exiting"} -> [state |-> ev, active |-> "none", pending |-> "none"]
      [] OTHER -> [s EXCEPT !.pending = ev]

\* The snapshot after the first k unread events.
Read(k) ==
    LET after[i \in 0..k] == IF i = 0 THEN run ELSE Applied(after[i - 1], queue[i])
    IN after[k]

\* Whether the last of these k events hides that a session was lost.
Merges(k) ==
    \E i, j \in 1..k : i < j /\ queue[i] = "reconnecting" /\ queue[j] \in {"connecting", "connected"}

\* Bug: the other entries are not asked.
FullRefused_Ours(push) == push = "full" /\ ~entry.full /\ rule # "absent"

\* openvpn_full_plan: another full tunnel, or an occupied slot.
FullRefused(push) == push = "full" /\ (other \/ (~entry.full /\ rule # "absent"))

\* Routes, mark and DNS are compared with what is journaled; the link is not.
InSync(push) == entry.res = Desired(push) /\ entry.full = (push = "full")

\* Bug: a lost session is waited out with its network in place.
Acts_OnlyUp(s) == s.state = "connected"

\* A session, or the loss of one, decides the network; anything else waits.
Acts(s) == s.state \in {"connected", "reconnecting"}

\* Bug: a child that is gone is left for the next pass.
PollFails_NotDead(k) == \E i \in 1..k : queue[i] = "auth"

\* A child that is gone, or refused by its server.
PollFails(k) == proc = "none" \/ \E i \in 1..k : queue[i] = "auth"

\* One reading of the socket: any prefix of what the child wrote.
Poll(k) ==
    /\ pc = "idle" /\ entry.state = "applied" /\ run # NoRun
    /\ k <= Len(queue)
    /\ queue' = SubSeq(queue, k + 1, Len(queue))
    /\ IF PollFails(k) THEN Fail /\ UNCHANGED <<run, amiss>>
       ELSE LET s == Read(k) IN
            /\ run' = s
            /\ amiss' = IF Merges(k) THEN amiss \cup {"session"} ELSE amiss
            /\ CASE ~Acts(s) -> UNCHANGED core
                 [] Acts(s) /\ FullRefused(s.active) -> Fail
                 [] Acts(s) /\ ~FullRefused(s.active) /\ InSync(s.active) -> UNCHANGED core
                 [] OTHER -> /\ pc' = "clear"
                             /\ job' = [Rest EXCEPT !.goal = s.active, !.todo = entry.res,
                                                    !.present = (link # 0)]
    /\ UNCHANGED <<journals, proc, tracked, kernel, other>>

\* The index of the link, and the mark of a full tunnel.
TakeLink(ok) ==
    /\ pc = "take"
    /\ IF link = 0 THEN ~ok /\ Fail /\ UNCHANGED journals
       ELSE /\ entry' = [entry EXCEPT !.full = (job.goal = "full"), !.idx = link]
            /\ Save(entry', ok)
            /\ IF ok THEN /\ pc' = "step"
                          /\ job' = [job EXCEPT !.idx = link, !.todo = Desired(job.goal)]
               ELSE Fail
    /\ UNCHANGED <<run, child, kernel, other, amiss>>

\* Bug: the intent is not saved ahead of the kernel call.
JournalStep_NotSaved(ok) ==
    /\ pc = "step" /\ job.todo # {} /\ ok
    /\ entry' = [entry EXCEPT !.res = @ \cup {First(job.todo)}]
    /\ pc' = "kernel"
    /\ UNCHANGED <<disk, run, child, kernel, other, job, amiss>>

\* Each resource is journaled first; what cannot be saved is taken back.
JournalStep(ok) ==
    LET e == [entry EXCEPT !.res = @ \cup {First(job.todo)}]
    IN /\ pc = "step" /\ job.todo # {}
       /\ Save(e, ok)
       /\ IF ok THEN entry' = e /\ pc' = "kernel" /\ UNCHANGED job
          ELSE Fail /\ UNCHANGED entry
       /\ UNCHANGED <<run, child, kernel, other, amiss>>

Settled(r) == pc' = "step" /\ job' = [job EXCEPT !.todo = @ \ {r}]

\* Somebody else has the route or the priority: the claim is taken back.
Taken ==
    LET r == First(job.todo)
    IN /\ pc = "kernel" /\ r # "dns"
       /\ r = "rule" => rule = "foreign"
       /\ entry' = [entry EXCEPT !.res = @ \ {r}]
       /\ Fail
       /\ UNCHANGED <<disk, run, child, kernel, other, amiss>>

KernelStep(ok) ==
    LET r == First(job.todo)
        n == IF r \in Pushes /\ link = job.idx THEN net \cup {r} ELSE net
        p == IF r = "rule" /\ rule = "absent" THEN "ours" ELSE rule
    IN /\ pc = "kernel" /\ r # "dns"
       /\ IF ok THEN /\ r \in Pushes => link = job.idx
                     /\ r = "rule" => rule = "absent"
                     /\ net' = n /\ rule' = p /\ Settled(r)
          ELSE net' \in {net, n} /\ rule' \in {rule, p} /\ Fail
       /\ UNCHANGED <<journals, run, child, link, other, amiss>>

\* DnsExecutor::apply that fails: it does so before it changed anything, or it
\* reverts the link, or that fails too and some of the setting is there.
DnsLeft == {net, net \ {"dns"}} \cup (IF link # 0 THEN {net \cup {"dns"}} ELSE {})

\* By the name of the link; a resolver that is not there is no failure.
DnsStep(how) ==
    /\ pc = "kernel" /\ First(job.todo) = "dns"
    /\ how = "applied" => link # 0
    /\ amiss' = amiss \ {"dns"}
    /\ CASE how = "applied" -> /\ net' = net \cup {"dns"}
                               /\ entry' = [entry EXCEPT !.dnsOn = TRUE]
                               /\ pc' = "flag" /\ UNCHANGED job
         [] how = "unavailable" -> Settled("dns") /\ UNCHANGED <<net, entry>>
         [] how = "failed" -> Fail /\ net' \in DnsLeft /\ UNCHANGED entry
    /\ UNCHANGED <<disk, run, child, link, rule, other>>

SaveFlag(ok) ==
    /\ pc = "flag"
    /\ Save(entry, ok)
    /\ Settled("dns")
    /\ UNCHANGED <<entry, run, child, kernel, other, amiss>>

PollDone ==
    /\ pc = "step" /\ job.todo = {}
    /\ pc' = "idle" /\ job' = Rest
    /\ UNCHANGED <<journals, run, child, kernel, other, amiss>>

-----------------------------------------------------------------------------
(* clear_openvpn_network, for a poll or a teardown.                        *)

Stale == [entry EXCEPT !.state = "stale"]

\* DNS is reverted if the flag says that it is on; a failure matters only if
\* the link was there.  A rule somebody else replaced cannot be verified.  The first error
\* ends it.
ClearItem(ok) ==
    LET r == Last(job.todo)
        n == IF (r \in Pushes /\ link = entry.idx) \/ (r = "dns" /\ entry.dnsOn)
             THEN net \ {r} ELSE net
        p == IF r = "rule" /\ rule = "ours" THEN "absent" ELSE rule
    IN /\ pc = "clear" /\ job.todo # {}
       /\ ~ok /\ r = "dns" => entry.dnsOn /\ job.present
       /\ IF ok THEN /\ r = "rule" => rule # "foreign"
                     /\ net' = n /\ rule' = p
                     /\ job' = [job EXCEPT !.todo = @ \ {r}]
                     /\ UNCHANGED <<entry, pc>>
          ELSE /\ net' \in {net, n} /\ rule' \in {rule, p}
               /\ entry' = Stale /\ pc' = "stale" /\ UNCHANGED job
       /\ amiss' = IF ok /\ r = "dns" /\ r \in n THEN amiss \cup {"dns"} ELSE amiss
       /\ UNCHANGED <<disk, run, child, link, other>>

ClearFailed(ok) ==
    /\ pc = "stale"
    /\ Save(entry, ok)
    /\ IF job.teardown THEN pc' = "finish" /\ UNCHANGED job ELSE Fail
    /\ UNCHANGED <<entry, run, child, kernel, other, amiss>>

Cleared == [entry EXCEPT !.res = {}, !.full = FALSE, !.idx = 0, !.dnsOn = FALSE]

ClearDone(ok) ==
    /\ pc = "clear" /\ job.todo = {}
    /\ entry' = IF job.teardown /\ ~ok THEN [Cleared EXCEPT !.state = "stale"] ELSE Cleared
    /\ Save(Cleared, ok)
    /\ amiss' = amiss \ {"session"}
    /\ CASE job.teardown -> pc' = (IF ok THEN "cleanup" ELSE "finish") /\ UNCHANGED job
         [] ~job.teardown /\ ~ok -> Fail
         [] ~job.teardown /\ ok /\ job.goal = "none" -> pc' = "idle" /\ job' = Rest
         [] OTHER -> pc' = "take" /\ UNCHANGED job
    /\ UNCHANGED <<run, child, kernel, other>>

-----------------------------------------------------------------------------
(* teardown_openvpn_entry.                                                 *)

Disconnect ==
    /\ pc = "idle" /\ entry # NoEntry
    /\ Fail
    /\ UNCHANGED <<journals, run, child, kernel, other, amiss>>

\* The link goes with its process; one that is still there is somebody's.
Stop(ok) ==
    /\ pc = "teardown"
    /\ ~ok => tracked
    /\ IF ok /\ tracked THEN proc' = "none" /\ tracked' = FALSE /\ queue' = <<>>
                             /\ link' = 0 /\ net' = {}
       ELSE UNCHANGED <<child, link, net>>
    /\ IF ok /\ link' = 0
         THEN pc' = "clear" /\ job' = [job EXCEPT !.todo = entry.res] /\ UNCHANGED entry
         ELSE pc' = "finish" /\ entry' = Stale /\ UNCHANGED job
    /\ UNCHANGED <<disk, run, rule, other, amiss>>

\* Bug: the snapshot of the last session stays.
Cleanup_KeepsRun(ok) ==
    /\ pc = "cleanup"
    /\ entry' = (IF ok THEN NoEntry ELSE Stale) /\ UNCHANGED run
    /\ pc' = "finish"
    /\ UNCHANGED <<disk, child, kernel, other, job, amiss>>

\* The staging directory, then the entry and its runtime.
Cleanup(ok) ==
    /\ pc = "cleanup"
    /\ IF ok THEN entry' = NoEntry /\ run' = NoRun ELSE entry' = Stale /\ UNCHANGED run
    /\ pc' = "finish"
    /\ UNCHANGED <<disk, child, kernel, other, job, amiss>>

\* The caller saves; the entry in memory stands whether that works or not.
Finish(ok) ==
    /\ pc = "finish"
    /\ Save(entry, ok)
    /\ pc' = "idle" /\ job' = Rest
    /\ UNCHANGED <<entry, run, child, kernel, other, amiss>>

-----------------------------------------------------------------------------
(* reconcile_network and reapply_dns.                                      *)

Online == run.state = "connected" /\ link # 0

\* Bug: only the policy rules are looked at.
Restorable_Rules == entry.res \cap {"rule"}

Restorable == entry.res \ {"dns"}

\* Only a session whose routes are all on the present link is restored.
NetPass ==
    /\ pc = "idle" /\ entry.state = "applied" /\ Online
    /\ entry.res \cap Pushes # {} => entry.idx = link
    /\ pc' = "restore"
    /\ job' = [Rest EXCEPT !.todo = Restorable, !.idx = entry.idx]
    /\ UNCHANGED <<journals, run, child, kernel, other, amiss>>

Restore(ok) ==
    LET r == First(job.todo)
    IN /\ pc = "restore" /\ job.todo # {}
       /\ IF ok THEN /\ r \in Pushes /\ r \notin net => link = job.idx
                     /\ r = "rule" => rule # "foreign"
                     /\ net' = net \cup ({r} \cap Pushes)
                     /\ rule' = IF r = "rule" THEN "ours" ELSE rule
                     /\ job' = [job EXCEPT !.todo = @ \ {r}] /\ UNCHANGED pc
          ELSE Fail /\ UNCHANGED <<net, rule>>
       /\ UNCHANGED <<journals, run, child, link, other, amiss>>

RestoreDone ==
    /\ pc = "restore" /\ job.todo = {}
    /\ pc' = "idle" /\ job' = Rest
    /\ UNCHANGED <<journals, run, child, kernel, other, amiss>>

\* Every five seconds, for a resolver that came late or restarted.
ReapplyDns(applied, ok) ==
    /\ pc = "idle" /\ entry.state = "applied" /\ "dns" \in entry.res
    /\ Online /\ link = entry.idx
    /\ IF applied THEN net' = net \cup {"dns"} ELSE net' \in DnsLeft
    /\ entry' = [entry EXCEPT !.dnsOn = applied]
    /\ IF entry' = entry THEN ok /\ UNCHANGED disk ELSE Save(entry', ok)
    /\ amiss' = amiss \ {"dns"}
    /\ UNCHANGED <<run, child, link, rule, other, core>>

-----------------------------------------------------------------------------
(* The child, the rest of the daemon and the outside.                      *)

Tell(evs) == queue' = IF tracked THEN queue \o evs ELSE queue

Fresh == CHOOSE i \in 1..4 : i \notin {entry.idx, disk.idx, job.idx}

\* States on the way to a session; of several in a row one will do.
Progress ==
    /\ proc = "down" /\ Len(queue) < MaxQueue
    /\ queue # <<>> => queue[Len(queue)] # "connecting"
    /\ Tell(<<"connecting">>)
    /\ UNCHANGED <<journals, run, proc, tracked, kernel, other, core, amiss>>

\* A session with its push, on the old link or on a new one; addresses and
\* routes may be reported in between.
Establish(p) ==
    /\ proc = "down"
    /\ proc' = "up"
    /\ \E evs \in {<<p, "connected">>, <<p, "connecting", "connected">>} :
          Len(queue) + Len(evs) <= MaxQueue /\ Tell(evs)
    /\ link' = IF link = 0 THEN Fresh ELSE link
    /\ UNCHANGED <<journals, run, tracked, net, rule, other, core, amiss>>

\* A session is lost; the link stays only with persist-tun.
Drop ==
    /\ proc = "up" /\ Len(queue) < MaxQueue
    /\ proc' = "down" /\ Tell(<<"reconnecting">>)
    /\ \/ UNCHANGED <<link, net>>
       \/ link' = 0 /\ net' = {}
    /\ UNCHANGED <<journals, run, tracked, rule, other, core, amiss>>

\* The server refuses the credentials, or the child says that it exits.
LastWords(ev) ==
    /\ proc = "down" /\ Len(queue) < MaxQueue
    /\ proc' = "leaving" /\ Tell(<<ev>>)
    /\ UNCHANGED <<journals, run, tracked, kernel, other, core, amiss>>

ChildDies ==
    /\ proc # "none"
    /\ proc' = "none" /\ link' = 0 /\ net' = {}
    /\ UNCHANGED <<journals, run, tracked, queue, rule, other, core, amiss>>

\* Another full tunnel comes (allocate_full, which saves the whole journal)
\* or goes.
OtherFull ==
    /\ pc = "idle"
    /\ ~other => ~entry.full
    /\ other' = ~other /\ disk' = entry
    /\ UNCHANGED <<entry, run, child, kernel, core, amiss>>

\* The child may outlive the daemon; nobody listens to it any more.
Crash ==
    /\ pc # "down"
    /\ pc' = "down" /\ job' = Rest
    /\ entry' = NoEntry /\ run' = NoRun /\ tracked' = FALSE /\ queue' = <<>>
    /\ amiss' = amiss \ {"session"}
    /\ UNCHANGED <<disk, proc, kernel, other>>

\* open_with_all tears down what the file names.
Restart ==
    /\ pc = "down"
    /\ entry' = disk
    /\ IF disk = NoEntry THEN pc' = "idle" /\ UNCHANGED job ELSE Fail
    /\ UNCHANGED <<disk, run, child, kernel, other, amiss>>

\* Others flush the tunnel's rules or routes, or take the priority; a restart
\* of systemd-resolved forgets the DNS of the link.
NetEdited ==
    /\ \/ rule' = (IF rule = "absent" THEN "foreign" ELSE "absent") /\ UNCHANGED net
       \/ \E r \in net : net' = net \ {r} /\ UNCHANGED rule
    /\ UNCHANGED <<journals, run, child, link, other, core, amiss>>

-----------------------------------------------------------------------------
CoreStep ==
    \/ \E ok \in BOOLEAN :
         /\ \/ Spawn(ok) \/ Started(ok) \/ TakeLink(ok) \/ JournalStep(ok) \/ KernelStep(ok)
            \/ SaveFlag(ok) \/ ClearItem(ok) \/ ClearFailed(ok) \/ ClearDone(ok) \/ Stop(ok) \/ Cleanup(ok)
            \/ Finish(ok) \/ Restore(ok)
         /\ Outcome(ok)
    \/ (PollDone \/ RestoreDone \/ \E how \in {"applied", "unavailable"} : DnsStep(how))
         /\ UNCHANGED troubles
    \/ DnsStep("failed") /\ Outcome(FALSE)
    \/ Taken /\ Outcome(rule = "foreign")

PollAll == Poll(Len(queue)) /\ UNCHANGED troubles
Pass    == NetPass /\ UNCHANGED troubles

Entering ==
    \/ \E ok \in BOOLEAN :
         (Connect(ok) \/ \E applied \in BOOLEAN : ReapplyDns(applied, ok)) /\ Outcome(ok)
    \/ (Disconnect \/ Restart \/ OtherFull \/ \E k \in 0..MaxQueue : Poll(k))
         /\ UNCHANGED troubles

Leave == proc = "leaving" /\ ChildDies /\ UNCHANGED troubles

World ==
    \/ Leave
    \/ (Drop \/ ChildDies \/ Crash \/ NetEdited \/ \E ev \in {"auth", "exiting"} : LastWords(ev))
         /\ Trouble
    \/ (Progress \/ \E p \in Pushes : Establish(p)) /\ UNCHANGED troubles

Next == CoreStep \/ PollAll \/ Pass \/ Entering \/ World

Spec == Init /\ [][Next]_vars

\* The thread in the core finishes what it began, polls keep coming and read
\* all there is, and so do network passes; a child that says it exits does.
FairSpec == Spec /\ WF_vars(CoreStep) /\ SF_vars(PollAll) /\ SF_vars(Pass) /\ WF_vars(Leave)

-----------------------------------------------------------------------------
(* Properties.                                                             *)

AtRest == pc = "idle"

\* What is claimed is what the session asks for.
Followed == entry.res = Desired(run.active)

\* Once the socket is read out, the tunnel has the network of the session it
\* is in, on the link of that session, and none between sessions, although
\* sessions, links and reads come in any order.  Set aside: a poll that reads
\* the loss of a session together with what came after it.
FollowsSession ==
    AtRest /\ entry.state = "applied" /\ queue = <<>> /\ proc # "none" =>
        /\ run.state \in {"connected", "reconnecting"} => Followed
        /\ proc = "up" /\ run.active # "none" => "session" \in amiss \/ entry.idx = link

\* A tunnel the daemon has forgotten left no rule, route or tracked child.
ForgottenIsClean ==
    AtRest /\ entry = NoEntry => net = {} /\ rule # "ours" /\ ~tracked /\ run = NoRun

\* And while there is an entry its parts fit: objects have a link, a rule a
\* full tunnel, DNS that is on a claim.
RecordsAgree == TypeOK /\ ForgottenIsClean

\* Two full tunnels never hold the default route at once, although the other
\* one comes while this one waits for its server's push.
OneFull == ~(other /\ entry.full)

\* A child that died does not leave its tunnel reported as up.
DeadIsResolved ==
    (AtRest /\ entry.state = "applied" /\ proc = "none") ~> (proc # "none" \/ entry.state # "applied")

\* A route flushed from a connected tunnel comes back, or the tunnel fails.
FlushedComesBack ==
    (AtRest /\ entry.state = "applied" /\ "session" \notin amiss /\ (entry.res \cap Pushes) \ net # {})
        ~> (entry.state # "applied" \/ entry.res \cap Pushes \subseteq net \/ "session" \in amiss)

Ledger == INSTANCE RouteLedger
    WITH Owners    <- {"ovpn"},
         Routes    <- Objects,
         claimed   <- [o \in {"ovpn"} |-> disk.res],
         installed <- [o \in {"ovpn"} |-> (net \ amiss) \cup (IF rule = "ours" THEN {"rule"} ELSE {})]

\* No route, rule or DNS setting goes in before its claim is on disk, and no
\* claim is dropped while it is in, whatever fails or crashes.  Set aside: a
\* setting that a failed re-apply left on the link, which a clear passes over.
ImplementsLedger == Ledger!Spec
=============================================================================
