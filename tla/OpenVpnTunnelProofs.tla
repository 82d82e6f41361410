------------------------ MODULE OpenVpnTunnelProofs ------------------------
(***************************************************************************)
(* Proofs about an OpenVPN tunnel: the records agree with the kernel, only *)
(* one full tunnel is up, the network follows the session, and the journal *)
(* on disk is a route ledger.                                              *)
(*                                                                         *)
(* The invariant follows a claim from the file to the kernel and back: the *)
(* file always covers what is on the link, the entry in memory does so     *)
(* while the daemon runs, and each phase of a poll or a teardown knows     *)
(* which part of it is already done.  For the session it adds what the     *)
(* unread events still hold back: a link that is not the journaled one was *)
(* left by a `reconnecting` that nobody has read, or that one poll read    *)
(* together with what came after it.                                       *)
(***************************************************************************)
EXTENDS OpenVpnTunnel, WellFoundedInduction, TLAPS

Snaps == [state : {"none", "connecting", "connected", "reconnecting", "exiting"},
          active : Pushes \cup {"none"}, pending : Pushes \cup {"none"}]

Jobs == [goal : Pushes \cup {"none"}, idx : 0..4, todo : SUBSET Objects,
         teardown : BOOLEAN, present : BOOLEAN]

\* What is in the kernel and accounted for.
Installed == (net \ amiss) \cup (IF rule = "ours" THEN {"rule"} ELSE {})

\* An entry as the code writes it.
Sound(e) ==
    /\ e \in Entry
    /\ e.res # {} => e.idx # 0
    /\ "rule" \in e.res => e.full
    /\ e.dnsOn => "dns" \in e.res
    /\ e.state = "none" => e = NoEntry

\* Shapes.
Shapes ==
    /\ Sound(entry) /\ Sound(disk)
    /\ run \in Snaps
    /\ run.state # "connected" => run.active = "none"
    /\ run.state = "none" => run = NoRun
    /\ proc \in {"none", "down", "up", "leaving"} /\ tracked \in BOOLEAN
    /\ queue \in Seq(Events) /\ Len(queue) <= MaxQueue
    /\ link \in 0..4 /\ net \subseteq Objects \ {"rule"}
    /\ rule \in {"absent", "ours", "foreign"}
    /\ other \in BOOLEAN /\ amiss \subseteq {"session", "dns"}
    /\ pc \in {"down", "idle", "spawn", "started", "clear", "take", "step", "kernel",
               "flag", "stale", "restore", "teardown", "cleanup", "finish"}
    /\ job \in Jobs

\* An entry that covers the kernel: it lists what is there, with the index of
\* the link the routes are on.
Covers(e) ==
    /\ Installed \subseteq e.res
    /\ net \cap Pushes # {} => e.idx = link

\* The file always does, the memory while the daemon runs, and what a clear has
\* still to remove while it clears.
Coverage ==
    /\ Covers(disk)
    /\ pc # "down" => Covers(entry)
    /\ link = 0 => net = {}
    /\ pc = "clear" => Installed \subseteq job.todo

\* The daemon follows the sessions of a child: between polls, or in one.
Following ==
    \/ pc \in {"idle", "restore"} /\ entry.state = "applied"
    \/ pc \in {"take", "step", "kernel", "flag"}
    \/ pc = "clear" /\ ~job.teardown

\* What each phase knows of the entry.
Phases ==
    /\ pc = "down" => entry = NoEntry /\ run = NoRun /\ ~tracked /\ job = Rest
    /\ entry.state = "none" => run = NoRun /\ ~tracked
    /\ pc \in {"spawn", "started"} =>
          entry = [NoEntry EXCEPT !.state = "applying"] /\ disk = entry /\ run = NoRun
    /\ pc = "started" => tracked
    /\ Following => entry.state = "applied" /\ run # NoRun /\ tracked
    /\ pc = "idle" => entry.state # "applying"
    /\ pc = "restore" => entry.state = "applied"
    /\ pc = "teardown" => entry.state # "none" /\ job.teardown
    /\ pc = "clear" => entry.state # "none" /\ job.todo \subseteq entry.res
    /\ pc = "clear" /\ job.teardown => ~tracked /\ net = {}
    /\ pc = "take" => entry.res = {}
    /\ pc \in {"take", "step", "kernel", "flag", "restore"} => ~job.teardown
    /\ pc = "stale" => entry.state = "stale" /\ (job.teardown => ~tracked)
    /\ pc = "cleanup" => entry.state # "none" /\ entry.res = {} /\ ~tracked
    /\ pc = "finish" => entry.state \in {"none", "stale"}

\* A poll that applies the network: what is done, and what is left.  Between
\* the steps of the daemon the file lists what the memory does.
Applying ==
    /\ pc \in {"take", "step", "kernel", "flag"} \/ (pc = "clear" /\ ~job.teardown) =>
          job.goal = run.active /\ run.state \in {"connected", "reconnecting"}
    /\ pc \in {"take", "step", "kernel", "flag"} => job.goal # "none"
    /\ Following /\ pc \notin {"clear", "take"} => disk.res = entry.res /\ disk.idx = entry.idx
    /\ pc \in {"step", "kernel", "flag"} =>
          /\ entry.idx = job.idx /\ entry.idx # 0 /\ entry.full = (job.goal = "full")
          /\ entry.res \cup job.todo = Desired(job.goal)
    /\ pc = "step" => entry.res \cap job.todo = {}
    /\ pc = "kernel" =>
          /\ job.todo # {} /\ entry.res \cap job.todo = {First(job.todo)}
          /\ First(job.todo) \notin Installed
    /\ pc = "flag" => entry.res \cap job.todo = {"dns"}
    /\ pc = "restore" => job.todo \subseteq entry.res /\ job.idx = entry.idx

\* Only one tunnel has the default route, in memory and on disk.
Exclusive ==
    /\ other => ~entry.full /\ ~disk.full
    /\ other /\ pc \in {"clear", "take", "step", "kernel", "flag"} /\ ~job.teardown =>
          job.goal # "full"

\* The network of the last snapshot that decides it.
Sessions ==
    pc \in {"idle", "restore"} /\ entry.state = "applied" =>
        /\ run.state = "connecting" => entry.res = {} \/ "session" \in amiss
        /\ run.state \in {"connected", "reconnecting"} => Followed

\* The events before the j-th leave the snapshot without a session.
NoSession(j) ==
    \/ run.active = "none" /\ \A i \in 1..(j - 1) : queue[i] # "connected"
    \/ \E i \in 1..(j - 1) : /\ queue[i] = "reconnecting"
                             /\ \A m \in i..(j - 1) : queue[m] # "connected"

\* What the unread events say of the child: it is on its way to a session only
\* when it has none.
Heard ==
    /\ ~tracked => queue = <<>>
    /\ \A i \in 1..Len(queue) : queue[i] = "exiting" =>
          i = Len(queue) /\ proc \in {"leaving", "none"}
    /\ run.state = "exiting" /\ Following => queue = <<>> /\ proc \in {"leaving", "none"}
    /\ Following \/ pc = "started" =>
          /\ proc = "down" => NoSession(Len(queue) + 1)
          /\ \A j \in 1..Len(queue) : queue[j] = "connecting" => NoSession(j)

\* The journaled link is the present one, or its loss is still unread.
OnLink ==
    /\ \/ pc \in {"idle", "restore"} /\ entry.state = "applied" /\ "session" \notin amiss
       \/ pc \in {"step", "kernel", "flag"}
    /\ run.active # "none" /\ proc # "none"
    => entry.idx = link \/ \E i \in 1..Len(queue) : queue[i] = "reconnecting"

TunnelInv ==
    Shapes /\ Coverage /\ Phases /\ Applying /\ Exclusive /\ Sessions /\ Heard /\ OnLink

-----------------------------------------------------------------------------
(* Facts about the operators.                                              *)

\* Induction over the naturals, for a set: the least number outside it would
\* be the successor of one inside.
LEMMA SetInduction ==
    ASSUME NEW S, 0 \in S, \A n \in Nat : n \in S => n + 1 \in S
    PROVE  Nat \subseteq S
<1> DEFINE R == {p \in Nat \X Nat : p[1] < p[2]}
<1> DEFINE T == Nat \ S
<1>1. R = OpToRel(<, Nat)
    BY DEF OpToRel
<1>2. IsWellFoundedOn(R, Nat)
    BY <1>1, NatLessThanWellFounded, Zenon
<1>3. ASSUME T # {} PROVE \E x \in T : \A y \in T : ~(<<y, x>> \in R)
    <2>1. T \subseteq Nat OBVIOUS
    <2> HIDE DEF R, T
    <2> QED BY <1>2, <1>3, <2>1, WFMin
<1>4. ASSUME NEW x \in T, \A y \in T : ~(<<y, x>> \in R) PROVE FALSE
    <2>1. x # 0 /\ x \in Nat /\ x - 1 \in Nat OBVIOUS
    <2>2. <<x - 1, x>> \in R BY <2>1
    <2>3. x - 1 \in S BY <1>4, <2>1, <2>2
    <2> QED BY <2>1, <2>3
<1> QED BY <1>3, <1>4

\* The readings of a prefix exist: each is the event applied to the one before.
LEMMA ReadExists ==
    ASSUME NEW k \in Nat
    PROVE  \E a : /\ a = [i \in 0..k |-> IF i = 0 THEN run ELSE Applied(a[i - 1], queue[i])]
                  /\ Read(k) = a[k]
<1> DEFINE G(a, n) == a = [i \in 0..n |-> IF i = 0 THEN run ELSE Applied(a[i - 1], queue[i])]
<1> DEFINE S == {n \in Nat : \E a : G(a, n)}
<1>1. 0 \in S
    <2>1. G([i \in 0..0 |-> run], 0) OBVIOUS
    <2> QED BY <2>1
<1>2. ASSUME NEW n \in Nat, n \in S PROVE n + 1 \in S
    <2>1. PICK a : G(a, n) BY <1>2
    <2>2. \A i \in 0..n : a[i] = IF i = 0 THEN run ELSE Applied(a[i - 1], queue[i]) BY <2>1
    <2> DEFINE b == [i \in 0..(n + 1) |-> IF i = n + 1 THEN Applied(a[n], queue[n + 1]) ELSE a[i]]
    <2>3. ASSUME NEW i \in 0..(n + 1)
          PROVE b[i] = IF i = 0 THEN run ELSE Applied(b[i - 1], queue[i])
        <3>1. CASE i = n + 1 BY <3>1
        <3>2. CASE i # n + 1 BY <3>2, <2>2
        <3> QED BY <3>1, <3>2
    <2>4. G(b, n + 1) BY <2>3
    <2>5. n + 1 \in Nat OBVIOUS
    <2> HIDE DEF b, G
    <2> QED BY <2>4, <2>5
<1>3. k \in S
    <2> HIDE DEF S
    <2> QED BY <1>1, <1>2, SetInduction
<1> QED BY <1>3 DEF Read

\* The events that leave no session, by their number.
LEMMA NoSessionAt ==
    ASSUME NEW n \in Nat, NoSession(n + 1)
    PROVE  \/ run.active = "none" /\ \A i \in 1..n : queue[i] # "connected"
           \/ \E i \in 1..n : queue[i] = "reconnecting" /\ \A m \in i..n : queue[m] # "connected"
<1>1. (n + 1) - 1 = n OBVIOUS
<1> QED BY <1>1 DEF NoSession

\* What one event does to a snapshot.
LEMMA AppliedFacts ==
    ASSUME NEW s \in Snaps, NEW ev \in Events \ {"auth"}
    PROVE  /\ Applied(s, ev) \in Snaps
           /\ ev = "connected" => Applied(s, ev).state = "connected"
           /\ ev = "connecting" =>
                 Applied(s, ev).state = "connecting" /\ Applied(s, ev).active = s.active
           /\ ev \in {"reconnecting", "exiting"} =>
                 Applied(s, ev).state = ev /\ Applied(s, ev).active = "none"
           /\ ev \in Pushes =>
                 Applied(s, ev).state = s.state /\ Applied(s, ev).active = s.active
BY DEF Applied, Snaps, Events, Pushes

\* What a prefix of the unread events makes of the snapshot, for every length
\* of the prefix.
LEMMA ReadFacts ==
    ASSUME run \in Snaps, run.state # "connected" => run.active = "none",
           queue \in Seq(Events), NEW k \in 0..Len(queue),
           \A i \in 1..k : queue[i] # "auth",
           \A j \in 1..k : queue[j] = "connecting" => NoSession(j)
    PROVE  /\ Read(k) \in Snaps
           /\ Read(k).state # "connected" => Read(k).active = "none"
           /\ run.state # "none" => Read(k).state # "none"
           /\ Read(k).state = "connecting" =>
                 run.state = "connecting" \/ \E i \in 1..k : queue[i] = "connecting"
           /\ Read(k).state = "exiting" =>
                 run.state = "exiting" \/ \E i \in 1..k : queue[i] = "exiting"
           /\ k = 0 => Read(k) = run
           /\ Read(k).active # "none" =>
                 /\ run.active # "none" \/ \E i \in 1..k : queue[i] = "connected"
                 /\ \A i \in 1..k : queue[i] = "reconnecting" =>
                       \E j \in 1..k : i < j /\ queue[j] = "connected"
<1>1. PICK a : /\ a = [i \in 0..k |-> IF i = 0 THEN run ELSE Applied(a[i - 1], queue[i])]
               /\ Read(k) = a[k]
    BY ReadExists
<1>2. a[0] = run /\ \A i \in 1..k : a[i] = Applied(a[i - 1], queue[i])
    BY <1>1
<1>3. \A i \in 1..k : queue[i] \in Events \ {"auth"}
    OBVIOUS
<1> DEFINE P(n) ==
    /\ a[n] \in Snaps
    /\ a[n].state # "connected" => a[n].active = "none"
    /\ run.state # "none" => a[n].state # "none"
    /\ a[n].state = "connecting" =>
          run.state = "connecting" \/ \E i \in 1..n : queue[i] = "connecting"
    /\ a[n].state = "exiting" => run.state = "exiting" \/ \E i \in 1..n : queue[i] = "exiting"
    /\ a[n].active # "none" => \A i \in 1..n : queue[i] = "reconnecting" =>
          \E j \in 1..n : i < j /\ queue[j] = "connected"
    /\ a[n].active # "none" => run.active # "none" \/ \E i \in 1..n : queue[i] = "connected"
<1> DEFINE S == {n \in Nat : n <= k => P(n)}
<1>4. 0 \in S
    BY <1>2
<1>5. ASSUME NEW n \in Nat, n \in S PROVE n + 1 \in S
    <2> SUFFICES ASSUME n + 1 <= k PROVE P(n + 1) OBVIOUS
    <2>1. P(n) BY <1>5
    <2>2. a[n + 1] = Applied(a[n], queue[n + 1]) /\ queue[n + 1] \in Events \ {"auth"}
        BY <1>2, <1>3
    <2>3. 1..(n + 1) = 1..n \cup {n + 1} OBVIOUS
    <2>4. /\ a[n + 1] \in Snaps
          /\ queue[n + 1] = "connected" => a[n + 1].state = "connected"
          /\ queue[n + 1] \in {"reconnecting", "exiting"} =>
                a[n + 1].state = queue[n + 1] /\ a[n + 1].active = "none"
          /\ queue[n + 1] = "connecting" =>
                a[n + 1].state = "connecting" /\ a[n + 1].active = a[n].active
          /\ queue[n + 1] \in Pushes =>
                a[n + 1].state = a[n].state /\ a[n + 1].active = a[n].active
        BY <2>1, <2>2, AppliedFacts
    <2>5. CASE queue[n + 1] = "connected"
        BY <2>1, <2>3, <2>4, <2>5
    <2>6. CASE queue[n + 1] \in {"reconnecting", "exiting"}
        BY <2>1, <2>3, <2>4, <2>6
    <2>7. CASE queue[n + 1] \in Pushes
        BY <2>1, <2>3, <2>4, <2>7 DEF Pushes
    <2>8. CASE queue[n + 1] = "connecting"
        <3>1. NoSession(n + 1)
            <4>1. n + 1 \in 1..k OBVIOUS
            <4> QED BY <2>8, <4>1
        <3>3. a[n].active = "none"
            <4>1. CASE run.active = "none" /\ \A i \in 1..n : queue[i] # "connected"
                BY <2>1, <4>1
            <4>2. CASE \E i \in 1..n : /\ queue[i] = "reconnecting"
                                       /\ \A m \in i..n : queue[m] # "connected"
                <5>1. PICK i \in 1..n : /\ queue[i] = "reconnecting"
                                        /\ \A m \in i..n : queue[m] # "connected"
                    BY <4>2
                <5>2. \A j \in 1..n : i < j => j \in i..n OBVIOUS
                <5> QED BY <2>1, <5>1, <5>2
            <4> QED BY <3>1, <4>1, <4>2, NoSessionAt
        <3> QED BY <2>1, <2>3, <2>4, <2>8, <3>3
    <2> QED BY <2>2, <2>5, <2>6, <2>7, <2>8 DEF Events
<1>6. P(k)
    <2>1. Nat \subseteq S
        <3> HIDE DEF S
        <3> QED BY <1>4, <1>5, SetInduction
    <2> QED BY <2>1
<1> QED BY <1>1, <1>2, <1>6

\* The next resource to add and the next to remove are among those left.
LEMMA FirstLast ==
    ASSUME NEW todo \in SUBSET Objects, todo # {}
    PROVE  First(todo) \in todo /\ Last(todo) \in todo
<1>1. \A r \in todo : /\ r \in Pushes => Rank(r) = 1
                      /\ r = "rule" => Rank(r) = 2
                      /\ r = "dns" => Rank(r) = 3
    BY DEF Rank, Objects, Pushes
<1>2. \A r \in todo : r \in Pushes \/ r = "rule" \/ r = "dns"
    BY DEF Objects
<1>3. \A r \in todo : Rank(r) \in 1..3
    BY <1>1, <1>2
<1>4. \E r \in todo : \A s \in todo : Rank(r) <= Rank(s)
    <2>1. CASE \E r \in todo : Rank(r) = 1 BY <2>1, <1>3
    <2>2. CASE (\A r \in todo : Rank(r) # 1) /\ \E r \in todo : Rank(r) = 2 BY <2>2, <1>3
    <2>3. CASE \A r \in todo : Rank(r) # 1 /\ Rank(r) # 2 BY <2>3, <1>3
    <2> QED BY <2>1, <2>2, <2>3
<1>5. \E r \in todo : \A s \in todo : Rank(r) >= Rank(s)
    <2>1. CASE \E r \in todo : Rank(r) = 3 BY <2>1, <1>3
    <2>2. CASE (\A r \in todo : Rank(r) # 3) /\ \E r \in todo : Rank(r) = 2 BY <2>2, <1>3
    <2>3. CASE \A r \in todo : Rank(r) # 3 /\ Rank(r) # 2 BY <2>3, <1>3
    <2> QED BY <2>1, <2>2, <2>3
<1> QED BY <1>4, <1>5 DEF First, Last

\* What a push asks for: routes, a rule only for a full tunnel.
LEMMA DesiredFacts ==
    ASSUME NEW push \in Pushes \cup {"none"}
    PROVE  /\ Desired(push) \subseteq Objects
           /\ "rule" \in Desired(push) => push = "full"
           /\ push # "none" => Desired(push) # {}
           /\ Desired("none") = {}
BY DEF Desired, Objects, Pushes

\* The entries the steps put together are sound.
LEMMA SoundEntries ==
    /\ Sound(NoEntry)
    /\ Sound([NoEntry EXCEPT !.state = "applying"])
    /\ \A e : Sound(e) /\ e.state # "none" =>
          /\ \A st \in {"applying", "applied", "stale"} : Sound([e EXCEPT !.state = st])
          /\ Sound([e EXCEPT !.res = {}, !.full = FALSE, !.idx = 0, !.dnsOn = FALSE])
          /\ \A i \in 0..4, f \in BOOLEAN : e.res = {} => Sound([e EXCEPT !.full = f, !.idx = i])
          /\ \A r \in Objects : e.idx # 0 /\ (r = "rule" => e.full) =>
                Sound([e EXCEPT !.res = @ \cup {r}])
          /\ \A r \in Objects \ {"dns"} : Sound([e EXCEPT !.res = @ \ {r}])
          /\ \A b \in BOOLEAN : "dns" \in e.res => Sound([e EXCEPT !.dnsOn = b])
<1>0. 0 \in 0..4 OBVIOUS
<1>1. Sound(NoEntry) /\ Sound([NoEntry EXCEPT !.state = "applying"])
    BY <1>0 DEF Sound, NoEntry, Entry
<1> SUFFICES ASSUME NEW e, Sound(e), e.state # "none"
    PROVE /\ \A st \in {"applying", "applied", "stale"} : Sound([e EXCEPT !.state = st])
          /\ Sound([e EXCEPT !.res = {}, !.full = FALSE, !.idx = 0, !.dnsOn = FALSE])
          /\ \A i \in 0..4, f \in BOOLEAN : e.res = {} => Sound([e EXCEPT !.full = f, !.idx = i])
          /\ \A r \in Objects : e.idx # 0 /\ (r = "rule" => e.full) =>
                Sound([e EXCEPT !.res = @ \cup {r}])
          /\ \A r \in Objects \ {"dns"} : Sound([e EXCEPT !.res = @ \ {r}])
          /\ \A b \in BOOLEAN : "dns" \in e.res => Sound([e EXCEPT !.dnsOn = b])
    BY <1>1
<1>2. \A st \in {"applying", "applied", "stale"} : Sound([e EXCEPT !.state = st])
    BY DEF Sound, Entry
<1>3. Sound([e EXCEPT !.res = {}, !.full = FALSE, !.idx = 0, !.dnsOn = FALSE])
    BY <1>0 DEF Sound, Entry
<1>4. \A i \in 0..4, f \in BOOLEAN : e.res = {} => Sound([e EXCEPT !.full = f, !.idx = i])
    BY DEF Sound, Entry
<1>5. \A r \in Objects : e.idx # 0 /\ (r = "rule" => e.full) => Sound([e EXCEPT !.res = @ \cup {r}])
    BY DEF Sound, Entry
<1>6. \A r \in Objects \ {"dns"} : Sound([e EXCEPT !.res = @ \ {r}])
    BY DEF Sound, Entry
<1>7. \A b \in BOOLEAN : "dns" \in e.res => Sound([e EXCEPT !.dnsOn = b])
    BY DEF Sound, Entry
<1> QED BY <1>2, <1>3, <1>4, <1>5, <1>6, <1>7

\* The operands the steps put together.
LEMMA JobTypes ==
    /\ Rest \in Jobs /\ [Rest EXCEPT !.teardown = TRUE] \in Jobs
    /\ \A g \in Pushes \cup {"none"}, t \in SUBSET Objects, p \in BOOLEAN :
          [Rest EXCEPT !.goal = g, !.todo = t, !.present = p] \in Jobs
    /\ \A t \in SUBSET Objects, i \in 0..4 : [Rest EXCEPT !.todo = t, !.idx = i] \in Jobs
    /\ \A j \in Jobs, t \in SUBSET Objects :
          /\ [j EXCEPT !.todo = t] \in Jobs
          /\ \A i \in 0..4 : [j EXCEPT !.idx = i, !.todo = t] \in Jobs
          /\ \A r : [j EXCEPT !.todo = @ \ {r}] \in Jobs
<1>0. 0 \in 0..4 OBVIOUS
<1>1. Rest \in Jobs /\ [Rest EXCEPT !.teardown = TRUE] \in Jobs
    BY <1>0 DEF Rest, Jobs
<1>2. \A g \in Pushes \cup {"none"}, t \in SUBSET Objects, p \in BOOLEAN :
          [Rest EXCEPT !.goal = g, !.todo = t, !.present = p] \in Jobs
    BY <1>0 DEF Rest, Jobs
<1>3. \A t \in SUBSET Objects, i \in 0..4 : [Rest EXCEPT !.todo = t, !.idx = i] \in Jobs
    BY <1>0 DEF Rest, Jobs
<1> QED BY <1>1, <1>2, <1>3 DEF Jobs

\* Where nothing is accounted for there are no routes.
LEMMA NothingOn ==
    ASSUME Shapes, Installed = {}
    PROVE  net \cap Pushes = {} /\ rule # "ours"
BY DEF Shapes, Installed, Pushes

\* An index nobody remembers exists.
LEMMA FreshIndex ==
    ASSUME Shapes
    PROVE  Fresh \in 1..4 /\ Fresh \notin {entry.idx, disk.idx, job.idx}
<1>1. entry.idx \in 0..4 /\ disk.idx \in 0..4 /\ job.idx \in 0..4
    BY DEF Shapes, Sound, Entry, Jobs
<1>2. \E i \in 1..4 : i \notin {entry.idx, disk.idx, job.idx}
    <2>1. 1 \in 1..4 /\ 2 \in 1..4 /\ 3 \in 1..4 /\ 4 \in 1..4 OBVIOUS
    <2> QED BY <1>1, <2>1
<1> QED BY <1>2 DEF Fresh

\* The invariant holds of a daemon that starts on an empty file.
LEMMA InitTunnel == Init => TunnelInv
<1> SUFFICES ASSUME Init PROVE TunnelInv OBVIOUS
<1> USE DEF Init
<1>1. Shapes
    <2>1. Sound(entry) /\ Sound(disk) BY SoundEntries
    <2>2. job \in Jobs BY JobTypes
    <2>3. queue \in Seq(Events) /\ Len(queue) <= MaxQueue BY OpenVpnAssumption
    <2>4. run \in Snaps BY DEF NoRun, Snaps
    <2>5. other \in BOOLEAN /\ tracked \in BOOLEAN BY Zenon
    <2> QED BY <2>1, <2>2, <2>3, <2>4, <2>5 DEF Shapes, NoRun
<1>2. Coverage /\ Exclusive
    BY DEF Coverage, Covers, Installed, NoEntry, Exclusive
<1>3. Phases /\ Applying /\ Sessions
    BY DEF Phases, Applying, Following, Sessions, NoEntry, NoRun
<1>4. Heard /\ OnLink
    BY DEF Heard, OnLink, Following, NoEntry, NoRun
<1> QED BY <1>1, <1>2, <1>3, <1>4 DEF TunnelInv

-----------------------------------------------------------------------------
(* What the parts of the invariant depend on.                              *)

\* Steps of the daemon leave the child alone: what was heard of it stays true
\* in the phases that follow it.
LEMMA KeepsHeard ==
    ASSUME Heard, UNCHANGED <<proc, tracked, queue, run>>,
           Following' => Following, pc' # "started"
    PROVE  Heard'
BY DEF Heard, NoSession

\* A phase that follows nobody has nothing to say of sessions and links.
LEMMA NotFollowing ==
    ASSUME ~Following'
    PROVE  Sessions' /\ OnLink'
BY DEF Sessions, OnLink, Following

\* Every way into the teardown leaves the kernel and the child alone.
LEMMA FailInv ==
    ASSUME TunnelInv, pc # "down", entry.state # "none", Fail, UNCHANGED <<kernel, other>>,
           Shapes', Covers(entry)', Covers(disk)',
           entry' = entry \/ /\ entry.state = "applied" /\ entry'.state = "applied"
                             /\ entry'.dnsOn = entry.dnsOn,
           other => ~entry'.full /\ ~disk'.full,
           (run' # NoRun) => (run # NoRun),
           UNCHANGED <<proc, tracked>>, ~tracked => queue' = queue,
           \A i \in 1..Len(queue') : queue'[i] = "exiting" =>
              i = Len(queue') /\ proc \in {"leaving", "none"}
    PROVE  TunnelInv'
<1>0. pc' = "teardown" /\ job' = [Rest EXCEPT !.teardown = TRUE] /\ job'.teardown
    BY DEF Fail, Rest
<1>1. ~Following'
    BY <1>0 DEF Following
<1>2. entry'.state # "none" /\ entry'.dnsOn = entry.dnsOn
    OBVIOUS
<1>3. Coverage'
    BY <1>0, <1>2 DEF TunnelInv, Coverage, Covers, kernel
<1>4. Phases'
    BY <1>0, <1>1, <1>2 DEF Phases
<1>5. Applying' /\ Exclusive'
    BY <1>0, <1>1 DEF Applying, Exclusive
<1>6. Heard'
    BY <1>0, <1>1 DEF TunnelInv, Heard
<1> QED BY <1>1, <1>3, <1>4, <1>5, <1>6, NotFollowing DEF TunnelInv

-----------------------------------------------------------------------------
(* connect_openvpn.                                                        *)

\* The entry is on disk before a child is spawned.
LEMMA ConnectInv ==
    ASSUME TunnelInv, NEW ok \in BOOLEAN, Connect(ok)
    PROVE  TunnelInv'
<1> DEFINE e == [NoEntry EXCEPT !.state = "applying"]
<1>0. /\ pc = "idle" /\ entry = NoEntry /\ disk' \in {disk, e}
      /\ \/ entry' = e /\ pc' = "spawn" /\ disk' = e
         \/ entry' = entry /\ pc' = pc
      /\ UNCHANGED <<run, proc, tracked, queue, link, net, rule, other, job, amiss>>
    BY DEF Connect, Save, child, kernel
<1>1. /\ Sound(e) /\ Sound(NoEntry) /\ e.res = {} /\ e.state = "applying" /\ ~e.full
      /\ NoEntry.res = {} /\ NoEntry.state = "none" /\ ~NoEntry.full
    BY SoundEntries DEF NoEntry
<1>2. run = NoRun /\ ~tracked
    BY <1>0, <1>1 DEF TunnelInv, Phases
<1>3. Installed = {} /\ Installed' = {} /\ net \cap Pushes = {}
    <2>1. Installed = {} BY <1>0, <1>1 DEF TunnelInv, Coverage, Covers
    <2>2. Installed' = Installed BY <1>0 DEF Installed
    <2> QED BY <2>1, <2>2, NothingOn DEF TunnelInv
<1> HIDE DEF e
<1>4. Shapes'
    BY <1>0, <1>1 DEF TunnelInv, Shapes
<1>5. Coverage'
    BY <1>0, <1>1, <1>2, <1>3 DEF TunnelInv, Coverage, Covers
<1>6. ~Following'
    BY <1>0, <1>1 DEF Following
<1>7. Phases'
    BY <1>0, <1>1, <1>2, <1>6 DEF TunnelInv, Phases, e
<1>8. Applying' /\ Exclusive'
    BY <1>0, <1>1, <1>6 DEF TunnelInv, Applying, Exclusive
<1>9. Heard'
    BY <1>0, <1>6, KeepsHeard DEF TunnelInv
<1> QED BY <1>4, <1>5, <1>6, <1>7, <1>8, <1>9, NotFollowing DEF TunnelInv

\* A child that is spawned has told nothing; one that is not may be about.
LEMMA SpawnInv ==
    ASSUME TunnelInv, NEW ok \in BOOLEAN, Spawn(ok)
    PROVE  TunnelInv'
<1>0. /\ pc = "spawn" /\ queue' = <<>> /\ proc' \in {"none", "down"}
      /\ \/ tracked' = TRUE /\ pc' = "started" /\ job' = job
         \/ tracked' = tracked /\ pc' = "teardown" /\ job' = [Rest EXCEPT !.teardown = TRUE]
      /\ UNCHANGED <<entry, disk, run, link, net, rule, other, amiss>>
    BY DEF Spawn, Fail, journals, kernel
<1>1. /\ entry = [NoEntry EXCEPT !.state = "applying"] /\ run = NoRun /\ disk = entry
      /\ entry.state = "applying" /\ run.active = "none" /\ run.state = "none"
      /\ [Rest EXCEPT !.teardown = TRUE].teardown
    BY <1>0 DEF TunnelInv, Phases, NoEntry, NoRun, Rest
<1>2. Shapes'
    <2>1. job' \in Jobs BY <1>0, JobTypes DEF TunnelInv, Shapes
    <2>2. queue' \in Seq(Events) /\ Len(queue') <= MaxQueue BY <1>0, OpenVpnAssumption
    <2>3. tracked' \in BOOLEAN BY <1>0, Zenon DEF TunnelInv, Shapes
    <2> QED BY <1>0, <2>1, <2>2, <2>3 DEF TunnelInv, Shapes
<1>3. Coverage'
    BY <1>0, <1>1 DEF TunnelInv, Coverage, Covers, Installed
<1>4. ~Following'
    BY <1>0, <1>1 DEF Following
<1>5. Phases'
    BY <1>0, <1>1, <1>4 DEF TunnelInv, Phases
<1>6. Applying' /\ Exclusive'
    BY <1>0, <1>1, <1>4 DEF TunnelInv, Applying, Exclusive
<1>7. Heard'
    BY <1>0, <1>1, <1>4 DEF Heard, NoSession
<1> QED BY <1>2, <1>3, <1>4, <1>5, <1>6, <1>7, NotFollowing DEF TunnelInv

\* A tunnel is up, waiting for its first session, with nothing claimed.
LEMMA StartedInv ==
    ASSUME TunnelInv, NEW ok \in BOOLEAN, Started(ok)
    PROVE  TunnelInv'
<1>0. /\ pc = "started" /\ pc' = "idle" /\ job' = Rest /\ run' = NewRun
      /\ entry' = [entry EXCEPT !.state = "applied"] /\ disk' \in {disk, entry'}
      /\ UNCHANGED <<proc, tracked, queue, link, net, rule, other, amiss>>
    BY DEF Started, Save, child, kernel
<1>1. /\ entry = [NoEntry EXCEPT !.state = "applying"] /\ disk = entry /\ tracked
      /\ run = NoRun /\ run.active = "none"
    BY <1>0 DEF TunnelInv, Phases, NoRun
<1>2. /\ entry'.state = "applied" /\ entry'.res = {} /\ entry'.idx = 0 /\ ~entry'.full
      /\ disk'.res = {} /\ disk'.idx = 0 /\ ~disk'.full /\ entry.res = {}
    BY <1>0, <1>1 DEF NoEntry
<1>3. /\ run' \in Snaps /\ run'.state = "connecting" /\ run'.active = "none" /\ run' # NoRun
    BY <1>0 DEF NewRun, NoRun, Snaps
<1>4. Shapes'
    <2>1. Sound(entry') /\ Sound(disk')
        <3>1. entry.state = "applying" BY <1>1 DEF NoEntry
        <3> QED BY <1>0, <3>1, SoundEntries DEF TunnelInv, Shapes
    <2> QED BY <1>0, <1>3, <2>1, JobTypes DEF TunnelInv, Shapes
<1>5. Coverage'
    <2>1. Installed = {} BY <1>0, <1>1, <1>2 DEF TunnelInv, Coverage, Covers
    <2>2. Installed' = Installed BY <1>0 DEF Installed
    <2>3. net \cap Pushes = {} BY <2>1, NothingOn DEF TunnelInv
    <2> QED BY <1>0, <1>2, <2>1, <2>2, <2>3 DEF TunnelInv, Coverage, Covers
<1>6. Phases' /\ Applying' /\ Exclusive' /\ Sessions'
    BY <1>0, <1>1, <1>2, <1>3 DEF TunnelInv, Phases, Applying, Exclusive, Sessions, Following
<1>7. Heard'
    BY <1>0, <1>1, <1>2, <1>3 DEF TunnelInv, Heard, Following, NoSession
<1>8. OnLink'
    BY <1>3 DEF OnLink
<1> QED BY <1>4, <1>5, <1>6, <1>7, <1>8 DEF TunnelInv

-----------------------------------------------------------------------------
(* reconcile_openvpn_owner.                                                *)

\* What is left of the unread events.
LEMMA QueueRest ==
    ASSUME queue \in Seq(Events), NEW k \in 0..Len(queue),
           queue' = SubSeq(queue, k + 1, Len(queue))
    PROVE  /\ queue' \in Seq(Events) /\ Len(queue') = Len(queue) - k
           /\ \A i \in 1..(Len(queue) - k) : queue'[i] = queue[i + k]
           /\ k = Len(queue) => queue' = <<>>
OBVIOUS

\* Reading k events keeps what the ones before the j-th say.
LEMMA NoSessionRead ==
    ASSUME queue \in Seq(Events), NEW k \in 0..Len(queue), Len(queue') = Len(queue) - k,
           \A i \in 1..(Len(queue) - k) : queue'[i] = queue[i + k],
           run'.active # "none" =>
              /\ run.active # "none" \/ \E i \in 1..k : queue[i] = "connected"
              /\ \A i \in 1..k : queue[i] = "reconnecting" =>
                    \E j \in 1..k : i < j /\ queue[j] = "connected",
           NEW j \in (k + 1)..(Len(queue) + 1), NoSession(j)
    PROVE  NoSession(j - k)'
<1>0. \A i \in 1..(j - k - 1) : i + k \in 1..(j - 1) /\ queue'[i] = queue[i + k]
    OBVIOUS
<1>1. CASE run.active = "none" /\ \A i \in 1..(j - 1) : queue[i] # "connected"
    <2>1. \A i \in 1..k : i \in 1..(j - 1) OBVIOUS
    <2>2. run'.active = "none" BY <1>1, <2>1
    <2> QED BY <1>0, <1>1, <2>2 DEF NoSession
<1>2. ASSUME NEW i \in 1..(j - 1), queue[i] = "reconnecting",
             \A m \in i..(j - 1) : queue[m] # "connected"
      PROVE  NoSession(j - k)'
    <2>1. CASE i > k
        <3>1. i - k \in 1..(j - k - 1) /\ (i - k) + k = i BY <2>1
        <3>2. \A m \in (i - k)..(j - k - 1) : m + k \in i..(j - 1) /\ m \in 1..(j - k - 1)
            BY <3>1
        <3> QED BY <1>0, <1>2, <3>1, <3>2 DEF NoSession
    <2>2. CASE i <= k
        <3>1. i \in 1..k /\ \A m \in 1..k : i < m => m \in i..(j - 1) BY <2>2
        <3>2. run'.active = "none" BY <1>2, <3>1
        <3>3. \A m \in 1..(j - k - 1) : m + k \in i..(j - 1) BY <2>2
        <3> QED BY <1>0, <1>2, <3>2, <3>3 DEF NoSession
    <2> QED BY <2>1, <2>2
<1> QED BY <1>1, <1>2 DEF NoSession

\* A poll gives up a tunnel, waits, finds the network in order, or begins to
\* replace it.
LEMMA PollCases ==
    ASSUME TunnelInv, NEW k \in Nat, Poll(k)
    PROVE  /\ pc = "idle" /\ entry.state = "applied" /\ run # NoRun /\ k \in 0..Len(queue)
           /\ queue' = SubSeq(queue, k + 1, Len(queue))
           /\ UNCHANGED <<entry, disk, proc, tracked, link, net, rule, other>>
           /\ \/ PollFails(k) /\ Fail /\ run' = run /\ amiss' = amiss
              \/ /\ ~PollFails(k) /\ run' = Read(k) /\ amiss' = (IF Merges(k) THEN amiss \cup {"session"} ELSE amiss)
                 /\ \/ ~Acts(run') /\ pc' = pc /\ job' = job
                    \/ Acts(run') /\ Fail
                    \/ Acts(run') /\ InSync(run'.active) /\ pc' = pc /\ job' = job
                    \/ /\ Acts(run') /\ ~FullRefused(run'.active) /\ pc' = "clear"
                       /\ job' = [Rest EXCEPT !.goal = run'.active, !.todo = entry.res,
                                              !.present = (link # 0)]
<1>1. k \in 0..Len(queue)
    BY DEF Poll, TunnelInv, Shapes
<1>2. CASE PollFails(k)
    BY <1>1, <1>2 DEF Poll, journals, kernel
<1>3. CASE ~PollFails(k) /\ ~Acts(Read(k))
    BY <1>1, <1>3 DEF Poll, journals, kernel, core
<1>4. CASE ~PollFails(k) /\ Acts(Read(k)) /\ FullRefused(Read(k).active)
    BY <1>1, <1>4 DEF Poll, journals, kernel
<1>5. CASE ~PollFails(k) /\ Acts(Read(k)) /\ ~FullRefused(Read(k).active) /\ InSync(Read(k).active)
    BY <1>1, <1>5 DEF Poll, journals, kernel, core
<1>6. CASE ~PollFails(k) /\ Acts(Read(k)) /\ ~FullRefused(Read(k).active) /\ ~InSync(Read(k).active)
    BY <1>1, <1>6 DEF Poll, journals, kernel
<1> QED BY <1>2, <1>3, <1>4, <1>5, <1>6

\* A poll acts on the snapshot after the events it read, and what it left
\* unread still accounts for a link that has changed.
LEMMA PollInv ==
    ASSUME TunnelInv, NEW k \in Nat, Poll(k)
    PROVE  TunnelInv'
<1>0. /\ pc = "idle" /\ entry.state = "applied" /\ run # NoRun /\ k \in 0..Len(queue)
      /\ UNCHANGED <<entry, disk, proc, tracked, link, net, rule, other>>
    BY PollCases
<1>1. /\ queue' \in Seq(Events) /\ Len(queue') = Len(queue) - k
      /\ \A i \in 1..(Len(queue) - k) : queue'[i] = queue[i + k]
      /\ k = Len(queue) => queue' = <<>>
      /\ Len(queue) \in Nat /\ Len(queue) <= MaxQueue /\ queue \in Seq(Events)
    BY PollCases, QueueRest DEF TunnelInv, Shapes
<1>2. \A i \in 1..Len(queue') : queue'[i] = "exiting" =>
         i = Len(queue') /\ proc \in {"leaving", "none"}
    BY <1>0, <1>1 DEF TunnelInv, Heard
<1>m. Len(queue') <= MaxQueue
    BY <1>0, <1>1, OpenVpnAssumption
<1>3. ~tracked => queue' = queue
    <2>1. ~tracked => queue = <<>> /\ k = 0
        BY <1>0 DEF TunnelInv, Heard
    <2> QED BY <2>1, <1>1
<1>4. CASE PollFails(k) /\ Fail /\ run' = run /\ amiss' = amiss
    <2>1. Shapes'
        BY <1>0, <1>1, <1>m, <1>4, JobTypes DEF TunnelInv, Shapes, Fail
    <2>2. Covers(entry)' /\ Covers(disk)'
        BY <1>0, <1>4 DEF TunnelInv, Coverage, Covers, Installed
    <2> QED BY <1>0, <1>2, <1>3, <1>4, <2>1, <2>2, FailInv DEF TunnelInv, Exclusive, kernel
<1>5. ASSUME ~PollFails(k), run' = Read(k),
             amiss' = (IF Merges(k) THEN amiss \cup {"session"} ELSE amiss)
      PROVE  TunnelInv'
    <2>0. \A j \in 1..Len(queue) : queue[j] = "connecting" => NoSession(j)
        BY <1>0 DEF TunnelInv, Heard, Following
    <2>1. /\ run' \in Snaps
          /\ run'.state # "connected" => run'.active = "none"
          /\ run.state # "none" => run'.state # "none"
          /\ run'.state = "connecting" =>
                run.state = "connecting" \/ \E i \in 1..k : queue[i] = "connecting"
          /\ run'.state = "exiting" =>
                run.state = "exiting" \/ \E i \in 1..k : queue[i] = "exiting"
          /\ k = 0 => run' = run
          /\ run'.active # "none" =>
                /\ run.active # "none" \/ \E i \in 1..k : queue[i] = "connected"
                /\ \A i \in 1..k : queue[i] = "reconnecting" =>
                      \E j \in 1..k : i < j /\ queue[j] = "connected"
        <3>1. /\ run \in Snaps /\ (run.state # "connected" => run.active = "none")
              /\ \A i \in 1..k : queue[i] # "auth"
            BY <1>5 DEF TunnelInv, Shapes, PollFails
        <3>2. \A j \in 1..k : queue[j] = "connecting" => NoSession(j)
            BY <1>0, <1>1, <2>0
        <3>3. /\ Read(k) \in Snaps
              /\ Read(k).state # "connected" => Read(k).active = "none"
              /\ run.state # "none" => Read(k).state # "none"
              /\ Read(k).state = "connecting" =>
                    run.state = "connecting" \/ \E i \in 1..k : queue[i] = "connecting"
              /\ Read(k).state = "exiting" =>
                    run.state = "exiting" \/ \E i \in 1..k : queue[i] = "exiting"
              /\ k = 0 => Read(k) = run
              /\ Read(k).active # "none" =>
                    /\ run.active # "none" \/ \E i \in 1..k : queue[i] = "connected"
                    /\ \A i \in 1..k : queue[i] = "reconnecting" =>
                          \E j \in 1..k : i < j /\ queue[j] = "connected"
            BY <1>0, <1>1, <3>1, <3>2, ReadFacts
        <3> QED BY <3>3, <1>5
    <2>2. run.state # "none" /\ run'.state # "none" /\ run' # NoRun
        BY <1>0, <2>1 DEF TunnelInv, Shapes, NoRun
    <2>3. job' \in Jobs /\ pc' \in {"idle", "clear", "teardown"} => Shapes'
        <3>1. amiss' \subseteq {"session", "dns"} BY <1>5 DEF TunnelInv, Shapes
        <3> QED BY <1>0, <1>1, <1>m, <2>1, <2>2, <3>1 DEF TunnelInv, Shapes
    <2>4. Installed' = Installed /\ Covers(entry)' /\ Covers(disk)'
        <3>1. net \ amiss' = net \ amiss BY <1>5 DEF TunnelInv, Shapes, Objects, Pushes
        <3> QED BY <1>0, <3>1 DEF TunnelInv, Coverage, Covers, Installed
    <2>5. CASE Fail
        <3>1. Shapes' BY <2>3, <2>5, JobTypes DEF Fail
        <3> QED BY <1>0, <1>2, <1>3, <2>4, <2>5, <3>1, FailInv DEF TunnelInv, Exclusive, kernel
    <2>6. run'.state = "exiting" => queue' = <<>> /\ proc \in {"leaving", "none"}
        <3>1. CASE run.state = "exiting"
            <4>1. queue = <<>> /\ proc \in {"leaving", "none"}
                BY <1>0, <3>1 DEF TunnelInv, Heard, Following
            <4> QED BY <1>0, <1>1, <4>1
        <3>2. CASE \E i \in 1..k : queue[i] = "exiting"
            BY <1>0, <1>1, <3>2 DEF TunnelInv, Heard
        <3> QED BY <2>1, <3>1, <3>2
    <2>7. ASSUME NEW j \in (k + 1)..(Len(queue) + 1), NoSession(j) PROVE NoSession(j - k)'
        BY <1>0, <1>1, <2>1, <2>7, NoSessionRead
    <2>w. /\ proc' = "down" => NoSession(Len(queue) + 1)'
          /\ \A j \in 1..Len(queue') : queue'[j] = "connecting" => NoSession(j)'
        <3>1. ASSUME proc = "down" PROVE NoSession(Len(queue) + 1)'
            <4>1. NoSession(Len(queue) + 1)
                BY <1>0, <3>1 DEF TunnelInv, Heard, Following
            <4>2. Len(queue) + 1 \in (k + 1)..(Len(queue) + 1) BY <1>0, <1>1
            <4>3. PICK m \in (k + 1)..(Len(queue) + 1) : m = Len(queue) + 1 BY <4>2
            <4>4. NoSession(m) BY <4>1, <4>3
            <4>5. NoSession(m - k)' BY <2>7, <4>4
            <4>6. m - k = Len(queue') + 1 BY <1>0, <1>1, <4>3
            <4> QED BY <4>5, <4>6 DEF NoSession
        <3>3. ASSUME NEW j \in 1..Len(queue'), queue'[j] = "connecting" PROVE NoSession(j)'
            <4>1. /\ j \in 1..(Len(queue) - k) /\ j + k \in 1..Len(queue)
                  /\ j + k \in (k + 1)..(Len(queue) + 1) /\ (j + k) - k = j
                BY <1>0, <1>1
            <4>2. queue[j + k] = "connecting" BY <1>1, <3>3, <4>1
            <4>3. NoSession(j + k) BY <2>0, <4>1, <4>2
            <4>4. NoSession((j + k) - k)' BY <2>7, <4>1, <4>3
            <4> QED BY <4>1, <4>4
        <3> QED BY <1>0, <3>1, <3>3
    <2>8. CASE pc' = pc /\ job' = job /\ (~Acts(run') \/ InSync(run'.active))
        <3>1. Shapes' BY <1>0, <2>3, <2>8 DEF TunnelInv, Shapes
        <3>2. Coverage' BY <1>0, <2>2, <2>4, <2>8 DEF TunnelInv, Coverage
        <3>3. Phases' /\ Applying' /\ Exclusive'
            BY <1>0, <2>2, <2>8 DEF TunnelInv, Phases, Applying, Exclusive, Following
        <3>4. Sessions'
            <4>1. run'.state \in {"connected", "reconnecting"} => Followed'
                BY <1>0, <2>8 DEF Followed, Acts, InSync
            <4>2. ASSUME run'.state = "connecting" PROVE entry.res = {} \/ "session" \in amiss'
                <5>1. CASE \E i \in 1..k : queue[i] = "connecting"
                    <6>1. PICK i \in 1..k : queue[i] = "connecting" BY <5>1
                    <6>2. i \in 1..Len(queue) /\ NoSession(i) BY <1>0, <1>1, <2>0, <6>1
                    <6>3. CASE \E h \in 1..(i - 1) : queue[h] = "reconnecting"
                        <7>1. Merges(k) BY <6>1, <6>3 DEF Merges
                        <7> QED BY <1>5, <7>1
                    <6>4. CASE run.active = "none"
                        <7>1. run.state # "exiting"
                            <8>1. queue # <<>> BY <6>2
                            <8> QED BY <1>0, <8>1 DEF TunnelInv, Heard, Following
                        <7>2. run.state \in {"connecting", "connected", "reconnecting"}
                            BY <2>2, <7>1 DEF TunnelInv, Shapes, Snaps
                        <7>3. entry.res = {} \/ "session" \in amiss
                            BY <1>0, <6>4, <7>2, DesiredFacts DEF TunnelInv, Sessions, Followed
                        <7> QED BY <1>5, <7>3
                    <6> QED BY <6>2, <6>3, <6>4 DEF NoSession
                <5>2. CASE run.state = "connecting"
                    BY <1>0, <1>5, <5>2 DEF TunnelInv, Sessions
                <5> QED BY <2>1, <4>2, <5>1, <5>2
            <4> QED BY <1>0, <4>1, <4>2 DEF Sessions
        <3>5. Heard'
            BY <1>0, <1>2, <1>3, <2>6, <2>w, <2>8 DEF TunnelInv, Heard
        <3>6. OnLink'
            <4> SUFFICES ASSUME "session" \notin amiss', run'.active # "none", proc # "none"
                         PROVE  entry.idx = link \/ \E i \in 1..Len(queue') : queue'[i] = "reconnecting"
                BY <1>0, <2>8 DEF OnLink
            <4>1. "session" \notin amiss /\ ~Merges(k) BY <1>5
            <4>2. \A i \in 1..k : queue[i] # "reconnecting" BY <2>1, <4>1 DEF Merges
            <4>3. run'.state = "connected" /\ entry.res = Desired(run'.active) /\ entry.res # {}
                <5>1. run'.active \in Pushes \cup {"none"} BY <2>1 DEF Snaps
                <5>2. run'.state = "connected" BY <2>1
                <5>3. InSync(run'.active) BY <5>2, <2>8 DEF Acts
                <5> QED BY <5>1, <5>2, <5>3, DesiredFacts DEF InSync
            <4>4. run.active # "none"
                <5> SUFFICES ASSUME run.active = "none" PROVE FALSE OBVIOUS
                <5>1. run.state \in {"connecting", "connected", "reconnecting", "exiting"}
                    BY <2>2 DEF TunnelInv, Shapes, Snaps
                <5>2. run.state \in {"connecting", "connected", "reconnecting"} => entry.res = {}
                    BY <1>0, <4>1, DesiredFacts DEF TunnelInv, Sessions, Followed
                <5>3. run.state = "exiting" => queue = <<>>
                    BY <1>0 DEF TunnelInv, Heard, Following
                <5>4. queue = <<>> => run' = run BY <1>0, <2>1
                <5> QED BY <4>3, <5>1, <5>2, <5>3, <5>4
            <4>5. entry.idx = link \/ \E i \in 1..Len(queue) : queue[i] = "reconnecting"
                BY <1>0, <4>1, <4>4 DEF TunnelInv, OnLink
            <4>6. ASSUME NEW i \in 1..Len(queue), queue[i] = "reconnecting"
                  PROVE  \E j \in 1..Len(queue') : queue'[j] = "reconnecting"
                <5>1. i > k BY <4>2, <4>6, <1>0
                <5>2. i - k \in 1..(Len(queue) - k) /\ (i - k) + k = i BY <5>1, <1>0, <1>1
                <5> QED BY <1>1, <4>6, <5>2
            <4> QED BY <4>5, <4>6
        <3> QED BY <3>1, <3>2, <3>3, <3>4, <3>5, <3>6 DEF TunnelInv
    <2>9. CASE /\ Acts(run') /\ ~FullRefused(run'.active) /\ pc' = "clear"
               /\ job' = [Rest EXCEPT !.goal = run'.active, !.todo = entry.res,
                                      !.present = (link # 0)]
        <3>0. /\ job'.goal = run'.active /\ job'.todo = entry.res /\ ~job'.teardown
              /\ job' \in Jobs
            <4>1. run'.active \in Pushes \cup {"none"} BY <2>1 DEF Snaps
            <4>2. entry.res \in SUBSET Objects BY DEF TunnelInv, Shapes, Sound, Entry
            <4>3. (link # 0) \in BOOLEAN OBVIOUS
            <4>4. job' \in Jobs BY <2>9, <4>1, <4>2, <4>3, JobTypes
            <4> QED BY <2>9, <4>4 DEF Rest
        <3>1. Shapes' BY <2>3, <2>9, <3>0
        <3>2. Coverage' BY <1>0, <2>2, <2>4, <2>9, <3>0 DEF TunnelInv, Coverage, Covers
        <3>3. Phases'
            BY <1>0, <2>2, <2>9, <3>0 DEF TunnelInv, Phases, Following
        <3>4. Applying' /\ Exclusive'
            BY <1>0, <2>2, <2>9, <3>0
               DEF TunnelInv, Applying, Exclusive, Following, Acts, FullRefused
        <3>5. Sessions' /\ OnLink' BY <2>9 DEF Sessions, OnLink
        <3>6. Heard'
            BY <1>0, <1>2, <1>3, <2>6, <2>w, <2>9 DEF TunnelInv, Heard
        <3> QED BY <3>1, <3>2, <3>3, <3>4, <3>5, <3>6 DEF TunnelInv
    <2> QED BY <1>5, <2>5, <2>8, <2>9, PollCases
<1> QED BY <1>4, <1>5, PollCases

\* What holds in every step of a poll that applies a network.
LEMMA StepFacts ==
    ASSUME TunnelInv, pc \in {"take", "step", "kernel", "flag"}
    PROVE  /\ entry.state = "applied" /\ run # NoRun /\ tracked /\ ~job.teardown
           /\ job.goal = run.active /\ job.goal \in Pushes /\ job.goal # "none"
           /\ run.state \in {"connected", "reconnecting"}
           /\ Sound(entry) /\ Sound(disk) /\ job \in Jobs /\ job.todo \in SUBSET Objects
           /\ Covers(entry) /\ Covers(disk)
           /\ job.todo # {} => First(job.todo) \in job.todo /\ First(job.todo) \in Objects
<1>1. job \in Jobs /\ Sound(entry) /\ Sound(disk)
    BY DEF TunnelInv, Shapes
<1>2. job.todo \in SUBSET Objects /\ job.goal \in Pushes \cup {"none"}
    BY <1>1 DEF Jobs
<1>3. entry.state = "applied" /\ run # NoRun /\ tracked /\ ~job.teardown
    BY DEF TunnelInv, Phases, Following
<1>4. /\ job.goal = run.active /\ job.goal \in Pushes /\ job.goal # "none" /\ run.state \in {"connected", "reconnecting"}
    BY <1>2, <1>3 DEF TunnelInv, Applying
<1>5. Covers(entry) /\ Covers(disk)
    BY DEF TunnelInv, Coverage
<1>6. job.todo # {} => First(job.todo) \in job.todo
    BY <1>2, FirstLast
<1> QED BY <1>1, <1>2, <1>3, <1>4, <1>5, <1>6

\* The index of the link goes to disk before anything is put on it.
LEMMA TakeLinkInv ==
    ASSUME TunnelInv, NEW ok \in BOOLEAN, TakeLink(ok)
    PROVE  TunnelInv'
<1> DEFINE e == [entry EXCEPT !.full = (job.goal = "full"), !.idx = link]
<1>0. /\ pc = "take"
      /\ \/ Fail /\ UNCHANGED <<entry, disk>>
         \/ link # 0 /\ entry' = e /\ disk' \in {disk, e} /\ Fail
         \/ /\ link # 0 /\ entry' = e /\ disk' = e /\ pc' = "step"
            /\ job' = [job EXCEPT !.idx = link, !.todo = Desired(job.goal)]
      /\ UNCHANGED <<run, proc, tracked, queue, link, net, rule, other, amiss>>
    <2>1. CASE link = 0 BY <2>1 DEF TakeLink, journals, child, kernel
    <2>2. CASE link # 0 /\ ok BY <2>2 DEF TakeLink, Save, child, kernel
    <2>3. CASE link # 0 /\ ~ok BY <2>3 DEF TakeLink, Save, child, kernel
    <2> QED BY <2>1, <2>2, <2>3
<1>1. /\ entry.state = "applied" /\ run # NoRun /\ tracked /\ ~job.teardown
      /\ job.goal = run.active /\ job.goal \in Pushes /\ job.goal # "none" /\ run.state \in {"connected", "reconnecting"}
      /\ Sound(entry) /\ Sound(disk) /\ job \in Jobs /\ Covers(entry) /\ Covers(disk)
      /\ entry.res = {} /\ link \in 0..4
    BY <1>0, StepFacts DEF TunnelInv, Phases, Shapes
<1>2. /\ Sound(e) /\ e.state = "applied" /\ e.res = {} /\ e.idx = link /\ e.full = (job.goal = "full")
      /\ e.dnsOn = entry.dnsOn
    <2>1. (job.goal = "full") \in BOOLEAN OBVIOUS
    <2>2. Sound(e) BY <1>1, <2>1, SoundEntries
    <2> QED BY <1>1, <2>2 DEF Sound, Entry
<1>3. Installed = {} /\ Installed' = {} /\ net \cap Pushes = {}
    <2>1. Installed = {} BY <1>1 DEF Covers
    <2>2. Installed' = Installed BY <1>0 DEF Installed
    <2> QED BY <2>1, <2>2, NothingOn DEF TunnelInv
<1>4. /\ entry' = entry \/ entry' = e
      /\ disk' = disk \/ disk' = e
    BY <1>0
<1>5. other => ~entry.full /\ ~disk.full /\ ~e.full
    BY <1>0, <1>1, <1>2 DEF TunnelInv, Exclusive
<1>6. Sound(entry') /\ Sound(disk') /\ Covers(entry)' /\ Covers(disk)'
    BY <1>0, <1>1, <1>2, <1>3, <1>4 DEF Covers
<1> HIDE DEF e
<1>7. CASE Fail
    <2>1. Shapes'
        BY <1>0, <1>6, <1>7, JobTypes DEF TunnelInv, Shapes, Fail
    <2>2. \A i \in 1..Len(queue') : queue'[i] = "exiting" =>
             i = Len(queue') /\ proc \in {"leaving", "none"}
        BY <1>0 DEF TunnelInv, Heard
    <2> QED BY <1>0, <1>1, <1>2, <1>4, <1>5, <1>6, <1>7, <2>1, <2>2, FailInv DEF kernel
<1>8. CASE /\ link # 0 /\ entry' = e /\ disk' = e /\ pc' = "step"
           /\ job' = [job EXCEPT !.idx = link, !.todo = Desired(job.goal)]
    <2>0. /\ job' \in Jobs /\ job'.idx = link /\ job'.todo = Desired(job.goal)
          /\ job'.goal = job.goal /\ ~job'.teardown
        <3>1. Desired(job.goal) \in SUBSET Objects BY <1>1, DesiredFacts
        <3>2. job' \in Jobs BY <1>1, <1>8, <3>1, JobTypes
        <3> QED BY <1>1, <1>8, <3>2 DEF Jobs
    <2>1. Shapes' BY <1>0, <1>6, <1>8, <2>0 DEF TunnelInv, Shapes
    <2>2. Coverage' BY <1>0, <1>1, <1>3, <1>6, <1>8 DEF TunnelInv, Coverage
    <2>3. Phases' BY <1>0, <1>1, <1>2, <1>8, <2>0 DEF TunnelInv, Phases, Following
    <2>4. Applying' BY <1>0, <1>1, <1>2, <1>8, <2>0 DEF Applying, Following
    <2>5. Exclusive' BY <1>0, <1>2, <1>5, <1>8, <2>0 DEF TunnelInv, Exclusive
    <2>6. Sessions' /\ OnLink' BY <1>2, <1>8, <1>0 DEF Sessions, OnLink
    <2>7. Following BY <1>0 DEF Following
    <2>8. Heard' BY <1>0, <1>8, <2>7, KeepsHeard DEF TunnelInv
    <2> QED BY <2>1, <2>2, <2>3, <2>4, <2>5, <2>6, <2>8 DEF TunnelInv
<1> QED BY <1>0, <1>7, <1>8

\* Each resource is on disk before the kernel is asked for it.
LEMMA JournalStepInv ==
    ASSUME TunnelInv, NEW ok \in BOOLEAN, JournalStep(ok)
    PROVE  TunnelInv'
<1> DEFINE r == First(job.todo)
<1> DEFINE e == [entry EXCEPT !.res = @ \cup {r}]
<1>0. /\ pc = "step" /\ job.todo # {}
      /\ \/ Fail /\ entry' = entry /\ disk' \in {disk, e}
         \/ entry' = e /\ disk' = e /\ pc' = "kernel" /\ job' = job
      /\ UNCHANGED <<run, proc, tracked, queue, link, net, rule, other, amiss>>
    <2>1. CASE ok BY <2>1 DEF JournalStep, Save, child, kernel
    <2>2. CASE ~ok BY <2>2 DEF JournalStep, Save, child, kernel
    <2> QED BY <2>1, <2>2
<1>1. /\ entry.state = "applied" /\ run # NoRun /\ tracked /\ ~job.teardown
      /\ job.goal = run.active /\ job.goal \in Pushes /\ job.goal # "none" /\ run.state \in {"connected", "reconnecting"}
      /\ Sound(entry) /\ Sound(disk) /\ job \in Jobs /\ Covers(entry) /\ Covers(disk)
      /\ r \in job.todo /\ r \in Objects
    BY <1>0, StepFacts
<1>2. /\ entry.idx = job.idx /\ entry.idx # 0 /\ entry.full = (job.goal = "full")
      /\ entry.res \cup job.todo = Desired(job.goal) /\ entry.res \cap job.todo = {}
    BY <1>0 DEF TunnelInv, Applying
<1>3. r = "rule" => entry.full
    BY <1>1, <1>2, DesiredFacts
<1>4. /\ Sound(e) /\ e.state = "applied" /\ e.res = entry.res \cup {r} /\ e.idx = entry.idx
      /\ e.full = entry.full /\ e.dnsOn = entry.dnsOn
    <2>1. Sound(e) BY <1>1, <1>2, <1>3, SoundEntries
    <2> QED BY <1>1, <2>1 DEF Sound, Entry
<1>5. Installed' = Installed /\ Installed \subseteq entry.res /\ r \notin Installed
    BY <1>0, <1>1, <1>2 DEF Covers, Installed
<1>6. /\ entry' = entry \/ entry' = e
      /\ disk' = disk \/ disk' = e
    BY <1>0
<1>7. other => ~entry.full /\ ~disk.full /\ ~e.full
    BY <1>4 DEF TunnelInv, Exclusive
<1>8. Sound(entry') /\ Sound(disk') /\ Covers(entry)' /\ Covers(disk)'
    BY <1>0, <1>1, <1>4, <1>5, <1>6 DEF Covers
<1> HIDE DEF e, r
<1>9. CASE Fail /\ entry' = entry
    <2>1. Shapes'
        BY <1>0, <1>8, <1>9, JobTypes DEF TunnelInv, Shapes, Fail
    <2>2. \A i \in 1..Len(queue') : queue'[i] = "exiting" =>
             i = Len(queue') /\ proc \in {"leaving", "none"}
        BY <1>0 DEF TunnelInv, Heard
    <2> QED BY <1>0, <1>1, <1>6, <1>7, <1>8, <1>9, <2>1, <2>2, FailInv DEF kernel
<1>10. CASE entry' = e /\ disk' = e /\ pc' = "kernel" /\ job' = job
    <2>1. Shapes' BY <1>0, <1>8, <1>10 DEF TunnelInv, Shapes
    <2>2. Coverage' BY <1>0, <1>1, <1>4, <1>8, <1>10 DEF TunnelInv, Coverage
    <2>3. Phases' BY <1>0, <1>1, <1>4, <1>10 DEF TunnelInv, Phases, Following
    <2>4. Applying'
        <3>1. e.res \cap job.todo = {r} /\ e.res \cup job.todo = Desired(job.goal)
            BY <1>1, <1>2, <1>4
        <3> QED BY <1>0, <1>1, <1>2, <1>4, <1>5, <1>10, <3>1 DEF Applying, r
    <2>5. Exclusive' BY <1>0, <1>7, <1>10 DEF TunnelInv, Exclusive
    <2>6. Sessions' /\ OnLink'
        BY <1>4, <1>10, <1>0 DEF TunnelInv, Sessions, OnLink
    <2>7. Following BY <1>0 DEF Following
    <2>8. Heard' BY <1>0, <1>10, <2>7, KeepsHeard DEF TunnelInv
    <2> QED BY <2>1, <2>2, <2>3, <2>4, <2>5, <2>6, <2>8 DEF TunnelInv
<1> QED BY <1>0, <1>9, <1>10

\* What holds while the kernel is asked for a resource: it is claimed in memory
\* and on disk, and not there yet.
LEMMA KernelFacts ==
    ASSUME TunnelInv, pc \in {"kernel", "flag"}
    PROVE  /\ entry.state = "applied" /\ run # NoRun /\ tracked /\ ~job.teardown
           /\ job.goal = run.active /\ job.goal \in Pushes /\ job.goal # "none"
           /\ run.state \in {"connected", "reconnecting"}
           /\ Sound(entry) /\ Sound(disk) /\ job \in Jobs /\ Covers(entry) /\ Covers(disk)
           /\ disk.res = entry.res /\ disk.idx = entry.idx
           /\ entry.idx = job.idx /\ entry.idx # 0 /\ entry.full = (job.goal = "full")
           /\ entry.res \cup job.todo = Desired(job.goal)
           /\ Following
           /\ \A i \in 1..Len(queue) : queue[i] = "exiting" =>
                 i = Len(queue) /\ proc \in {"leaving", "none"}
           /\ pc = "kernel" => /\ First(job.todo) \in Objects
                               /\ entry.res \cap job.todo = {First(job.todo)}
                               /\ First(job.todo) \notin Installed
           /\ pc = "flag" => entry.res \cap job.todo = {"dns"}
<1>1. Following
    BY DEF Following
<1>2. /\ disk.res = entry.res /\ disk.idx = entry.idx
      /\ entry.idx = job.idx /\ entry.idx # 0 /\ entry.full = (job.goal = "full")
      /\ entry.res \cup job.todo = Desired(job.goal)
      /\ pc = "kernel" => /\ job.todo # {} /\ entry.res \cap job.todo = {First(job.todo)}
                          /\ First(job.todo) \notin Installed
      /\ pc = "flag" => entry.res \cap job.todo = {"dns"}
    BY <1>1 DEF TunnelInv, Applying
<1>3. \A i \in 1..Len(queue) : queue[i] = "exiting" =>
         i = Len(queue) /\ proc \in {"leaving", "none"}
    BY DEF TunnelInv, Heard
<1> QED BY <1>1, <1>2, <1>3, StepFacts

\* A failure in a step of the kernel: the file covers what the kernel may have.
LEMMA StepFails ==
    ASSUME TunnelInv, pc \in {"kernel", "flag", "restore"}, Fail, entry.state = "applied",
           UNCHANGED <<run, proc, tracked, queue, link, other, disk>>,
           amiss' \subseteq {"session", "dns"},
           Sound(entry'), net' \subseteq Objects \ {"rule"}, rule' \in {"absent", "ours", "foreign"},
           entry'.state = "applied", entry'.dnsOn = entry.dnsOn, entry'.full = entry.full,
           Covers(entry)', Covers(disk)', link = 0 => net' = {}
    PROVE  TunnelInv'
<1>0. pc' = "teardown" /\ job' = [Rest EXCEPT !.teardown = TRUE] /\ job'.teardown
    BY DEF Fail, Rest
<1>1. ~Following'
    BY <1>0 DEF Following
<1>2. Shapes'
    BY <1>0, JobTypes DEF TunnelInv, Shapes
<1>3. Coverage'
    BY <1>0 DEF TunnelInv, Coverage
<1>4. Phases'
    BY <1>0, <1>1 DEF Phases
<1>5. Applying' /\ Exclusive'
    BY <1>0, <1>1 DEF TunnelInv, Applying, Exclusive
<1>6. Heard'
    BY <1>0, <1>1 DEF TunnelInv, Heard
<1> QED BY <1>1, <1>2, <1>3, <1>4, <1>5, <1>6, NotFollowing DEF TunnelInv

\* A claim that is taken back was not installed.
LEMMA TakenInv ==
    ASSUME TunnelInv, Taken
    PROVE  TunnelInv'
<1> DEFINE r == First(job.todo)
<1>0. /\ pc = "kernel" /\ r # "dns" /\ entry' = [entry EXCEPT !.res = @ \ {r}] /\ Fail
      /\ UNCHANGED <<disk, run, proc, tracked, queue, link, net, rule, other, amiss>>
    BY DEF Taken, child, kernel
<1>1. /\ entry.state = "applied" /\ Sound(entry) /\ Covers(entry) /\ Covers(disk)
      /\ r \in Objects /\ r \notin Installed
    BY <1>0, KernelFacts
<1> HIDE DEF r
<1>2. /\ Sound(entry') /\ entry'.state = "applied" /\ entry'.dnsOn = entry.dnsOn
      /\ entry'.full = entry.full /\ entry'.res = entry.res \ {r} /\ entry'.idx = entry.idx
    <2>1. Sound(entry') BY <1>0, <1>1, SoundEntries
    <2> QED BY <1>0, <1>1, <2>1 DEF Sound, Entry
<1>3. Covers(entry)' /\ Covers(disk)'
    BY <1>0, <1>1, <1>2 DEF Covers, Installed
<1> QED BY <1>0, <1>1, <1>2, <1>3, StepFails DEF TunnelInv, Shapes, Coverage

\* The kernel is asked for what both journals claim, on the journaled link.
LEMMA KernelStepInv ==
    ASSUME TunnelInv, NEW ok \in BOOLEAN, KernelStep(ok)
    PROVE  TunnelInv'
<1> DEFINE r == First(job.todo)
<1>1. /\ entry.state = "applied" /\ run # NoRun /\ tracked /\ ~job.teardown
      /\ job.goal = run.active /\ job.goal \in Pushes /\ job.goal # "none"
      /\ run.state \in {"connected", "reconnecting"}
      /\ Sound(entry) /\ Sound(disk) /\ job \in Jobs /\ Covers(entry) /\ Covers(disk)
      /\ disk.res = entry.res /\ disk.idx = entry.idx
      /\ entry.idx = job.idx /\ entry.idx # 0 /\ entry.full = (job.goal = "full")
      /\ entry.res \cup job.todo = Desired(job.goal)
      /\ Following /\ pc = "kernel"
      /\ r \in Objects /\ entry.res \cap job.todo = {r} /\ r \in entry.res /\ r \in job.todo
    BY KernelFacts DEF KernelStep
<1>0. /\ r # "dns"
      /\ \/ /\ r \in Pushes /\ link = job.idx /\ net' \in {net, net \cup {r}} /\ rule' = rule
         \/ r = "rule" /\ net' = net /\ rule' \in {rule, "ours"}
         \/ net' = net /\ rule' = rule
      /\ \/ Fail
         \/ pc' = "step" /\ job' = [job EXCEPT !.todo = @ \ {r}]
      /\ UNCHANGED <<entry, disk, run, proc, tracked, queue, link, other, amiss>>
    <2>1. r \in Pushes => r # "rule" BY DEF Pushes
    <2> QED BY <2>1 DEF KernelStep, Settled, journals, child
<1> HIDE DEF r
<1>2. /\ net' \subseteq Objects \ {"rule"} /\ rule' \in {"absent", "ours", "foreign"}
      /\ amiss' \subseteq {"session", "dns"}
      /\ link = 0 => net' = {}
      /\ Installed' \subseteq Installed \cup {r}
    <2>1. link = 0 => net = {} BY DEF TunnelInv, Coverage
    <2>2. r \in Pushes => r # "rule" BY DEF Pushes
    <2> QED BY <1>0, <1>1, <2>1, <2>2 DEF TunnelInv, Shapes, Installed
<1>3. Covers(entry)' /\ Covers(disk)'
    <2>1. net' \cap Pushes # {} => net \cap Pushes # {} \/ link = job.idx
        BY <1>0
    <2> QED BY <1>0, <1>1, <1>2, <2>1 DEF Covers
<1>4. CASE Fail
    BY <1>0, <1>1, <1>2, <1>3, <1>4, StepFails
<1>5. CASE pc' = "step" /\ job' = [job EXCEPT !.todo = @ \ {r}]
    <2>0. /\ job' \in Jobs /\ job'.todo = job.todo \ {r} /\ job'.goal = job.goal
          /\ job'.idx = job.idx /\ ~job'.teardown
        <3>1. job' \in Jobs
            <4>1. job.todo \in SUBSET Objects BY <1>1 DEF Jobs
            <4> QED BY <1>1, <1>5, <4>1, JobTypes
        <3> QED BY <1>1, <1>5, <3>1 DEF Jobs
    <2>1. Shapes' BY <1>0, <1>2, <1>5, <2>0 DEF TunnelInv, Shapes
    <2>2. Coverage' BY <1>0, <1>1, <1>2, <1>3, <1>5 DEF TunnelInv, Coverage
    <2>3. Phases' BY <1>0, <1>1, <1>5, <2>0 DEF TunnelInv, Phases, Following
    <2>4. Applying'
        <3>1. entry.res \cap job'.todo = {} /\ entry.res \cup job'.todo = Desired(job.goal)
            BY <1>1, <2>0
        <3> QED BY <1>0, <1>1, <1>5, <2>0, <3>1 DEF Applying
    <2>5. Exclusive' BY <1>0, <1>1, <1>5, <2>0 DEF TunnelInv, Exclusive
    <2>6. Sessions' /\ OnLink'
        BY <1>0, <1>1, <1>5 DEF TunnelInv, Sessions, OnLink
    <2>8. Heard' BY <1>0, <1>1, <1>5, KeepsHeard DEF TunnelInv
    <2> QED BY <2>1, <2>2, <2>3, <2>4, <2>5, <2>6, <2>8 DEF TunnelInv
<1> QED BY <1>0, <1>4, <1>5

\* DNS is claimed on disk before the resolver is asked, and known in memory
\* once it is on.
LEMMA DnsStepInv ==
    ASSUME TunnelInv, NEW how \in {"applied", "unavailable", "failed"}, DnsStep(how)
    PROVE  TunnelInv'
<1>1. /\ entry.state = "applied" /\ run # NoRun /\ tracked /\ ~job.teardown
      /\ job.goal = run.active /\ job.goal \in Pushes /\ job.goal # "none"
      /\ run.state \in {"connected", "reconnecting"}
      /\ Sound(entry) /\ Sound(disk) /\ job \in Jobs /\ Covers(entry) /\ Covers(disk)
      /\ disk.res = entry.res /\ disk.idx = entry.idx
      /\ entry.idx = job.idx /\ entry.idx # 0 /\ entry.full = (job.goal = "full")
      /\ entry.res \cup job.todo = Desired(job.goal)
      /\ Following /\ pc = "kernel"
      /\ entry.res \cap job.todo = {"dns"} /\ "dns" \in entry.res /\ "dns" \in job.todo
    BY KernelFacts DEF DnsStep
<1>0. /\ \/ /\ link # 0 /\ net' = net \cup {"dns"} /\ entry' = [entry EXCEPT !.dnsOn = TRUE]
            /\ pc' = "flag" /\ job' = job
         \/ /\ pc' = "step" /\ job' = [job EXCEPT !.todo = @ \ {"dns"}]
            /\ net' = net /\ entry' = entry
         \/ Fail /\ net' \in DnsLeft /\ entry' = entry
      /\ amiss' = amiss \ {"dns"}
      /\ UNCHANGED <<disk, run, proc, tracked, queue, link, rule, other>>
    <2>1. CASE how = "applied" BY <2>1 DEF DnsStep, child
    <2>2. CASE how = "unavailable" BY <2>2 DEF DnsStep, child, Settled
    <2>3. CASE how = "failed" BY <2>3 DEF DnsStep, child
    <2> QED BY <2>1, <2>2, <2>3
<1>t. amiss' \subseteq {"session", "dns"}
    BY <1>0 DEF TunnelInv, Shapes
<1>2. CASE Fail /\ net' \in DnsLeft /\ entry' = entry
    <2>1. /\ net' \cap Pushes = net \cap Pushes /\ Installed' \subseteq Installed \cup {"dns"}
          /\ net' \subseteq Objects \ {"rule"} /\ (link = 0 => net' = {})
        BY <1>0, <1>2 DEF TunnelInv, Shapes, Coverage, DnsLeft, Installed, Pushes, Objects
    <2>2. Covers(entry)' /\ Covers(disk)' BY <1>0, <1>1, <1>2, <2>1 DEF Covers
    <2> QED BY <1>0, <1>1, <1>t, <1>2, <2>1, <2>2, StepFails DEF TunnelInv, Shapes
<1>3. CASE /\ pc' = "step" /\ job' = [job EXCEPT !.todo = @ \ {"dns"}]
           /\ net' = net /\ entry' = entry
    <2>0. /\ job' \in Jobs /\ job'.todo = job.todo \ {"dns"} /\ job'.goal = job.goal
          /\ job'.idx = job.idx /\ ~job'.teardown
        <3>1. job' \in Jobs
            <4>1. job.todo \in SUBSET Objects BY <1>1 DEF Jobs
            <4> QED BY <1>1, <1>3, <4>1, JobTypes
        <3> QED BY <1>1, <1>3, <3>1 DEF Jobs
    <2>1. Shapes' BY <1>0, <1>t, <1>3, <2>0 DEF TunnelInv, Shapes
    <2>2. Coverage'
        <3>1. Installed' \subseteq Installed \cup {"dns"} BY <1>0, <1>3 DEF Installed
        <3>2. Covers(entry)' /\ Covers(disk)' BY <1>0, <1>1, <1>3, <3>1 DEF Covers
        <3> QED BY <1>0, <1>1, <1>3, <3>2 DEF TunnelInv, Coverage
    <2>3. Phases' BY <1>0, <1>1, <1>3, <2>0 DEF TunnelInv, Phases, Following
    <2>4. Applying'
        <3>1. entry.res \cap job'.todo = {} /\ entry.res \cup job'.todo = Desired(job.goal)
            BY <1>1, <2>0
        <3> QED BY <1>0, <1>1, <1>3, <2>0, <3>1 DEF Applying
    <2>5. Exclusive' BY <1>0, <1>1, <1>3, <2>0 DEF TunnelInv, Exclusive
    <2>6. Sessions' /\ OnLink'
        BY <1>0, <1>1, <1>3 DEF TunnelInv, Sessions, OnLink
    <2>8. Heard' BY <1>0, <1>1, <1>3, KeepsHeard DEF TunnelInv
    <2> QED BY <2>1, <2>2, <2>3, <2>4, <2>5, <2>6, <2>8 DEF TunnelInv
<1>4. CASE /\ link # 0 /\ net' = net \cup {"dns"} /\ entry' = [entry EXCEPT !.dnsOn = TRUE]
           /\ pc' = "flag" /\ job' = job
    <2>0. /\ Sound(entry') /\ entry'.state = "applied" /\ entry'.dnsOn = TRUE
          /\ entry'.full = entry.full /\ entry'.res = entry.res /\ entry'.idx = entry.idx
        <3>1. TRUE \in BOOLEAN BY Zenon
        <3>2. Sound(entry') BY <1>1, <1>4, <3>1, SoundEntries
        <3> QED BY <1>1, <1>4, <3>2 DEF Sound, Entry
    <2>1. Shapes' BY <1>0, <1>t, <1>4, <2>0 DEF TunnelInv, Shapes, Objects
    <2>2. Coverage'
        <3>1. net' \cap Pushes = net \cap Pushes BY <1>4 DEF Pushes
        <3>2. Installed' = Installed \cup {"dns"} BY <1>0, <1>4 DEF Installed
        <3>3. Covers(entry)' /\ Covers(disk)' BY <1>0, <1>1, <2>0, <3>1, <3>2 DEF Covers
        <3> QED BY <1>0, <1>4, <2>0, <3>3 DEF Coverage
    <2>3. Phases' BY <1>0, <1>1, <1>4, <2>0 DEF TunnelInv, Phases, Following
    <2>4. Applying' BY <1>0, <1>1, <1>4, <2>0 DEF Applying
    <2>5. Exclusive' BY <1>0, <1>1, <1>4, <2>0 DEF TunnelInv, Exclusive
    <2>6. Sessions' /\ OnLink'
        BY <1>0, <1>1, <1>4, <2>0 DEF TunnelInv, Sessions, OnLink
    <2>8. Heard' BY <1>0, <1>1, <1>4, KeepsHeard DEF TunnelInv
    <2> QED BY <2>1, <2>2, <2>3, <2>4, <2>5, <2>6, <2>8 DEF TunnelInv
<1> QED BY <1>0, <1>2, <1>3, <1>4

\* The flag of DNS may be lost with its save; the claim is not.
LEMMA SaveFlagInv ==
    ASSUME TunnelInv, NEW ok \in BOOLEAN, SaveFlag(ok)
    PROVE  TunnelInv'
<1>0. /\ pc = "flag" /\ pc' = "step" /\ job' = [job EXCEPT !.todo = @ \ {"dns"}]
      /\ disk' = disk \/ disk' = entry
      /\ UNCHANGED <<entry, run, proc, tracked, queue, link, net, rule, other, amiss>>
    BY DEF SaveFlag, Save, Settled, child, kernel
<1>1. /\ entry.state = "applied" /\ run # NoRun /\ tracked /\ ~job.teardown
      /\ job.goal = run.active /\ job.goal \in Pushes /\ job.goal # "none"
      /\ run.state \in {"connected", "reconnecting"}
      /\ Sound(entry) /\ Sound(disk) /\ job \in Jobs /\ Covers(entry) /\ Covers(disk)
      /\ disk.res = entry.res /\ disk.idx = entry.idx
      /\ entry.idx = job.idx /\ entry.idx # 0 /\ entry.full = (job.goal = "full")
      /\ entry.res \cup job.todo = Desired(job.goal)
      /\ Following
      /\ entry.res \cap job.todo = {"dns"} /\ "dns" \in entry.res /\ "dns" \in job.todo
    BY <1>0, KernelFacts
<1>2. /\ job' \in Jobs /\ job'.todo = job.todo \ {"dns"} /\ job'.goal = job.goal
      /\ job'.idx = job.idx /\ ~job'.teardown
    <2>1. job' \in Jobs
        <3>1. job.todo \in SUBSET Objects BY <1>1 DEF Jobs
        <3> QED BY <1>1, <1>0, <3>1, JobTypes
    <2> QED BY <1>1, <1>0, <2>1 DEF Jobs
<1>3. Shapes' BY <1>0, <1>1, <1>2 DEF TunnelInv, Shapes
<1>4. Coverage' BY <1>0, <1>1 DEF TunnelInv, Coverage, Covers, Installed
<1>5. Phases' BY <1>0, <1>1, <1>2 DEF TunnelInv, Phases, Following
<1>6. Applying'
    <2>1. entry.res \cap job'.todo = {} /\ entry.res \cup job'.todo = Desired(job.goal)
        BY <1>1, <1>2
    <2> QED BY <1>0, <1>1, <1>2, <2>1 DEF Applying
<1>7. Exclusive' BY <1>0, <1>1, <1>2 DEF TunnelInv, Exclusive
<1>8. Sessions' /\ OnLink'
    BY <1>0, <1>1 DEF TunnelInv, Sessions, OnLink
<1>9. Heard' BY <1>0, <1>1, KeepsHeard DEF TunnelInv
<1> QED BY <1>3, <1>4, <1>5, <1>6, <1>7, <1>8, <1>9 DEF TunnelInv

\* A poll ends with the network of the session it read.
LEMMA PollDoneInv ==
    ASSUME TunnelInv, PollDone
    PROVE  TunnelInv'
<1>0. /\ pc = "step" /\ job.todo = {} /\ pc' = "idle" /\ job' = Rest
      /\ UNCHANGED <<entry, disk, run, proc, tracked, queue, link, net, rule, other, amiss>>
    BY DEF PollDone, journals, child, kernel
<1>1. /\ entry.state = "applied" /\ run # NoRun /\ tracked /\ job.goal = run.active
      /\ run.state \in {"connected", "reconnecting"} /\ Following
    BY <1>0, StepFacts DEF Following
<1>2. disk.res = entry.res /\ disk.idx = entry.idx /\ entry.res = Desired(run.active)
    BY <1>0, <1>1 DEF TunnelInv, Applying
<1>3. Shapes' BY <1>0, JobTypes DEF TunnelInv, Shapes
<1>4. Coverage' BY <1>0 DEF TunnelInv, Coverage, Covers, Installed
<1>5. Phases' BY <1>0, <1>1 DEF TunnelInv, Phases, Following
<1>6. Applying' /\ Exclusive' BY <1>0, <1>2 DEF TunnelInv, Applying, Exclusive
<1>7. Sessions' BY <1>0, <1>1, <1>2 DEF Sessions, Followed
<1>8. OnLink' BY <1>0 DEF TunnelInv, OnLink
<1>9. Heard' BY <1>0, <1>1, KeepsHeard DEF TunnelInv
<1> QED BY <1>3, <1>4, <1>5, <1>6, <1>7, <1>8, <1>9 DEF TunnelInv

-----------------------------------------------------------------------------
(* clear_openvpn_network.                                                  *)

\* What is left of the network is what is left to remove.
LEMMA ClearItemInv ==
    ASSUME TunnelInv, NEW ok \in BOOLEAN, ClearItem(ok)
    PROVE  TunnelInv'
<1> DEFINE r == Last(job.todo)
<1>1. /\ pc = "clear" /\ job.todo # {} /\ job \in Jobs /\ Sound(entry) /\ Sound(disk)
      /\ entry.state # "none" /\ job.todo \subseteq entry.res /\ Installed \subseteq job.todo
      /\ Covers(entry) /\ Covers(disk)
      /\ link = 0 => net = {}
      /\ ~job.teardown => entry.state = "applied" /\ run # NoRun /\ tracked
      /\ job.teardown => ~tracked /\ net = {}
    BY DEF ClearItem, TunnelInv, Shapes, Phases, Coverage, Following
<1>2. job.todo \in SUBSET Objects /\ r \in job.todo /\ r \in Objects
    <2>1. job.todo \in SUBSET Objects BY <1>1 DEF Jobs
    <2> QED BY <1>1, <2>1, FirstLast
<1>0. /\ net' \in {net, net \ {r}}
      /\ rule' = rule \/ rule' = "absent"
      /\ \/ /\ ok /\ pc' = pc /\ entry' = entry /\ job' = [job EXCEPT !.todo = @ \ {r}]
            /\ (r \in Pushes /\ link = entry.idx) \/ (r = "dns" /\ entry.dnsOn) => net' = net \ {r}
            /\ r = "rule" => rule' # "ours"
            /\ r = "dns" /\ r \in net' => r \in amiss'
         \/ pc' = "stale" /\ entry' = Stale /\ job' = job
      /\ amiss' = amiss \/ amiss' = amiss \cup {"dns"}
      /\ UNCHANGED <<disk, run, proc, tracked, queue, link, other>>
    <2>1. rule \in {"absent", "ours", "foreign"} BY DEF TunnelInv, Shapes
    <2>2. CASE ok BY <2>1, <2>2 DEF ClearItem, child
    <2>3. CASE ~ok BY <2>1, <2>3 DEF ClearItem, child
    <2> QED BY <2>2, <2>3
<1> HIDE DEF r
<1>3. /\ net' \subseteq net /\ Installed' \subseteq Installed
      /\ net' \subseteq Objects \ {"rule"} /\ rule' \in {"absent", "ours", "foreign"}
      /\ amiss' \subseteq {"session", "dns"}
    BY <1>0 DEF TunnelInv, Shapes, Installed
<1>4. CASE /\ ok /\ pc' = pc /\ entry' = entry /\ job' = [job EXCEPT !.todo = @ \ {r}]
           /\ (r \in Pushes /\ link = entry.idx) \/ (r = "dns" /\ entry.dnsOn) => net' = net \ {r}
           /\ r = "rule" => rule' # "ours"
           /\ r = "dns" /\ r \in net' => r \in amiss'
    <2>0. /\ job' \in Jobs /\ job'.todo = job.todo \ {r} /\ job'.goal = job.goal
          /\ job'.teardown = job.teardown
        <3>1. job' \in Jobs BY <1>1, <1>2, <1>4, JobTypes
        <3> QED BY <1>1, <1>4, <3>1 DEF Jobs
    <2>1. r \notin Installed'
        <3>1. CASE r \in Pushes
            <4>1. r # "rule" BY <3>1 DEF Pushes
            <4>2. r \in net => link = entry.idx BY <1>1, <3>1 DEF Covers
            <4> QED BY <1>3, <1>4, <3>1, <4>1, <4>2 DEF Installed
        <3>2. CASE r = "dns"
            BY <1>4, <3>2 DEF Installed
        <3>3. CASE r = "rule"
            BY <1>3, <1>4, <3>3 DEF Installed
        <3> QED BY <1>2, <3>1, <3>2, <3>3 DEF Objects
    <2>2. Shapes' BY <1>0, <1>3, <1>4, <2>0 DEF TunnelInv, Shapes
    <2>3. Coverage'
        <3>1. Covers(entry)' /\ Covers(disk)' BY <1>0, <1>1, <1>3, <1>4 DEF Covers
        <3>2. Installed' \subseteq job'.todo BY <1>1, <1>3, <2>0, <2>1
        <3> QED BY <1>0, <1>1, <1>3, <1>4, <3>1, <3>2 DEF TunnelInv, Coverage
    <2>4. Phases' BY <1>0, <1>1, <1>3, <1>4, <2>0 DEF TunnelInv, Phases, Following
    <2>5. Applying' /\ Exclusive'
        BY <1>0, <1>1, <1>4, <2>0 DEF TunnelInv, Applying, Exclusive
    <2>6. Sessions' /\ OnLink' BY <1>1, <1>4 DEF Sessions, OnLink
    <2>7. Following' => Following BY <1>0, <1>1, <1>4, <2>0 DEF Following
    <2>8. Heard' BY <1>0, <1>1, <1>4, <2>7, KeepsHeard DEF TunnelInv
    <2> QED BY <2>2, <2>3, <2>4, <2>5, <2>6, <2>8 DEF TunnelInv
<1>5. CASE pc' = "stale" /\ entry' = Stale /\ job' = job
    <2>0. /\ Sound(entry') /\ entry'.state = "stale" /\ entry'.res = entry.res
          /\ entry'.idx = entry.idx /\ entry'.full = entry.full /\ entry'.dnsOn = entry.dnsOn
        <3>1. Sound(entry') BY <1>1, <1>5, SoundEntries DEF Stale
        <3> QED BY <1>1, <1>5, <3>1 DEF Stale, Sound, Entry
    <2>1. ~Following' BY <1>5 DEF Following
    <2>2. Shapes' BY <1>0, <1>3, <1>5, <2>0 DEF TunnelInv, Shapes
    <2>3. Coverage'
        <3>1. Covers(entry)' /\ Covers(disk)' BY <1>0, <1>1, <1>3, <2>0 DEF Covers
        <3> QED BY <1>0, <1>1, <1>3, <1>5, <2>0, <3>1 DEF TunnelInv, Coverage
    <2>4. Phases' BY <1>0, <1>1, <1>5, <2>0, <2>1 DEF TunnelInv, Phases
    <2>5. Applying' /\ Exclusive'
        BY <1>0, <1>5, <2>0, <2>1 DEF TunnelInv, Applying, Exclusive
    <2>6. Heard' BY <1>0, <1>5, <2>1, KeepsHeard DEF TunnelInv
    <2> QED BY <2>1, <2>2, <2>3, <2>4, <2>5, <2>6, NotFollowing DEF TunnelInv
<1> QED BY <1>0, <1>4, <1>5

\* A clear that failed leaves the claims of what it could not remove.
LEMMA ClearFailedInv ==
    ASSUME TunnelInv, NEW ok \in BOOLEAN, ClearFailed(ok)
    PROVE  TunnelInv'
<1>0. /\ pc = "stale"
      /\ disk' = disk \/ disk' = entry
      /\ \/ pc' = "finish" /\ job' = job
         \/ pc' = "teardown" /\ job' = [Rest EXCEPT !.teardown = TRUE]
      /\ UNCHANGED <<entry, run, proc, tracked, queue, link, net, rule, other, amiss>>
    BY DEF ClearFailed, Save, Fail, child, kernel
<1>1. entry.state = "stale" /\ [Rest EXCEPT !.teardown = TRUE].teardown
    BY <1>0 DEF TunnelInv, Phases, Rest
<1>2. ~Following' BY <1>0 DEF Following
<1>3. Shapes' BY <1>0, JobTypes DEF TunnelInv, Shapes
<1>4. Coverage' BY <1>0 DEF TunnelInv, Coverage, Covers, Installed
<1>5. Phases' BY <1>0, <1>1, <1>2 DEF TunnelInv, Phases
<1>6. Applying' /\ Exclusive' BY <1>0, <1>2 DEF TunnelInv, Applying, Exclusive
<1>7. Heard' BY <1>0, <1>2, KeepsHeard DEF TunnelInv
<1> QED BY <1>2, <1>3, <1>4, <1>5, <1>6, <1>7, NotFollowing DEF TunnelInv

\* The claims are dropped when nothing of them is left.
LEMMA ClearDoneInv ==
    ASSUME TunnelInv, NEW ok \in BOOLEAN, ClearDone(ok)
    PROVE  TunnelInv'
<1> DEFINE stale == [Cleared EXCEPT !.state = "stale"]
<1>1. /\ pc = "clear" /\ job.todo = {} /\ job \in Jobs /\ Sound(entry) /\ Sound(disk)
      /\ entry.state # "none" /\ Covers(disk) /\ Covers(entry)
      /\ ~job.teardown => /\ entry.state = "applied" /\ run # NoRun /\ tracked
                          /\ job.goal = run.active /\ run.state \in {"connected", "reconnecting"}
      /\ job.teardown => ~tracked /\ net = {}
    BY DEF ClearDone, TunnelInv, Shapes, Phases, Coverage, Applying, Following
<1>2. Installed = {} /\ net \cap Pushes = {}
    <2>1. Installed = {} BY <1>1 DEF TunnelInv, Coverage
    <2> QED BY <2>1, NothingOn DEF TunnelInv
<1>3. /\ Sound(Cleared) /\ Cleared.state = entry.state /\ Cleared.res = {} /\ ~Cleared.full
      /\ Cleared.idx = 0 /\ ~Cleared.dnsOn
      /\ Sound(stale) /\ stale.state = "stale" /\ stale.res = {} /\ ~stale.full
      /\ stale.idx = 0 /\ ~stale.dnsOn
    <2>1. Sound(Cleared) BY <1>1, SoundEntries DEF Cleared
    <2>2. /\ Cleared.state = entry.state /\ Cleared.res = {} /\ ~Cleared.full
          /\ Cleared.idx = 0 /\ ~Cleared.dnsOn
        BY <1>1 DEF Cleared, Sound, Entry
    <2>3. Sound(stale) BY <1>1, <2>1, <2>2, SoundEntries
    <2>4. /\ stale.state = "stale" /\ stale.res = {} /\ ~stale.full
          /\ stale.idx = 0 /\ ~stale.dnsOn
        BY <2>1, <2>2 DEF Sound, Entry
    <2> QED BY <2>1, <2>2, <2>3, <2>4
<1>0. /\ disk' = disk \/ disk' = Cleared
      /\ \/ job.teardown /\ pc' = "cleanup" /\ job' = job /\ entry' = Cleared
         \/ job.teardown /\ pc' = "finish" /\ job' = job /\ entry' = stale
         \/ ~job.teardown /\ Fail /\ entry' = Cleared
         \/ /\ ~job.teardown /\ job.goal = "none" /\ pc' = "idle" /\ job' = Rest
            /\ entry' = Cleared /\ disk' = Cleared
         \/ /\ ~job.teardown /\ job.goal # "none" /\ pc' = "take" /\ job' = job
            /\ entry' = Cleared /\ disk' = Cleared
      /\ amiss' = amiss \ {"session"}
      /\ UNCHANGED <<run, proc, tracked, queue, link, net, rule, other>>
    <2>1. CASE ok /\ job.teardown BY <2>1 DEF ClearDone, Save, child, kernel
    <2>2. CASE ~ok /\ job.teardown BY <2>2 DEF ClearDone, Save, child, kernel
    <2>3. CASE ~ok /\ ~job.teardown BY <2>3 DEF ClearDone, Save, child, kernel
    <2>4. CASE ok /\ ~job.teardown /\ job.goal = "none" BY <2>4 DEF ClearDone, Save, child, kernel
    <2>5. CASE ok /\ ~job.teardown /\ job.goal # "none" BY <2>5 DEF ClearDone, Save, child, kernel
    <2> QED BY <2>1, <2>2, <2>3, <2>4, <2>5
<1>4. /\ Sound(entry') /\ Sound(disk') /\ entry'.res = {} /\ ~entry'.full /\ Installed' = {}
      /\ entry'.state # "none"
    <2>1. net \ amiss' = net \ amiss BY <1>0 DEF TunnelInv, Shapes, Objects, Pushes
    <2>2. Installed' = Installed BY <1>0, <2>1 DEF Installed
    <2> QED BY <1>0, <1>1, <1>2, <1>3, <2>2
<1>5. Covers(entry)' /\ Covers(disk)'
    BY <1>0, <1>2, <1>4 DEF Covers
<1>6. Shapes'
    <2>1. job' \in Jobs BY <1>0, <1>1, JobTypes DEF Fail
    <2>2. amiss' \subseteq {"session", "dns"} BY <1>0 DEF TunnelInv, Shapes
    <2>3. pc' \in {"cleanup", "finish", "teardown", "idle", "take"} BY <1>0 DEF Fail
    <2> QED BY <1>0, <1>4, <2>1, <2>2, <2>3 DEF TunnelInv, Shapes
<1>7. Coverage'
    <2>1. pc' # "clear" BY <1>0 DEF Fail
    <2> QED BY <1>0, <1>2, <1>5, <2>1 DEF TunnelInv, Coverage
<1> HIDE DEF stale
<1>8. Phases' /\ Applying' /\ Exclusive' /\ Sessions' /\ (Following' => Following) /\ pc' # "started"
    <2>0. other => ~disk'.full BY <1>0, <1>3 DEF TunnelInv, Exclusive
    <2>1. CASE job.teardown /\ pc' = "cleanup" /\ job' = job /\ entry' = Cleared
        BY <1>0, <1>1, <1>2, <1>3, <2>0, <2>1
           DEF TunnelInv, Phases, Applying, Exclusive, Sessions, Following
    <2>2. CASE job.teardown /\ pc' = "finish" /\ job' = job /\ entry' = stale
        BY <1>0, <1>1, <1>2, <1>3, <2>0, <2>2
           DEF TunnelInv, Phases, Applying, Exclusive, Sessions, Following
    <2>3. CASE ~job.teardown /\ Fail /\ entry' = Cleared
        <3>1. pc' = "teardown" /\ job'.teardown BY <2>3 DEF Fail, Rest
        <3> QED BY <1>0, <1>1, <1>2, <1>3, <2>0, <2>3, <3>1
           DEF TunnelInv, Phases, Applying, Exclusive, Sessions, Following
    <2>4. CASE /\ ~job.teardown /\ job.goal = "none" /\ pc' = "idle" /\ job' = Rest
               /\ entry' = Cleared /\ disk' = Cleared
        <3>1. Desired(run.active) = {} BY <1>1, <2>4 DEF Desired
        <3> QED BY <1>0, <1>1, <1>2, <1>3, <2>0, <2>4, <3>1
           DEF TunnelInv, Phases, Applying, Exclusive, Sessions, Following, Followed
    <2>5. CASE /\ ~job.teardown /\ job.goal # "none" /\ pc' = "take" /\ job' = job
               /\ entry' = Cleared /\ disk' = Cleared
        BY <1>0, <1>1, <1>2, <1>3, <2>0, <2>5
           DEF TunnelInv, Phases, Applying, Exclusive, Sessions, Following
    <2> QED BY <1>0, <2>1, <2>2, <2>3, <2>4, <2>5
<1>9. OnLink'
    <2>1. pc' = "idle" /\ entry'.state = "applied" => run'.active = "none"
        BY <1>0, <1>1 DEF Fail
    <2>2. pc' \notin {"restore", "step", "kernel", "flag"} BY <1>0 DEF Fail
    <2> QED BY <2>1, <2>2 DEF OnLink
<1>10. Heard' BY <1>0, <1>8, KeepsHeard DEF TunnelInv
<1> QED BY <1>6, <1>7, <1>8, <1>9, <1>10 DEF TunnelInv

-----------------------------------------------------------------------------
(* teardown_openvpn_entry.                                                 *)

\* A disconnect begins the teardown of an entry.
LEMMA DisconnectInv ==
    ASSUME TunnelInv, Disconnect
    PROVE  TunnelInv'
<1>0. /\ pc = "idle" /\ entry # NoEntry /\ Fail
      /\ UNCHANGED <<entry, disk, run, proc, tracked, queue, link, net, rule, other, amiss>>
    BY DEF Disconnect, journals, child, kernel
<1>1. entry.state # "none" BY <1>0 DEF TunnelInv, Shapes, Sound
<1>2. Shapes' BY <1>0, JobTypes DEF TunnelInv, Shapes, Fail
<1>3. Covers(entry)' /\ Covers(disk)' BY <1>0 DEF TunnelInv, Coverage, Covers, Installed
<1> QED BY <1>0, <1>1, <1>2, <1>3, FailInv DEF TunnelInv, Exclusive, Heard, kernel

\* With the child goes its link and all that is on it.
LEMMA StopInv ==
    ASSUME TunnelInv, NEW ok \in BOOLEAN, Stop(ok)
    PROVE  TunnelInv'
<1>1. /\ pc = "teardown" /\ entry.state # "none" /\ job.teardown /\ job \in Jobs
      /\ Sound(entry) /\ Sound(disk) /\ Covers(entry) /\ Covers(disk)
      /\ link = 0 => net = {}
    BY DEF Stop, TunnelInv, Phases, Shapes, Coverage
<1>0. /\ \/ /\ proc' = "none" /\ tracked' = FALSE /\ queue' = <<>> /\ link' = 0 /\ net' = {}
         \/ /\ UNCHANGED <<proc, tracked, queue, link, net>>
      /\ \/ /\ link' = 0 /\ ~tracked' /\ net' = {}
            /\ pc' = "clear" /\ job' = [job EXCEPT !.todo = entry.res] /\ entry' = entry
         \/ pc' = "finish" /\ entry' = Stale /\ job' = job
      /\ UNCHANGED <<disk, run, rule, other, amiss>>
    <2>1. CASE ok /\ tracked BY <2>1 DEF Stop
    <2>2. CASE ok /\ ~tracked BY <1>1, <2>2 DEF Stop, child
    <2>3. CASE ~ok BY <2>3 DEF Stop, child
    <2> QED BY <2>1, <2>2, <2>3
<1>2. /\ Sound(Stale) /\ Stale.state = "stale" /\ Stale.res = entry.res
      /\ Stale.idx = entry.idx /\ Stale.full = entry.full /\ Stale.dnsOn = entry.dnsOn
    <2>1. Sound(Stale) BY <1>1, SoundEntries DEF Stale
    <2> QED BY <1>1, <2>1 DEF Stale, Sound, Entry
<1>3. /\ [job EXCEPT !.todo = entry.res] \in Jobs
      /\ [job EXCEPT !.todo = entry.res].todo = entry.res
      /\ [job EXCEPT !.todo = entry.res].teardown
    <2>1. entry.res \in SUBSET Objects BY <1>1 DEF Sound, Entry
    <2>2. [job EXCEPT !.todo = entry.res] \in Jobs BY <1>1, <2>1, JobTypes
    <2> QED BY <1>1, <2>2 DEF Jobs
<1>4. /\ Sound(entry') /\ entry'.res = entry.res /\ entry'.idx = entry.idx
      /\ entry'.full = entry.full /\ entry'.dnsOn = entry.dnsOn
      /\ net' \subseteq net /\ Installed' \subseteq Installed
      /\ net' # {} => link' = link
      /\ job' \in Jobs
    BY <1>0, <1>1, <1>2, <1>3 DEF Installed
<1>5. ~Following'
    BY <1>0, <1>3 DEF Following
<1>6. Shapes'
    <2>1. queue' \in Seq(Events) /\ Len(queue') <= MaxQueue
        <3>1. CASE queue' = <<>> BY <3>1, OpenVpnAssumption
        <3>2. CASE queue' = queue BY <3>2 DEF TunnelInv, Shapes
        <3> QED BY <1>0, <3>1, <3>2
    <2>2. tracked' \in BOOLEAN BY <1>0, Zenon DEF TunnelInv, Shapes
    <2>3. link' \in 0..4
        <3>1. 0 \in 0..4 OBVIOUS
        <3> QED BY <1>0, <3>1 DEF TunnelInv, Shapes
    <2> QED BY <1>0, <1>4, <2>1, <2>2, <2>3 DEF TunnelInv, Shapes
<1>7. Coverage'
    <2>1. Covers(entry)' /\ Covers(disk)' BY <1>0, <1>1, <1>4 DEF Covers
    <2>2. link' = 0 => net' = {} BY <1>0, <1>1
    <2>3. pc' = "clear" => Installed' \subseteq job'.todo
        BY <1>0, <1>1, <1>3, <1>4 DEF Covers
    <2> QED BY <1>0, <1>1, <1>4, <2>1, <2>2, <2>3 DEF TunnelInv, Coverage
<1>8. Phases' BY <1>0, <1>1, <1>2, <1>3, <1>5 DEF TunnelInv, Phases
<1>9. Applying' /\ Exclusive'
    <2>1. ~(pc' = "clear" /\ ~job'.teardown) BY <1>0, <1>3
    <2> QED BY <1>0, <1>4, <1>5, <2>1 DEF TunnelInv, Applying, Exclusive
<1>10. Heard' BY <1>0, <1>5 DEF TunnelInv, Heard
<1> QED BY <1>5, <1>6, <1>7, <1>8, <1>9, <1>10, NotFollowing DEF TunnelInv

\* The entry is forgotten once its claims are.
LEMMA CleanupInv ==
    ASSUME TunnelInv, NEW ok \in BOOLEAN, Cleanup(ok)
    PROVE  TunnelInv'
<1>0. /\ pc = "cleanup" /\ pc' = "finish"
      /\ \/ entry' = NoEntry /\ run' = NoRun
         \/ entry' = Stale /\ run' = run
      /\ UNCHANGED <<disk, proc, tracked, queue, link, net, rule, other, job, amiss>>
    BY DEF Cleanup, child, kernel
<1>1. /\ entry.state # "none" /\ entry.res = {} /\ ~tracked /\ Sound(entry) /\ Sound(disk)
      /\ Covers(entry) /\ Covers(disk)
    BY <1>0 DEF TunnelInv, Phases, Shapes, Coverage
<1>2. /\ Sound(Stale) /\ Stale.state = "stale" /\ Stale.res = {}
      /\ Stale.full = entry.full
      /\ Sound(NoEntry) /\ NoEntry.state = "none" /\ NoEntry.res = {} /\ ~NoEntry.full
    <2>1. Sound(Stale) BY <1>1, SoundEntries DEF Stale
    <2>2. Stale.state = "stale" /\ Stale.res = {} /\ Stale.full = entry.full
        BY <1>1, <2>1 DEF Stale, Sound, Entry
    <2> QED BY <2>1, <2>2, SoundEntries DEF NoEntry
<1>3. Installed' = {} /\ net \cap Pushes = {}
    <2>1. Installed = {} BY <1>1 DEF Covers
    <2>2. Installed' = Installed BY <1>0 DEF Installed
    <2> QED BY <2>1, <2>2, NothingOn DEF TunnelInv
<1>4. ~Following' BY <1>0 DEF Following
<1>5. Shapes'
    <2>1. run' \in Snaps /\ (run'.state # "connected" => run'.active = "none")
             /\ (run'.state = "none" => run' = NoRun)
        <3>1. NoRun \in Snaps /\ NoRun.active = "none" BY DEF NoRun, Snaps
        <3> QED BY <1>0, <3>1 DEF TunnelInv, Shapes
    <2> QED BY <1>0, <1>2, <2>1 DEF TunnelInv, Shapes
<1>6. Coverage' BY <1>0, <1>1, <1>2, <1>3 DEF TunnelInv, Coverage, Covers
<1>7. Phases' BY <1>0, <1>1, <1>2, <1>4 DEF Phases
<1>8. Applying' /\ Exclusive' BY <1>0, <1>2, <1>4 DEF TunnelInv, Applying, Exclusive
<1>9. Heard' BY <1>0, <1>4 DEF TunnelInv, Heard
<1> QED BY <1>4, <1>5, <1>6, <1>7, <1>8, <1>9, NotFollowing DEF TunnelInv

\* The caller saves what the teardown left.
LEMMA FinishInv ==
    ASSUME TunnelInv, NEW ok \in BOOLEAN, Finish(ok)
    PROVE  TunnelInv'
<1>0. /\ pc = "finish" /\ pc' = "idle" /\ job' = Rest
      /\ disk' = disk \/ disk' = entry
      /\ UNCHANGED <<entry, run, proc, tracked, queue, link, net, rule, other, amiss>>
    BY DEF Finish, Save, child, kernel
<1>1. entry.state \in {"none", "stale"}
    BY <1>0 DEF TunnelInv, Phases
<1>2. ~Following' BY <1>0, <1>1 DEF Following
<1>3. Shapes' BY <1>0, JobTypes DEF TunnelInv, Shapes
<1>4. Coverage' BY <1>0 DEF TunnelInv, Coverage, Covers, Installed
<1>5. Phases' BY <1>0, <1>1, <1>2 DEF TunnelInv, Phases
<1>6. Applying' /\ Exclusive' BY <1>0, <1>2 DEF TunnelInv, Applying, Exclusive
<1>7. Heard' BY <1>0, <1>2, KeepsHeard DEF TunnelInv
<1> QED BY <1>2, <1>3, <1>4, <1>5, <1>6, <1>7, NotFollowing DEF TunnelInv

-----------------------------------------------------------------------------
(* reconcile_network and reapply_dns.                                      *)

\* A pass looks only at what the entry claims, on the journaled link.
LEMMA NetPassInv ==
    ASSUME TunnelInv, NetPass
    PROVE  TunnelInv'
<1>0. /\ pc = "idle" /\ entry.state = "applied" /\ pc' = "restore"
      /\ job' = [Rest EXCEPT !.todo = Restorable, !.idx = entry.idx]
      /\ UNCHANGED <<entry, disk, run, proc, tracked, queue, link, net, rule, other, amiss>>
    BY DEF NetPass, journals, child, kernel
<1>1. /\ job' \in Jobs /\ job'.todo \subseteq entry.res /\ job'.idx = entry.idx /\ ~job'.teardown
    <2>1. entry.idx \in 0..4 /\ Restorable \in SUBSET Objects
        BY DEF TunnelInv, Shapes, Sound, Entry, Restorable
    <2>2. job' \in Jobs BY <1>0, <2>1, JobTypes
    <2> QED BY <1>0, <2>2 DEF Rest, Restorable
<1>2. Following' /\ Following BY <1>0 DEF Following
<1>3. Shapes' BY <1>0, <1>1 DEF TunnelInv, Shapes
<1>4. Coverage' BY <1>0 DEF TunnelInv, Coverage, Covers, Installed
<1>5. Phases' BY <1>0, <1>1, <1>2 DEF TunnelInv, Phases
<1>6. Applying' /\ Exclusive' BY <1>0, <1>1, <1>2 DEF TunnelInv, Applying, Exclusive
<1>7. Sessions' /\ OnLink' BY <1>0 DEF TunnelInv, Sessions, OnLink, Followed
<1>8. Heard' BY <1>0, <1>2, KeepsHeard DEF TunnelInv
<1> QED BY <1>3, <1>4, <1>5, <1>6, <1>7, <1>8 DEF TunnelInv

\* What is put back is claimed, on disk too, and on the journaled link.
LEMMA RestoreInv ==
    ASSUME TunnelInv, NEW ok \in BOOLEAN, Restore(ok)
    PROVE  TunnelInv'
<1> DEFINE r == First(job.todo)
<1>1. /\ pc = "restore" /\ job.todo # {} /\ Following /\ entry.state = "applied" /\ run # NoRun
      /\ tracked /\ ~job.teardown /\ job \in Jobs /\ Sound(entry) /\ Sound(disk)
      /\ Covers(entry) /\ Covers(disk) /\ disk.res = entry.res /\ disk.idx = entry.idx
      /\ job.todo \subseteq entry.res /\ job.idx = entry.idx
      /\ link = 0 => net = {}
      /\ entry.res \in SUBSET Objects
    <2>1. pc = "restore" /\ job.todo # {} BY DEF Restore
    <2>2. entry.state = "applied" /\ Following
        BY <2>1 DEF TunnelInv, Phases, Following
    <2>3. Sound(entry) /\ entry.res \in SUBSET Objects
        BY DEF TunnelInv, Shapes, Sound, Entry
    <2> QED BY <2>1, <2>2, <2>3 DEF TunnelInv, Phases, Shapes, Coverage, Applying
<1>2. r \in job.todo /\ r \in entry.res /\ r \in Objects
    BY <1>1, FirstLast
<1>0. /\ \/ /\ r \in Pushes /\ r \notin net => link = job.idx
            /\ net' = net \cup ({r} \cap Pushes)
            /\ rule' = rule \/ (r = "rule" /\ rule' = "ours")
            /\ job' = [job EXCEPT !.todo = @ \ {r}] /\ pc' = pc
         \/ Fail /\ net' = net /\ rule' = rule
      /\ UNCHANGED <<entry, disk, run, proc, tracked, queue, link, other, amiss>>
    BY DEF Restore, journals, child
<1> HIDE DEF r
<1>3. CASE Fail /\ net' = net /\ rule' = rule
    <2>1. Covers(entry)' /\ Covers(disk)' BY <1>0, <1>1, <1>3 DEF Covers, Installed
    <2> QED BY <1>0, <1>1, <1>3, <2>1, StepFails DEF TunnelInv, Shapes, Coverage
<1>4. CASE /\ r \in Pushes /\ r \notin net => link = job.idx
           /\ net' = net \cup ({r} \cap Pushes)
           /\ rule' = rule \/ (r = "rule" /\ rule' = "ours")
           /\ job' = [job EXCEPT !.todo = @ \ {r}] /\ pc' = pc
    <2>0. /\ job' \in Jobs /\ job'.todo = job.todo \ {r} /\ job'.idx = job.idx
          /\ job'.goal = job.goal /\ ~job'.teardown
        <3>1. job' \in Jobs
            <4>1. job.todo \in SUBSET Objects BY <1>1 DEF Jobs
            <4> QED BY <1>1, <1>4, <4>1, JobTypes
        <3> QED BY <1>1, <1>4, <3>1 DEF Jobs
    <2>1. /\ net' \subseteq Objects \ {"rule"} /\ rule' \in {"absent", "ours", "foreign"}
          /\ Installed' \subseteq Installed \cup {r}
          /\ net' \cap Pushes # {} => entry.idx = link
          /\ link = 0 => net' = {}
        <3>1. net' \subseteq Objects \ {"rule"} /\ rule' \in {"absent", "ours", "foreign"}
            BY <1>4, <1>2 DEF TunnelInv, Shapes, Objects, Pushes
        <3>2. Installed' \subseteq Installed \cup {r} BY <1>0, <1>4 DEF Installed
        <3>3. net \cap Pushes # {} => entry.idx = link BY <1>1 DEF Covers
        <3>4. net' \cap Pushes # {} => entry.idx = link
            BY <1>1, <1>4, <3>3
        <3>6. entry.idx # 0 BY <1>1, <1>2 DEF Sound
        <3>7. link = 0 => net' = {} BY <1>1, <1>4, <3>6
        <3> QED BY <3>1, <3>2, <3>4, <3>7
    <2>2. Shapes' BY <1>0, <1>4, <2>0, <2>1 DEF TunnelInv, Shapes
    <2>3. Coverage'
        <3>1. Covers(entry)' /\ Covers(disk)' BY <1>0, <1>1, <1>2, <2>1 DEF Covers
        <3> QED BY <1>0, <1>1, <1>4, <2>1, <3>1 DEF TunnelInv, Coverage
    <2>4. Phases' BY <1>0, <1>1, <1>4, <2>0 DEF TunnelInv, Phases, Following
    <2>5. Applying' /\ Exclusive'
        BY <1>0, <1>1, <1>4, <2>0 DEF TunnelInv, Applying, Exclusive
    <2>6. Sessions' /\ OnLink' BY <1>0, <1>1, <1>4 DEF TunnelInv, Sessions, OnLink, Followed
    <2>7. Heard' BY <1>0, <1>1, <1>4, KeepsHeard DEF TunnelInv
    <2> QED BY <2>2, <2>3, <2>4, <2>5, <2>6, <2>7 DEF TunnelInv
<1> QED BY <1>0, <1>3, <1>4

\* A pass that ends changes nothing more.
LEMMA RestoreDoneInv ==
    ASSUME TunnelInv, RestoreDone
    PROVE  TunnelInv'
<1>0. /\ pc = "restore" /\ pc' = "idle" /\ job' = Rest
      /\ UNCHANGED <<entry, disk, run, proc, tracked, queue, link, net, rule, other, amiss>>
    BY DEF RestoreDone, journals, child, kernel
<1>1. entry.state = "applied" /\ Following /\ Following'
    BY <1>0 DEF TunnelInv, Phases, Following
<1>2. Shapes' BY <1>0, JobTypes DEF TunnelInv, Shapes
<1>3. Coverage' BY <1>0 DEF TunnelInv, Coverage, Covers, Installed
<1>4. Phases' BY <1>0, <1>1 DEF TunnelInv, Phases
<1>5. Applying' /\ Exclusive' BY <1>0, <1>1 DEF TunnelInv, Applying, Exclusive
<1>6. Sessions' /\ OnLink' BY <1>0 DEF TunnelInv, Sessions, OnLink, Followed
<1>7. Heard' BY <1>0, <1>1, KeepsHeard DEF TunnelInv
<1> QED BY <1>2, <1>3, <1>4, <1>5, <1>6, <1>7 DEF TunnelInv

\* Applying DNS again needs no new claim.
LEMMA ReapplyDnsInv ==
    ASSUME TunnelInv, NEW applied \in BOOLEAN, NEW ok \in BOOLEAN, ReapplyDns(applied, ok)
    PROVE  TunnelInv'
<1>0. /\ pc = "idle" /\ entry.state = "applied" /\ "dns" \in entry.res /\ link # 0
      /\ \/ applied /\ net' = net \cup {"dns"}
         \/ ~applied /\ net' \in DnsLeft
      /\ amiss' = amiss \ {"dns"}
      /\ entry' = [entry EXCEPT !.dnsOn = applied]
      /\ disk' = disk \/ disk' = entry'
      /\ UNCHANGED <<run, proc, tracked, queue, link, rule, other, pc, job>>
    BY DEF ReapplyDns, Save, Online, child, core
<1>1. /\ Following /\ disk.res = entry.res /\ disk.idx = entry.idx /\ Sound(entry) /\ Sound(disk)
      /\ Covers(entry) /\ Covers(disk)
    BY <1>0 DEF TunnelInv, Applying, Following, Shapes, Coverage
<1>2. /\ Sound(entry') /\ entry'.state = "applied" /\ entry'.res = entry.res
      /\ entry'.idx = entry.idx /\ entry'.full = entry.full /\ entry'.dnsOn = applied
    <2>1. Sound(entry') BY <1>0, <1>1, SoundEntries
    <2> QED BY <1>0, <1>1, <2>1 DEF Sound, Entry
<1>3. /\ disk'.res = entry.res /\ disk'.idx = entry.idx /\ Sound(disk')
      /\ other => ~disk'.full
    BY <1>0, <1>1, <1>2 DEF TunnelInv, Exclusive
<1>4. /\ net' \cap Pushes = net \cap Pushes /\ Installed' \subseteq Installed \cup {"dns"}
      /\ net' \subseteq Objects \ {"rule"} /\ amiss' \subseteq {"session", "dns"}
    BY <1>0 DEF TunnelInv, Shapes, Installed, Pushes, Objects, DnsLeft
<1>5. Shapes' BY <1>0, <1>2, <1>3, <1>4 DEF TunnelInv, Shapes
<1>6. Coverage'
    <2>1. Covers(entry)' /\ Covers(disk)' BY <1>0, <1>1, <1>2, <1>3, <1>4 DEF Covers
    <2> QED BY <1>0, <1>2, <2>1 DEF Coverage
<1>7. Following' BY <1>0, <1>2 DEF Following
<1>8. Phases' BY <1>0, <1>1, <1>2, <1>7 DEF TunnelInv, Phases
<1>9. Applying' /\ Exclusive' BY <1>0, <1>2, <1>3, <1>7 DEF TunnelInv, Applying, Exclusive
<1>10. Sessions' /\ OnLink' BY <1>0, <1>2 DEF TunnelInv, Sessions, OnLink, Followed
<1>11. Heard' BY <1>0, <1>1, KeepsHeard DEF TunnelInv
<1> QED BY <1>5, <1>6, <1>8, <1>9, <1>10, <1>11 DEF TunnelInv

-----------------------------------------------------------------------------
(* The child, the rest of the daemon and the outside.                      *)

\* What the child and the outside may do to the kernel: take away what is on
\* the link, or change the link when nothing is.
LEMMA OutsideKeeps ==
    ASSUME TunnelInv, UNCHANGED <<entry, disk, run, tracked, other, pc, job, amiss>>,
           net' \subseteq net, rule' = rule \/ rule' \in {"absent", "foreign"},
           link' \in 0..4, net' # {} => link' = link,
           proc' \in {"none", "down", "up", "leaving"},
           queue' \in Seq(Events), Len(queue') <= MaxQueue
    PROVE  /\ Shapes' /\ Coverage' /\ Phases' /\ Applying' /\ Exclusive' /\ Sessions'
           /\ Following' = Following
<1>1. Installed' \subseteq Installed BY DEF Installed
<1>2. Following' = Following BY DEF Following
<1>3. Shapes' BY DEF TunnelInv, Shapes
<1>4. Coverage'
    <2>1. link' = 0 => net' = {} BY DEF TunnelInv, Coverage
    <2>2. ASSUME Covers(disk) PROVE Covers(disk)' BY <1>1, <2>2 DEF Covers
    <2>3. ASSUME Covers(entry) PROVE Covers(entry)' BY <1>1, <2>3 DEF Covers
    <2> QED BY <1>1, <2>1, <2>2, <2>3 DEF TunnelInv, Coverage
<1>5. Phases' BY <1>2 DEF TunnelInv, Phases
<1>6. Applying' BY <1>1, <1>2 DEF TunnelInv, Applying
<1>7. Exclusive' /\ Sessions' BY DEF TunnelInv, Exclusive, Sessions, Followed
<1> QED BY <1>2, <1>3, <1>4, <1>5, <1>6, <1>7

\* More events in the socket of a tracked child.
LEMMA Told ==
    ASSUME queue \in Seq(Events), NEW evs \in Seq(Events), Len(queue) + Len(evs) <= MaxQueue,
           Tell(evs)
    PROVE  /\ queue' \in Seq(Events) /\ Len(queue') <= MaxQueue
           /\ ~tracked => queue' = queue
           /\ tracked => /\ Len(queue') = Len(queue) + Len(evs)
                         /\ \A i \in 1..Len(queue) : queue'[i] = queue[i]
                         /\ \A i \in 1..Len(evs) : queue'[Len(queue) + i] = evs[i]
<1>1. CASE tracked BY <1>1, OpenVpnAssumption DEF Tell
<1>2. CASE ~tracked BY <1>2, OpenVpnAssumption DEF Tell
<1> QED BY <1>1, <1>2

\* What the events before the j-th say holds until a session is told.
LEMMA NoSessionTold ==
    ASSUME run' = run, NEW j \in Nat, NEW m \in Nat, j <= m, NoSession(j),
           \A i \in 1..(j - 1) : queue'[i] = queue[i],
           \A i \in j..(m - 1) : queue'[i] # "connected"
    PROVE  NoSession(m)'
<1>0. \A i \in 1..(m - 1) : i \in 1..(j - 1) \/ i \in j..(m - 1)
    OBVIOUS
<1>1. CASE run.active = "none" /\ \A i \in 1..(j - 1) : queue[i] # "connected"
    BY <1>0, <1>1 DEF NoSession
<1>2. ASSUME NEW i \in 1..(j - 1), queue[i] = "reconnecting",
             \A h \in i..(j - 1) : queue[h] # "connected"
      PROVE  NoSession(m)'
    <2>1. i \in 1..(m - 1) /\ \A h \in i..(m - 1) : h \in 1..(m - 1) /\ (h \in 1..(j - 1) => h \in i..(j - 1))
        OBVIOUS
    <2>2. \A h \in i..(m - 1) : queue'[h] # "connected" BY <1>0, <1>2, <2>1
    <2> QED BY <1>2, <2>1, <2>2 DEF NoSession
<1> QED BY <1>1, <1>2 DEF NoSession

\* A child without a last word tells what it does in order: the end of a session
\* before it is on its way to the next.
LEMMA HeardTold ==
    ASSUME TunnelInv, UNCHANGED <<run, tracked, pc>>, Following' = Following,
           proc \in {"down", "up"}, NEW evs \in Seq(Events),
           Len(queue) + Len(evs) <= MaxQueue, Tell(evs),
           \A i \in 1..Len(evs) : evs[i] = "exiting" => i = Len(evs) /\ proc' = "leaving",
           \A i \in 1..Len(evs) : evs[i] = "connecting" =>
              proc = "down" /\ \A h \in 1..(i - 1) : evs[h] # "connected",
           proc' = "down" =>
              \/ proc = "down" /\ \A h \in 1..Len(evs) : evs[h] # "connected"
              \/ Len(evs) = 1 /\ evs[1] = "reconnecting"
    PROVE  Heard'
<1>1. /\ queue \in Seq(Events) /\ Len(queue) \in Nat /\ Len(evs) \in Nat
      /\ Following \/ pc = "started" => tracked
    BY DEF TunnelInv, Shapes, Phases
<1>2. /\ queue' \in Seq(Events)
      /\ ~tracked => queue' = queue
      /\ tracked => /\ Len(queue') = Len(queue) + Len(evs)
                    /\ \A i \in 1..Len(queue) : queue'[i] = queue[i]
                    /\ \A i \in 1..Len(evs) : queue'[Len(queue) + i] = evs[i]
    BY <1>1, Told
<1>3. tracked => \A i \in 1..Len(queue') : i \in 1..Len(queue) \/ i - Len(queue) \in 1..Len(evs)
    BY <1>1, <1>2
<1>4. tracked => \A i \in 1..Len(queue') :
         i - Len(queue) \in 1..Len(evs) => queue'[i] = evs[i - Len(queue)]
    <2> SUFFICES ASSUME tracked, NEW i \in 1..Len(queue'), i - Len(queue) \in 1..Len(evs)
                 PROVE  queue'[i] = evs[i - Len(queue)]
        OBVIOUS
    <2>1. queue'[Len(queue) + (i - Len(queue))] = evs[i - Len(queue)] BY <1>2
    <2>2. Len(queue) + (i - Len(queue)) = i BY <1>1, <1>2
    <2> QED BY <2>1, <2>2
<1>5. \A i \in 1..Len(queue) : queue[i] # "exiting"
    BY DEF TunnelInv, Heard
<1>6. \A i \in 1..Len(queue') : queue'[i] = "exiting" =>
         i = Len(queue') /\ proc' \in {"leaving", "none"}
    <2>1. CASE tracked
        <3> SUFFICES ASSUME NEW i \in 1..Len(queue'), queue'[i] = "exiting"
                     PROVE  i = Len(queue') /\ proc' = "leaving"
            OBVIOUS
        <3>1. i - Len(queue) \in 1..Len(evs) BY <1>2, <1>3, <1>5, <2>1
        <3>2. evs[i - Len(queue)] = "exiting" BY <1>4, <2>1, <3>1
        <3>3. i - Len(queue) = Len(evs) /\ proc' = "leaving" BY <3>1, <3>2
        <3> QED BY <1>1, <1>2, <2>1, <3>3
    <2>2. CASE ~tracked BY <1>2, <1>5, <2>2
    <2> QED BY <2>1, <2>2
<1>7. ~(run.state = "exiting" /\ Following) /\ (~tracked => queue' = <<>>)
    BY <1>2 DEF TunnelInv, Heard
<1>8. ASSUME Following \/ pc = "started", proc' = "down"
      PROVE  NoSession(Len(queue) + 1)'
    <2>0. tracked BY <1>1, <1>8
    <2>1. CASE proc = "down" /\ \A h \in 1..Len(evs) : evs[h] # "connected"
        <3>1. NoSession(Len(queue) + 1) BY <1>8, <2>1 DEF TunnelInv, Heard
        <3>2. PICK j \in Nat : j = Len(queue) + 1 BY <1>1
        <3>3. PICK m \in Nat : m = Len(queue') + 1 BY <1>1, <1>2, <2>0
        <3>4. j <= m /\ NoSession(j) /\ \A i \in 1..(j - 1) : queue'[i] = queue[i]
            BY <1>1, <1>2, <2>0, <3>1, <3>2, <3>3
        <3>5. \A i \in j..(m - 1) : queue'[i] # "connected"
            <4>1. \A i \in j..(m - 1) : i \in 1..Len(queue') /\ i - Len(queue) \in 1..Len(evs)
                BY <1>1, <1>2, <2>0, <3>2, <3>3
            <4> QED BY <1>4, <2>0, <2>1, <4>1
        <3>6. NoSession(m)' BY <3>4, <3>5, NoSessionTold
        <3> QED BY <3>3, <3>6 DEF NoSession
    <2>2. CASE Len(evs) = 1 /\ evs[1] = "reconnecting"
        <3>1. Len(queue') = Len(queue) + 1 /\ queue'[Len(queue')] = "reconnecting"
            BY <1>1, <1>2, <2>0, <2>2
        <3>2. PICK n \in Nat : n = Len(queue') BY <1>1, <3>1
        <3>3. n \in 1..((n + 1) - 1) /\ \A m \in n..((n + 1) - 1) : m = n BY <1>1, <3>1, <3>2
        <3>4. queue'[n] = "reconnecting" /\ \A m \in n..((n + 1) - 1) : queue'[m] # "connected"
            BY <3>1, <3>2, <3>3
        <3>5. NoSession(n + 1)' BY <3>3, <3>4 DEF NoSession
        <3> QED BY <3>2, <3>5 DEF NoSession
    <2> QED BY <1>8, <2>1, <2>2
<1>9. ASSUME Following \/ pc = "started", NEW m \in 1..Len(queue'), queue'[m] = "connecting"
      PROVE  NoSession(m)'
    <2>0. tracked /\ m \in Nat BY <1>1, <1>9
    <2>1. CASE m \in 1..Len(queue)
        <3>1. NoSession(m) /\ \A i \in 1..(m - 1) : queue'[i] = queue[i]
            BY <1>1, <1>2, <1>9, <2>0, <2>1 DEF TunnelInv, Heard
        <3>2. m <= m /\ \A i \in m..(m - 1) : FALSE BY <2>0
        <3> QED BY <2>0, <3>1, <3>2, NoSessionTold
    <2>2. CASE m - Len(queue) \in 1..Len(evs)
        <3>0. /\ proc = "down"
              /\ \A h \in 1..((m - Len(queue)) - 1) : evs[h] # "connected"
            BY <1>4, <1>9, <2>0, <2>2
        <3>1. NoSession(Len(queue) + 1) BY <1>9, <3>0 DEF TunnelInv, Heard
        <3>2. PICK j \in Nat : j = Len(queue) + 1 BY <1>1
        <3>4. j <= m /\ NoSession(j) /\ \A i \in 1..(j - 1) : queue'[i] = queue[i]
            BY <1>1, <1>2, <2>0, <2>2, <3>1, <3>2
        <3>5. \A i \in j..(m - 1) : queue'[i] # "connected"
            <4>1. \A i \in j..(m - 1) : /\ i \in 1..Len(queue') /\ i - Len(queue) \in 1..Len(evs)
                                        /\ i - Len(queue) \in 1..((m - Len(queue)) - 1)
                BY <1>1, <1>2, <2>0, <2>2, <3>2
            <4> QED BY <1>4, <2>0, <3>0, <4>1
        <3> QED BY <2>0, <3>4, <3>5, NoSessionTold
    <2> QED BY <1>3, <2>0, <2>1, <2>2
<1> QED BY <1>6, <1>7, <1>8, <1>9 DEF Heard

\* Unread losses stay unread while the child goes on telling.
LEMMA StillUnread ==
    ASSUME queue \in Seq(Events), NEW evs \in Seq(Events), Len(queue) + Len(evs) <= MaxQueue,
           Tell(evs), NEW i \in 1..Len(queue), queue[i] = "reconnecting"
    PROVE  \E j \in 1..Len(queue') : queue'[j] = "reconnecting"
<1>1. i \in 1..Len(queue') /\ queue'[i] = queue[i]
    <2>1. CASE tracked BY <2>1, Told
    <2>2. CASE ~tracked BY <2>2, Told
    <2> QED BY <2>1, <2>2
<1> QED BY <1>1

\* A new session may have a new link, but then the loss of the old one is in
\* the socket.
LEMMA EstablishInv ==
    ASSUME TunnelInv, NEW p \in Pushes, Establish(p)
    PROVE  TunnelInv'
<1>0. PICK evs \in {<<p, "connected">>, <<p, "connecting", "connected">>} :
         Len(queue) + Len(evs) <= MaxQueue /\ Tell(evs)
    BY DEF Establish
<1>z. /\ proc = "down" /\ proc' = "up"
      /\ link' = IF link = 0 THEN Fresh ELSE link
      /\ UNCHANGED <<entry, disk, run, tracked, net, rule, other, pc, job, amiss>>
    BY DEF Establish, journals, core
<1>1. queue \in Seq(Events) /\ Len(queue) \in Nat /\ link \in 0..4 /\ (link = 0 => net = {})
    BY DEF TunnelInv, Shapes, Coverage
<1>2. /\ evs \in Seq(Events)
      /\ \A i \in 1..Len(evs) :
            /\ evs[i] # "exiting"
            /\ evs[i] = "connecting" => \A h \in 1..(i - 1) : evs[h] # "connected"
    <2>0. /\ p \in Events /\ p \notin {"exiting", "connecting", "connected"}
          /\ {"connecting", "connected"} \subseteq Events
        BY DEF Events, Pushes
    <2>1. CASE evs = <<p, "connected">>
        <3>1. evs \in Seq(Events) BY <2>0, <2>1
        <3>2. Len(evs) = 2 /\ evs[1] = p /\ evs[2] = "connected" BY <2>1
        <3>3. 1..Len(evs) = {1, 2} BY <3>2
        <3> QED BY <2>0, <3>1, <3>2, <3>3
    <2>2. CASE evs = <<p, "connecting", "connected">>
        <3>1. evs \in Seq(Events) BY <2>0, <2>2
        <3>2. Len(evs) = 3 /\ evs[1] = p /\ evs[2] = "connecting" /\ evs[3] = "connected"
            BY <2>2
        <3>3. 1..Len(evs) = {1, 2, 3} BY <3>2
        <3>4. \A h \in 1..(2 - 1) : h = 1 OBVIOUS
        <3> QED BY <2>0, <3>1, <3>2, <3>3, <3>4
    <2> QED BY <1>0, <2>1, <2>2
<1>e. Tell(evs) /\ Len(queue) + Len(evs) <= MaxQueue BY <1>0
<1>3. link' \in 0..4 /\ (net' # {} => link' = link)
    <2>1. Fresh \in 1..4 BY FreshIndex DEF TunnelInv
    <2>2. Fresh \in 0..4 BY <2>1
    <2> QED BY <1>z, <1>1, <2>2
<1>4. /\ Shapes' /\ Coverage' /\ Phases' /\ Applying' /\ Exclusive' /\ Sessions'
      /\ Following' = Following
    BY <1>z, <1>1, <1>2, <1>e, <1>3, Told, OutsideKeeps
<1>6. Heard'
    BY <1>z, <1>2, <1>e, <1>4, HeardTold
<1>7. OnLink'
    <2> SUFFICES ASSUME \/ pc \in {"idle", "restore"} /\ entry.state = "applied"
                        \/ pc \in {"step", "kernel", "flag"},
                        run.active # "none"
                 PROVE  \E i \in 1..Len(queue') : queue'[i] = "reconnecting"
        BY <1>z DEF OnLink
    <2>1. Following BY DEF Following
    <2>2. NoSession(Len(queue) + 1) BY <1>z, <2>1 DEF TunnelInv, Heard
    <2>3. \E i \in 1..Len(queue) : queue[i] = "reconnecting" BY <1>1, <2>2, NoSessionAt
    <2> QED BY <1>1, <1>2, <1>e, <2>3, StillUnread
<1> QED BY <1>4, <1>6, <1>7 DEF TunnelInv

\* What the child tells on its way changes nothing that matters.
LEMMA ProgressInv ==
    ASSUME TunnelInv, Progress
    PROVE  TunnelInv'
<1> DEFINE evs == <<"connecting">>
<1>0. /\ proc = "down" /\ proc' = proc /\ Len(queue) < MaxQueue /\ Tell(evs)
      /\ UNCHANGED <<entry, disk, run, tracked, link, net, rule, other, pc, job, amiss>>
    BY DEF Progress, journals, core, kernel
<1>1. queue \in Seq(Events) /\ Len(queue) \in Nat /\ link \in 0..4
    BY DEF TunnelInv, Shapes
<1>2. /\ evs \in Seq(Events) /\ Len(evs) = 1 /\ evs[1] = "connecting"
      /\ Len(queue) + Len(evs) <= MaxQueue /\ 1..Len(evs) = {1} /\ 1..(1 - 1) = {}
    BY <1>0, <1>1, OpenVpnAssumption DEF Events
<1> HIDE DEF evs
<1>3. /\ Shapes' /\ Coverage' /\ Phases' /\ Applying' /\ Exclusive' /\ Sessions'
      /\ Following' = Following
    BY <1>0, <1>1, <1>2, Told, OutsideKeeps
<1>4. Heard' BY <1>0, <1>2, <1>3, HeardTold
<1>5. OnLink'
    <2>1. (\E i \in 1..Len(queue) : queue[i] = "reconnecting") =>
              \E i \in 1..Len(queue') : queue'[i] = "reconnecting"
        BY <1>0, <1>1, <1>2, StillUnread
    <2> QED BY <1>0, <2>1 DEF TunnelInv, OnLink
<1> QED BY <1>3, <1>4, <1>5 DEF TunnelInv

\* The loss of a session is told, whatever becomes of its link.
LEMMA DropInv ==
    ASSUME TunnelInv, Drop
    PROVE  TunnelInv'
<1> DEFINE evs == <<"reconnecting">>
<1>0. /\ proc = "up" /\ proc' = "down" /\ Len(queue) < MaxQueue /\ Tell(evs)
      /\ \/ link' = link /\ net' = net
         \/ link' = 0 /\ net' = {}
      /\ UNCHANGED <<entry, disk, run, tracked, rule, other, pc, job, amiss>>
    BY DEF Drop, journals, core
<1>1. queue \in Seq(Events) /\ Len(queue) \in Nat /\ link \in 0..4 /\ 0 \in 0..4
    BY DEF TunnelInv, Shapes
<1>2. /\ evs \in Seq(Events) /\ Len(evs) = 1 /\ evs[1] = "reconnecting"
      /\ Len(queue) + Len(evs) <= MaxQueue /\ 1..Len(evs) = {1}
    BY <1>0, <1>1, OpenVpnAssumption DEF Events
<1> HIDE DEF evs
<1>3. /\ Shapes' /\ Coverage' /\ Phases' /\ Applying' /\ Exclusive' /\ Sessions'
      /\ Following' = Following
    BY <1>0, <1>1, <1>2, Told, OutsideKeeps
<1>4. Heard' BY <1>0, <1>2, <1>3, HeardTold
<1>5. OnLink'
    <2> SUFFICES ASSUME \/ pc \in {"idle", "restore"} /\ entry.state = "applied"
                        \/ pc \in {"step", "kernel", "flag"}
                 PROVE  \E i \in 1..Len(queue') : queue'[i] = "reconnecting"
        BY <1>0 DEF OnLink
    <2>1. tracked BY DEF TunnelInv, Phases, Following
    <2>2. Len(queue') = Len(queue) + 1 /\ \A i \in {1} : queue'[Len(queue) + i] = "reconnecting"
        BY <1>0, <1>1, <1>2, <2>1, Told
    <2>3. Len(queue) + 1 \in 1..Len(queue') /\ queue'[Len(queue) + 1] = "reconnecting"
        BY <1>1, <2>2
    <2> QED BY <2>3
<1> QED BY <1>3, <1>4, <1>5 DEF TunnelInv

\* A refused or leaving child says so last.
LEMMA LastWordsInv ==
    ASSUME TunnelInv, NEW ev \in {"auth", "exiting"}, LastWords(ev)
    PROVE  TunnelInv'
<1> DEFINE evs == <<ev>>
<1>0. /\ proc = "down" /\ proc' = "leaving" /\ Len(queue) < MaxQueue /\ Tell(evs)
      /\ UNCHANGED <<entry, disk, run, tracked, link, net, rule, other, pc, job, amiss>>
    BY DEF LastWords, journals, core, kernel
<1>1. queue \in Seq(Events) /\ Len(queue) \in Nat /\ link \in 0..4
    BY DEF TunnelInv, Shapes
<1>2. /\ evs \in Seq(Events) /\ Len(evs) = 1 /\ evs[1] # "connecting"
      /\ Len(queue) + Len(evs) <= MaxQueue /\ 1..Len(evs) = {1}
    BY <1>0, <1>1, OpenVpnAssumption DEF Events
<1> HIDE DEF evs
<1>3. /\ Shapes' /\ Coverage' /\ Phases' /\ Applying' /\ Exclusive' /\ Sessions'
      /\ Following' = Following
    BY <1>0, <1>1, <1>2, Told, OutsideKeeps
<1>4. Heard' BY <1>0, <1>2, <1>3, HeardTold
<1>5. OnLink'
    <2>1. (\E i \in 1..Len(queue) : queue[i] = "reconnecting") =>
              \E i \in 1..Len(queue') : queue'[i] = "reconnecting"
        BY <1>0, <1>1, <1>2, StillUnread
    <2> QED BY <1>0, <2>1 DEF TunnelInv, OnLink
<1> QED BY <1>3, <1>4, <1>5 DEF TunnelInv

\* With a child that dies goes its link.
LEMMA ChildDiesInv ==
    ASSUME TunnelInv, ChildDies
    PROVE  TunnelInv'
<1>0. /\ proc' = "none" /\ link' = 0 /\ net' = {}
      /\ UNCHANGED <<entry, disk, run, tracked, queue, rule, other, pc, job, amiss>>
    BY DEF ChildDies, journals, core
<1>1. queue \in Seq(Events) /\ Len(queue) <= MaxQueue /\ 0 \in 0..4
    BY DEF TunnelInv, Shapes
<1>2. /\ Shapes' /\ Coverage' /\ Phases' /\ Applying' /\ Exclusive' /\ Sessions'
      /\ Following' = Following
    BY <1>0, <1>1, OutsideKeeps
<1>3. Heard' BY <1>0, <1>2 DEF TunnelInv, Heard, NoSession
<1>4. OnLink' BY <1>0 DEF OnLink
<1> QED BY <1>2, <1>3, <1>4 DEF TunnelInv

\* Others take away, or hold the priority.
LEMMA NetEditedInv ==
    ASSUME TunnelInv, NetEdited
    PROVE  TunnelInv'
<1>0. /\ net' \subseteq net /\ (rule' = rule \/ rule' \in {"absent", "foreign"})
      /\ UNCHANGED <<entry, disk, run, proc, tracked, queue, link, other, pc, job, amiss>>
    BY DEF NetEdited, journals, child, core
<1>1. /\ queue \in Seq(Events) /\ Len(queue) <= MaxQueue /\ link \in 0..4
      /\ proc \in {"none", "down", "up", "leaving"}
    BY DEF TunnelInv, Shapes
<1>2. /\ Shapes' /\ Coverage' /\ Phases' /\ Applying' /\ Exclusive' /\ Sessions'
      /\ Following' = Following
    BY <1>0, <1>1, OutsideKeeps
<1>3. Heard' /\ OnLink' BY <1>0, <1>2 DEF TunnelInv, Heard, NoSession, OnLink
<1> QED BY <1>2, <1>3 DEF TunnelInv

\* Another full tunnel comes only while this one is not one.
LEMMA OtherFullInv ==
    ASSUME TunnelInv, OtherFull
    PROVE  TunnelInv'
<1>0. /\ pc = "idle" /\ (~other => ~entry.full) /\ other' = ~other /\ disk' = entry
      /\ UNCHANGED <<entry, run, proc, tracked, queue, link, net, rule, pc, job, amiss>>
    BY DEF OtherFull, child, kernel, core
<1>1. Following' = Following BY <1>0 DEF Following
<1>2. Shapes'
    <2>1. other' \in BOOLEAN BY <1>0, Zenon DEF TunnelInv, Shapes
    <2> QED BY <1>0, <2>1 DEF TunnelInv, Shapes
<1>3. Coverage' BY <1>0 DEF TunnelInv, Coverage, Covers, Installed
<1>4. Phases' BY <1>0, <1>1 DEF TunnelInv, Phases
<1>5. Applying' /\ Exclusive' BY <1>0, <1>1 DEF TunnelInv, Applying, Exclusive
<1>6. Sessions' /\ OnLink' BY <1>0 DEF TunnelInv, Sessions, OnLink, Followed
<1>7. Heard' BY <1>0, <1>1 DEF TunnelInv, Heard, NoSession
<1> QED BY <1>2, <1>3, <1>4, <1>5, <1>6, <1>7 DEF TunnelInv

\* A crash leaves the file to cover the kernel.
LEMMA CrashInv ==
    ASSUME TunnelInv, Crash
    PROVE  TunnelInv'
<1>0. /\ pc' = "down" /\ job' = Rest /\ entry' = NoEntry /\ run' = NoRun /\ tracked' = FALSE
      /\ queue' = <<>> /\ amiss' = amiss \ {"session"}
      /\ UNCHANGED <<disk, proc, link, net, rule, other>>
    BY DEF Crash, kernel
<1>1. ~Following' BY <1>0 DEF Following
<1>2. Shapes'
    <2>1. run' \in Snaps /\ run'.active = "none" BY <1>0 DEF NoRun, Snaps
    <2>2. queue' \in Seq(Events) /\ Len(queue') <= MaxQueue BY <1>0, OpenVpnAssumption
    <2>3. tracked' \in BOOLEAN BY <1>0, Zenon
    <2>4. Sound(entry') /\ job' \in Jobs BY <1>0, SoundEntries, JobTypes
    <2>5. amiss' \subseteq {"session", "dns"} BY <1>0 DEF TunnelInv, Shapes
    <2> QED BY <1>0, <2>1, <2>2, <2>3, <2>4, <2>5 DEF TunnelInv, Shapes
<1>3. Coverage'
    <2>1. net \ amiss' = net \ amiss BY <1>0 DEF TunnelInv, Shapes, Objects, Pushes
    <2> QED BY <1>0, <2>1 DEF TunnelInv, Coverage, Covers, Installed
<1>4. Phases' BY <1>0, <1>1 DEF Phases, NoEntry
<1>5. Applying' /\ Exclusive' BY <1>0, <1>1 DEF TunnelInv, Applying, Exclusive, NoEntry
<1>6. Heard' BY <1>0, <1>1 DEF Heard
<1> QED BY <1>1, <1>2, <1>3, <1>4, <1>5, <1>6, NotFollowing DEF TunnelInv

\* A restart takes over what the file names, to tear it down.
LEMMA RestartInv ==
    ASSUME TunnelInv, Restart
    PROVE  TunnelInv'
<1>0. /\ pc = "down" /\ entry' = disk
      /\ \/ disk = NoEntry /\ pc' = "idle" /\ job' = job
         \/ /\ disk # NoEntry /\ pc' = "teardown" /\ job' = [Rest EXCEPT !.teardown = TRUE]
      /\ UNCHANGED <<disk, run, proc, tracked, queue, link, net, rule, other, amiss>>
    BY DEF Restart, Fail, child, kernel
<1>1. /\ run = NoRun /\ ~tracked /\ Sound(disk)
      /\ [Rest EXCEPT !.teardown = TRUE].teardown /\ NoEntry.state = "none"
    BY <1>0 DEF TunnelInv, Phases, Shapes, Rest, NoEntry
<1>2. disk.state = "none" <=> disk = NoEntry
    BY <1>1 DEF Sound
<1>3. ~Following' BY <1>0, <1>1 DEF Following
<1>4. Shapes' BY <1>0, JobTypes DEF TunnelInv, Shapes
<1>5. Coverage' BY <1>0, <1>1 DEF TunnelInv, Coverage, Covers, Installed
<1>6. Phases' BY <1>0, <1>1, <1>2, <1>3 DEF Phases
<1>7. Applying' /\ Exclusive' BY <1>0, <1>3 DEF TunnelInv, Applying, Exclusive
<1>8. Heard' BY <1>0, <1>3, KeepsHeard DEF TunnelInv
<1> QED BY <1>3, <1>4, <1>5, <1>6, <1>7, <1>8, NotFollowing DEF TunnelInv

-----------------------------------------------------------------------------
(* A tunnel nobody lists has nothing on its link, not even what is amiss.  *)

Forgotten ==
    /\ pc # "down" /\ entry.state # "none" => disk.state # "none"
    /\ pc # "down" /\ entry.state = "none" => net = {}
    /\ disk.state = "none" => net = {}
    /\ pc = "cleanup" => net = {}

\* While there is an entry, nothing is forgotten.
LEMMA ListedStep ==
    ASSUME Forgotten, pc # "down", entry.state # "none", entry'.state # "none", pc' # "cleanup",
           disk'.state \in {disk.state, entry'.state}
    PROVE  Forgotten'
BY DEF Forgotten

\* The steps of the thread in the core on an entry it keeps.
LEMMA ForgottenCore ==
    ASSUME TunnelInv, Forgotten, NEW ok \in BOOLEAN,
           \/ Spawn(ok) \/ Started(ok) \/ TakeLink(ok) \/ JournalStep(ok) \/ KernelStep(ok)
           \/ SaveFlag(ok) \/ ClearItem(ok) \/ ClearFailed(ok) \/ Stop(ok) \/ Restore(ok)
           \/ PollDone \/ RestoreDone \/ NetPass \/ Taken \/ Disconnect
           \/ \E how \in {"applied", "unavailable", "failed"} : DnsStep(how)
           \/ \E applied \in BOOLEAN : ReapplyDns(applied, ok)
           \/ \E k \in Nat : Poll(k)
    PROVE  Forgotten'
<1>1. entry \in Entry /\ disk \in Entry BY DEF TunnelInv, Shapes, Sound
<1>2. CASE Spawn(ok) \/ Started(ok)
    <2>1. pc # "down" /\ entry.state = "applying" /\ pc' # "cleanup"
        BY <1>2 DEF TunnelInv, Phases, NoEntry, Spawn, Started, Fail
    <2>2. \/ entry' = entry /\ disk' = disk
          \/ entry' = [entry EXCEPT !.state = "applied"] /\ disk' \in {disk, entry'}
        BY <1>2 DEF Spawn, Started, Save, journals
    <2>3. entry'.state # "none" /\ disk'.state \in {disk.state, entry'.state}
        BY <1>1, <2>1, <2>2 DEF Entry
    <2> QED BY <2>1, <2>3, ListedStep
<1>3. CASE TakeLink(ok) \/ JournalStep(ok) \/ KernelStep(ok) \/ SaveFlag(ok) \/ Taken
           \/ \E how \in {"applied", "unavailable", "failed"} : DnsStep(how)
    <2>1. pc # "down" /\ entry.state = "applied" /\ pc' # "cleanup"
        BY <1>3 DEF TunnelInv, Phases, Following, TakeLink, JournalStep, KernelStep, SaveFlag, Taken,
                    DnsStep, Fail, Settled
    <2>2. entry'.state = entry.state /\ disk'.state \in {disk.state, entry.state}
        <3>1. CASE TakeLink(ok)
            BY <1>1, <2>1, <3>1 DEF TakeLink, Save, journals, Entry
        <3>2. CASE JournalStep(ok)
            BY <1>1, <2>1, <3>2 DEF JournalStep, Save, Entry
        <3>3. CASE KernelStep(ok) \/ SaveFlag(ok)
            BY <3>3 DEF KernelStep, SaveFlag, Save, journals
        <3>4. CASE Taken
            BY <1>1, <3>4 DEF Taken, Entry
        <3>5. ASSUME NEW how \in {"applied", "unavailable", "failed"}, DnsStep(how)
              PROVE  entry'.state = entry.state /\ disk' = disk
            BY <1>1, <3>5 DEF DnsStep, Entry
        <3> QED BY <1>3, <3>1, <3>2, <3>3, <3>4, <3>5
    <2> QED BY <2>1, <2>2, ListedStep
<1>4. CASE ClearItem(ok) \/ ClearFailed(ok) \/ Stop(ok)
    <2>1. pc # "down" /\ entry.state # "none" /\ pc' # "cleanup"
        BY <1>4 DEF TunnelInv, Phases, ClearItem, ClearFailed, Stop, Fail
    <2>2. \/ entry' = entry /\ disk' \in {disk, entry}
          \/ entry' = [entry EXCEPT !.state = "stale"] /\ disk' = disk
        BY <1>4 DEF ClearItem, ClearFailed, Stop, Stale, Save
    <2>3. entry'.state # "none" /\ disk'.state \in {disk.state, entry'.state}
        BY <1>1, <2>1, <2>2 DEF Entry
    <2> QED BY <2>1, <2>3, ListedStep
<1>5. CASE \/ Restore(ok) \/ PollDone \/ RestoreDone \/ NetPass \/ Disconnect
           \/ \E k \in Nat : Poll(k)
    <2>1. entry' = entry /\ disk' = disk /\ pc # "down" /\ pc' # "cleanup"
        BY <1>5 DEF Restore, PollDone, RestoreDone, NetPass, Disconnect, Poll, Fail, journals, core
    <2>2. entry.state # "none"
        BY <1>5 DEF TunnelInv, Phases, Following, Restore, PollDone, RestoreDone, NetPass, Disconnect,
                    Poll, Shapes, Sound
    <2> QED BY <2>1, <2>2, ListedStep
<1>6. ASSUME NEW applied \in BOOLEAN, ReapplyDns(applied, ok) PROVE Forgotten'
    <2>1. /\ pc = "idle" /\ pc' = "idle" /\ entry.state = "applied"
          /\ entry' = [entry EXCEPT !.dnsOn = applied] /\ disk' \in {disk, entry'}
        BY <1>6 DEF ReapplyDns, Save, core
    <2>2. entry'.state = "applied" /\ disk'.state \in {disk.state, entry'.state}
        BY <1>1, <2>1 DEF Entry
    <2> QED BY <2>1, <2>2, ListedStep
<1> QED BY <1>2, <1>3, <1>4, <1>5, <1>6

\* The steps that make and forget entries.
LEMMA ForgottenEnds ==
    ASSUME TunnelInv, Forgotten, NEW ok \in BOOLEAN,
           Connect(ok) \/ ClearDone(ok) \/ Cleanup(ok) \/ Finish(ok) \/ OtherFull \/ Crash \/ Restart
    PROVE  Forgotten'
<1>1. /\ entry \in Entry /\ disk \in Entry /\ NoEntry.state = "none"
      /\ [NoEntry EXCEPT !.state = "applying"].state = "applying"
    BY DEF TunnelInv, Shapes, Sound, NoEntry
<1>2. CASE Connect(ok)
    <2>1. net = {} /\ net' = net BY <1>2 DEF TunnelInv, Coverage, Connect, kernel
    <2>2. /\ pc = "idle" /\ pc' \in {"idle", "spawn"} /\ entry = NoEntry
          /\ \/ entry' = [NoEntry EXCEPT !.state = "applying"] /\ disk' = entry'
             \/ entry' = entry
        BY <1>2 DEF Connect, Save
    <2> QED BY <1>1, <2>1, <2>2 DEF Forgotten
<1>3. CASE ClearDone(ok)
    <2>1. /\ pc = "clear" /\ entry.state # "none" /\ disk.state # "none" /\ net' = net
          /\ job.teardown => net = {}
        BY <1>3 DEF TunnelInv, Phases, Forgotten, ClearDone, kernel
    <2>2. Cleared.state = entry.state /\ [Cleared EXCEPT !.state = "stale"].state = "stale"
        BY <1>1 DEF Cleared, Entry
    <2>3. /\ entry' \in {Cleared, [Cleared EXCEPT !.state = "stale"]} /\ disk' \in {disk, Cleared}
          /\ pc' = "cleanup" => job.teardown
        BY <1>3 DEF ClearDone, Save, Fail
    <2> QED BY <2>1, <2>2, <2>3 DEF Forgotten
<1>4. CASE Cleanup(ok)
    <2>1. /\ pc = "cleanup" /\ pc' = "finish" /\ net = {} /\ net' = net /\ disk' = disk
          /\ entry.state # "none"
        BY <1>4 DEF TunnelInv, Phases, Forgotten, Cleanup, kernel
    <2> QED BY <2>1 DEF Forgotten
<1>5. CASE Finish(ok) \/ OtherFull
    <2>1. pc # "down" /\ pc' = "idle" /\ entry' = entry /\ disk' \in {disk, entry} /\ net' = net
        BY <1>5 DEF Finish, OtherFull, Save, kernel, core
    <2> QED BY <2>1 DEF Forgotten
<1>6. CASE Crash
    BY <1>6 DEF Forgotten, Crash, kernel
<1>7. CASE Restart
    BY <1>7 DEF Forgotten, Restart, Fail, kernel
<1> QED BY <1>2, <1>3, <1>4, <1>5, <1>6, <1>7

\* No step puts anything on the link of a tunnel that nobody lists.
LEMMA ForgottenStep == TunnelInv /\ Forgotten /\ [Next]_vars => Forgotten'
<1> SUFFICES ASSUME TunnelInv, Forgotten, [Next]_vars PROVE Forgotten'
    OBVIOUS
<1>1. CASE UNCHANGED <<entry, disk, pc>> /\ net' \subseteq net
    BY <1>1 DEF Forgotten
<1>2. CASE CoreStep
    BY <1>2, ForgottenCore, ForgottenEnds DEF CoreStep
<1>3. CASE PollAll \/ Pass \/ Entering
    <2>1. Len(queue) \in Nat /\ \A k \in 0..MaxQueue : k \in Nat
        BY OpenVpnAssumption DEF TunnelInv, Shapes
    <2> QED BY <1>3, <2>1, ForgottenCore, ForgottenEnds DEF PollAll, Pass, Entering
<1>4. CASE World
    <2>1. ASSUME NEW p, Establish(p) PROVE UNCHANGED <<entry, disk, pc, net>>
        BY <2>1 DEF Establish, journals, core
    <2>2. ASSUME NEW ev, LastWords(ev) PROVE UNCHANGED <<entry, disk, pc, net>>
        BY <2>2 DEF LastWords, journals, core, kernel
    <2>3. CASE Drop \/ ChildDies \/ NetEdited \/ Progress
        BY <1>1, <2>3 DEF Drop, ChildDies, NetEdited, Progress, journals, core, kernel
    <2> QED BY <1>1, <1>4, <2>1, <2>2, <2>3, ForgottenEnds DEF World, Leave
<1>5. CASE UNCHANGED vars
    BY <1>1, <1>5 DEF vars, journals, kernel, core
<1> QED BY <1>2, <1>3, <1>4, <1>5 DEF Next

-----------------------------------------------------------------------------
(* The theorems.                                                           *)

\* Every step of the daemon, the child and the outside keeps the invariant.
LEMMA TunnelStep == TunnelInv /\ [Next]_vars => TunnelInv'
<1> SUFFICES ASSUME TunnelInv, [Next]_vars PROVE TunnelInv'
    OBVIOUS
<1>1. CASE CoreStep
    BY <1>1, SpawnInv, StartedInv, TakeLinkInv, JournalStepInv, KernelStepInv, SaveFlagInv,
       ClearItemInv, ClearFailedInv, ClearDoneInv, StopInv, CleanupInv, FinishInv, RestoreInv,
       PollDoneInv, RestoreDoneInv, DnsStepInv, TakenInv DEF CoreStep
<1>2. CASE PollAll \/ Pass
    <2>1. Len(queue) \in Nat BY DEF TunnelInv, Shapes
    <2> QED BY <1>2, <2>1, PollInv, NetPassInv DEF PollAll, Pass
<1>3. CASE Entering
    <2>1. \A k \in 0..MaxQueue : k \in Nat BY OpenVpnAssumption
    <2> QED BY <1>3, <2>1, ConnectInv, ReapplyDnsInv, DisconnectInv, RestartInv, OtherFullInv, PollInv
            DEF Entering
<1>4. CASE World
    BY <1>4, ChildDiesInv, DropInv, CrashInv, NetEditedInv, LastWordsInv, EstablishInv, ProgressInv
       DEF World, Leave
<1>5. CASE UNCHANGED vars
    <2>1. Following' = Following /\ Installed' = Installed
        BY <1>5 DEF vars, journals, child, kernel, core, Following, Installed
    <2> QED BY <1>5, <2>1
            DEF vars, journals, child, kernel, core, TunnelInv, Shapes, Coverage, Covers, Phases,
                Applying, Exclusive, Sessions, Followed, Heard, NoSession, OnLink
<1> QED BY <1>1, <1>2, <1>3, <1>4, <1>5 DEF Next

\* The inductive invariant of the tunnel.
THEOREM OpenVpnInvariant == Spec => []TunnelInv
BY InitTunnel, TunnelStep, PTL DEF Spec

\* connect_openvpn, reconcile_openvpn_owner and teardown_openvpn_entry: however
\* many saves and kernel calls fail and wherever the daemon or the child dies, the
\* parts of an entry fit, and a tunnel the daemon has forgotten left no rule,
\* route or tracked child.
THEOREM OpenVpnRecordsAgree == Spec => []RecordsAgree
<1>1. TunnelInv /\ Forgotten => RecordsAgree
    <2> SUFFICES ASSUME TunnelInv, Forgotten PROVE RecordsAgree OBVIOUS
    <2>1. TypeOK
        BY DEF TunnelInv, Shapes, TypeOK, Sound, Snaps, Jobs
    <2>2. ForgottenIsClean
        <3> SUFFICES ASSUME AtRest, entry = NoEntry
                     PROVE  net = {} /\ rule # "ours" /\ ~tracked /\ run = NoRun
            BY DEF ForgottenIsClean
        <3>1. entry.state = "none" /\ entry.res = {} BY DEF NoEntry
        <3>2. Installed = {} BY <3>1 DEF TunnelInv, Coverage, Covers, AtRest
        <3>3. net = {} BY <3>1 DEF Forgotten, AtRest
        <3> QED BY <3>1, <3>2, <3>3 DEF TunnelInv, Phases, Installed
    <2> QED BY <2>1, <2>2 DEF RecordsAgree
<1>2. Init => Forgotten
    BY DEF Init, Forgotten
<1> QED BY <1>1, <1>2, ForgottenStep, OpenVpnInvariant, PTL DEF Spec

\* reconcile_openvpn_owner: once the socket is read out, the tunnel has the
\* network of its session on the link of that session, and none between sessions,
\* for any number of sessions, links and unread events.
THEOREM NetworkFollowsSession == Spec => []FollowsSession
<1>1. TunnelInv => FollowsSession
    <2> SUFFICES ASSUME TunnelInv, AtRest, entry.state = "applied", queue = <<>>, proc # "none"
                 PROVE  /\ run.state \in {"connected", "reconnecting"} => Followed
                        /\ proc = "up" /\ run.active # "none" => "session" \in amiss \/ entry.idx = link
        BY DEF FollowsSession
    <2>1. run.state \in {"connected", "reconnecting"} => Followed
        BY DEF TunnelInv, Sessions, AtRest
    <2>2. run.active # "none" => "session" \in amiss \/ entry.idx = link
        <3>1. ~\E i \in 1..Len(queue) : queue[i] = "reconnecting" OBVIOUS
        <3> QED BY <3>1 DEF TunnelInv, OnLink, AtRest
    <2> QED BY <2>1, <2>2
<1> QED BY <1>1, OpenVpnInvariant, PTL

\* openvpn_full_plan: two full tunnels never hold the default route at once,
\* although the other one may come between any two polls.
THEOREM OnlyOneFull == Spec => []OneFull
<1>1. TunnelInv => OneFull
    BY DEF TunnelInv, Exclusive, OneFull
<1> QED BY <1>1, OpenVpnInvariant, PTL

Claims == [o \in {"ovpn"} |-> disk.res]
Holds  == [o \in {"ovpn"} |-> (net \ amiss) \cup (IF rule = "ours" THEN {"rule"} ELSE {})]

\* Saving what covers the network, withdrawing, and adding one object that is
\* claimed are the steps of the ledger.
LEMMA LedgerStep ==
    ASSUME TunnelInv, TunnelInv',
           disk'.res = disk.res \/ Installed' = Installed,
           Installed' \subseteq Installed \/ \E r \in Objects : Installed' = Installed \cup {r}
    PROVE  Ledger!Next \/ UNCHANGED <<Claims, Holds>>
<1>0. disk.res \subseteq Objects /\ disk'.res \subseteq Objects
    BY DEF TunnelInv, Shapes, Sound, Entry
<1>1. Installed' \subseteq disk'.res /\ Installed \subseteq disk.res
    BY DEF TunnelInv, Coverage, Covers
<1>2. /\ Claims \in [{"ovpn"} -> SUBSET Objects] /\ Claims' \in [{"ovpn"} -> SUBSET Objects]
      /\ Holds' \in [{"ovpn"} -> SUBSET Objects] /\ Claims["ovpn"] = disk.res
      /\ Claims'["ovpn"] = disk'.res /\ Holds["ovpn"] = Installed /\ Holds'["ovpn"] = Installed'
    BY <1>0, <1>1 DEF Claims, Holds, Installed
<1>3. CASE Installed' = Installed
    <2>1. Holds' = Holds BY <1>3 DEF Holds, Installed
    <2>2. \A o \in {"ovpn"} : Holds[o] \subseteq Claims'[o] BY <1>1, <1>2, <1>3
    <2>3. Ledger!Rewrite(Claims') BY <2>1, <2>2 DEF Ledger!Rewrite, Claims, Holds
    <2> QED BY <1>2, <2>3 DEF Ledger!Next
<1>4. CASE disk'.res = disk.res /\ Installed' \subseteq Installed
    <2>1. Claims' = Claims BY <1>4 DEF Claims
    <2>2. \A o \in {"ovpn"} : Holds'[o] \subseteq Holds[o] BY <1>2, <1>4
    <2>3. Ledger!Withdraw(Holds') BY <2>1, <2>2 DEF Ledger!Withdraw, Claims, Holds
    <2> QED BY <1>2, <2>3 DEF Ledger!Next
<1>5. ASSUME NEW r \in Objects, r \notin Installed, Installed' = Installed \cup {r},
             disk'.res = disk.res
      PROVE  Ledger!Next
    <2>1. Claims' = Claims BY <1>5 DEF Claims
    <2>2. r \in Claims["ovpn"] /\ r \notin Holds["ovpn"] BY <1>1, <1>2, <1>5
    <2>3. Holds' = [Holds EXCEPT !["ovpn"] = @ \cup {r}] BY <1>5 DEF Holds, Installed
    <2>4. Ledger!Install("ovpn", r) BY <2>1, <2>2, <2>3 DEF Ledger!Install, Claims, Holds
    <2> QED BY <2>4 DEF Ledger!Next
<1>6. ASSUME NEW r \in Objects, r \in Installed, Installed' = Installed \cup {r}
      PROVE  Installed' = Installed
    BY <1>6
<1> QED BY <1>3, <1>4, <1>5, <1>6

\* No route, rule or DNS setting goes in before its claim is on disk, and no claim
\* is dropped while it is in: every step of the tunnel is a step of the ledger.
THEOREM OpenVpnImplementsLedger == Spec => ImplementsLedger
<1>1. Init => Ledger!Init
    BY DEF Init, Ledger!Init, Ledger!Nothing, NoEntry
<1>2. TunnelInv /\ TunnelInv' /\ [Next]_vars => [Ledger!Next]_<<Claims, Holds>>
    <2> SUFFICES ASSUME TunnelInv, TunnelInv', [Next]_vars
                 PROVE  Ledger!Next \/ UNCHANGED <<Claims, Holds>>
        OBVIOUS
    <2>a. net \subseteq Objects \ {"rule"} /\ "session" \notin Objects
        BY DEF TunnelInv, Shapes, Objects, Pushes
    <2>0. CASE UNCHANGED <<net, rule>> /\ amiss' \ {"session"} = amiss \ {"session"}
        <3>1. net' \ amiss' = net \ amiss BY <2>0, <2>a
        <3>2. Installed' = Installed BY <2>0, <3>1 DEF Installed
        <3> QED BY <3>2, LedgerStep
    <2>1. CASE disk' = disk /\ Installed' \subseteq Installed
        BY <2>1, LedgerStep
    <2>2. ASSUME NEW ok \in BOOLEAN,
                 \/ Connect(ok) \/ Spawn(ok) \/ Started(ok) \/ TakeLink(ok) \/ JournalStep(ok)
                 \/ SaveFlag(ok) \/ ClearFailed(ok) \/ ClearDone(ok) \/ Cleanup(ok) \/ Finish(ok)
          PROVE  UNCHANGED <<net, rule>> /\ amiss' \ {"session"} = amiss \ {"session"}
        BY <2>2 DEF Connect, Spawn, Started, TakeLink, JournalStep, SaveFlag, ClearFailed, ClearDone,
                    Cleanup, Finish, kernel
    <2>3. ASSUME NEW k, Poll(k)
          PROVE  UNCHANGED <<net, rule>> /\ amiss' \ {"session"} = amiss \ {"session"}
        <3>1. amiss' \in {amiss, amiss \cup {"session"}} BY <2>3 DEF Poll
        <3> QED BY <2>3, <3>1 DEF Poll, kernel
    <2>4. CASE \/ PollDone \/ RestoreDone \/ Taken \/ NetPass \/ Disconnect \/ Restart \/ OtherFull
               \/ Crash \/ Progress \/ UNCHANGED vars
        BY <2>0, <2>4 DEF PollDone, RestoreDone, Taken, NetPass, Disconnect, Restart, OtherFull, Crash,
                          Progress, vars, kernel
    <2>5. ASSUME NEW p, Establish(p) PROVE UNCHANGED <<net, rule, amiss>>
        BY <2>5 DEF Establish
    <2>6. ASSUME NEW ev, LastWords(ev) PROVE UNCHANGED <<net, rule, amiss>>
        BY <2>6 DEF LastWords, kernel
    <2>7. ASSUME NEW ok \in BOOLEAN, ClearItem(ok) \/ Stop(ok)
          PROVE  disk' = disk /\ Installed' \subseteq Installed
        <3>1. /\ net' \subseteq net /\ rule' \in {rule, "absent"} /\ disk' = disk
              /\ amiss \subseteq amiss'
            BY <2>7 DEF ClearItem, Stop, child
        <3> QED BY <3>1 DEF Installed
    <2>8. ASSUME Drop \/ ChildDies \/ NetEdited
          PROVE  disk' = disk /\ Installed' \subseteq Installed
        <3>1. /\ net' \subseteq net /\ rule' \in {rule, "absent", "foreign"} /\ disk' = disk
              /\ amiss' = amiss
            BY <2>8 DEF Drop, ChildDies, NetEdited, journals
        <3> QED BY <3>1 DEF Installed
    <2>9. ASSUME NEW ok \in BOOLEAN, KernelStep(ok)
          PROVE  Ledger!Next \/ UNCHANGED <<Claims, Holds>>
        <3>1. First(job.todo) \in Objects BY <2>9, KernelFacts DEF KernelStep
        <3>2. /\ \/ net' = net /\ (rule' = rule \/ (First(job.todo) = "rule" /\ rule' = "ours"))
                 \/ /\ First(job.todo) \in Pushes /\ rule' = rule
                    /\ net' = net \cup {First(job.todo)}
              /\ disk' = disk /\ amiss' = amiss
            <4>1. First(job.todo) \in Pushes => First(job.todo) # "rule" BY DEF Pushes
            <4> QED BY <2>9, <4>1 DEF KernelStep, journals
        <3>3. Installed' = Installed \/ Installed' = Installed \cup {First(job.todo)}
            <4>1. Pushes \cap amiss = {} BY DEF TunnelInv, Shapes, Pushes
            <4> QED BY <3>2, <4>1 DEF Installed
        <3> QED BY <3>1, <3>2, <3>3, LedgerStep
    <2>10. ASSUME NEW ok \in BOOLEAN, Restore(ok)
           PROVE  Ledger!Next \/ UNCHANGED <<Claims, Holds>>
        <3>1. /\ \/ net' = net /\ (rule' = rule \/ rule' = "ours")
                 \/ \E r \in Pushes : net' = net \cup {r} /\ rule' = rule
              /\ disk' = disk /\ amiss' = amiss
            <4>1. First(job.todo) \in Pushes => First(job.todo) # "rule" BY DEF Pushes
            <4>2. CASE First(job.todo) \in Pushes BY <2>10, <4>1, <4>2 DEF Restore, journals
            <4>3. CASE First(job.todo) \notin Pushes BY <2>10, <4>3 DEF Restore, journals
            <4> QED BY <4>2, <4>3
        <3>2. Installed' = Installed \/ \E r \in Pushes \cup {"rule"} : Installed' = Installed \cup {r}
            <4>1. Pushes \cap amiss = {} BY DEF TunnelInv, Shapes, Pushes
            <4> QED BY <3>1, <4>1 DEF Installed
        <3> QED BY <3>1, <3>2, LedgerStep DEF Objects
    <2>b. ASSUME net' \in {net, net \cup {"dns"}, net \ {"dns"}}, amiss' = amiss \ {"dns"}, rule' = rule
          PROVE  Installed' \subseteq Installed \/ Installed' = Installed \cup {"dns"}
        <3>1. Installed \ {"dns"} = Installed' \ {"dns"} BY <2>b DEF Installed
        <3>2. CASE "dns" \in Installed' BY <3>1, <3>2
        <3>3. CASE "dns" \notin Installed' BY <3>1, <3>3
        <3> QED BY <3>2, <3>3
    <2>11. ASSUME NEW how \in {"applied", "unavailable", "failed"}, DnsStep(how)
           PROVE  Ledger!Next \/ UNCHANGED <<Claims, Holds>>
        <3>1. /\ net' \in {net, net \cup {"dns"}, net \ {"dns"}} /\ amiss' = amiss \ {"dns"}
              /\ UNCHANGED <<rule, disk>>
            BY <2>11 DEF DnsStep, DnsLeft
        <3>2. Installed' \subseteq Installed \/ Installed' = Installed \cup {"dns"}
            BY <2>b, <3>1
        <3> QED BY <3>1, <3>2, LedgerStep DEF Objects
    <2>12. ASSUME NEW ok \in BOOLEAN, NEW applied \in BOOLEAN, ReapplyDns(applied, ok)
           PROVE  Ledger!Next \/ UNCHANGED <<Claims, Holds>>
        <3>1. /\ pc = "idle" /\ entry.state = "applied" /\ amiss' = amiss \ {"dns"}
              /\ net' \in {net, net \cup {"dns"}, net \ {"dns"}}
              /\ rule' = rule /\ entry' = [entry EXCEPT !.dnsOn = applied]
              /\ disk' = disk \/ disk' = entry'
            BY <2>12 DEF ReapplyDns, Save, DnsLeft
        <3>2. disk.res = entry.res /\ entry \in Entry
            BY <3>1 DEF TunnelInv, Applying, Following, Shapes, Sound
        <3>3. disk'.res = disk.res
            BY <3>1, <3>2 DEF Entry
        <3>4. Installed' \subseteq Installed \/ Installed' = Installed \cup {"dns"}
            BY <2>b, <3>1
        <3> QED BY <3>3, <3>4, LedgerStep DEF Objects
    <2> HIDE DEF TunnelInv
    <2> QED BY <2>0, <2>1, <2>2, <2>3, <2>4, <2>5, <2>6, <2>7, <2>8, <2>9, <2>10, <2>11, <2>12
            DEF Next, CoreStep, PollAll, Pass, Entering, Leave, World
<1> QED BY <1>1, <1>2, OpenVpnInvariant, PTL DEF Spec, ImplementsLedger, Ledger!Spec, Claims, Holds
=============================================================================
