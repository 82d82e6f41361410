-------------------------- MODULE XrayTunnelProofs --------------------------
(***************************************************************************)
(* Proofs about an Xray tunnel: its records cover one another and a tunnel *)
(* reported running is the one the journal describes, for any uplinks and  *)
(* configurations and any number of failures, crashes and outside edits.   *)
(*                                                                         *)
(* Neither property is inductive.  The invariant says, for each phase of   *)
(* the thread in the core, which objects of the network are claimed and    *)
(* which are not there yet; what a teardown has left to remove or could    *)
(* not remove; who may hold the key of the bypass route during each step   *)
(* of its migration; and which of the staged, running and journaled        *)
(* configurations agree.                                                   *)
(***************************************************************************)
EXTENDS XrayTunnel, TLAPS

Phases  == {"down", "idle", "spawn", "index", "step", "kernel", "respawn", "teardown",
            "removing", "finish", "restore", "migrate", "replace", "dropOld", "forget"}
Whys    == {"none", "connect", "respawn", "restart", "pass", "reload", "request"}
Cfgs    == Configs \cup {0}
Objects == {"address", "tun", "rule", "dns"}

Jobs == [why : Whys, step : Nat, cfg : Cfgs, todo : SUBSET (Objects \cup Uplinks),
         held : SUBSET (Objects \cup Uplinks \cup {"quic"}),
         seen : SUBSET (Uplinks \cup {"absent", "foreign", "tun"})]

Migs == [old : Uplinks \cup {"none"}, new : Uplinks \cup {"none"},
         was : BOOLEAN, here : BOOLEAN, there : BOOLEAN]

Migrating == {"migrate", "replace", "dropOld", "forget"}
Applying  == {"index", "step", "kernel"}
Removing  == {"teardown", "removing", "finish"}

\* An entry as the code writes it.
Sound(e) ==
    /\ e \in Entry
    /\ e.state = "none" => e = NoEntry
    /\ e.state # "none" => "process" \in e.res
    /\ e.state = "applied" => e.idx # 0 /\ e.res = Resources

\* Shapes.
Shapes ==
    /\ Sound(entry) /\ Sound(disk)
    /\ link \in Indexes /\ net \subseteq Objects \cup {"quic"}
    /\ byp \in Uplinks \cup {"absent", "foreign"}
    /\ uplink \in Uplinks \cup {"none"}
    /\ tracked \in BOOLEAN
    /\ staged \in Cfgs /\ running \in Cfgs /\ failover \in Cfgs
    /\ restarts \in 0..MaxRespawns
    /\ pc \in Phases /\ job \in Jobs /\ mig \in Migs
    /\ torn \subseteq {"config", "wiring"} /\ ("wiring" \in torn => "config" \in torn)

\* An entry that covers the kernel.
Covers(e) ==
    /\ net \ {"quic"} \subseteq e.res
    /\ link # 0 \/ "quic" \in net => "process" \in e.res
    /\ byp \in Uplinks => byp \in e.byp \cup unsaved

\* The file always does, the memory while the daemon runs.  While the tunnel is
\* put together or kept up, the file lists what the memory does.
Coverage ==
    /\ Covers(disk)
    /\ pc # "down" => Covers(entry)
    /\ link = 0 => net \cap OnLink = {}
    /\ pc \notin Removing \cup {"down"} /\ entry.state \in {"applying", "applied"} =>
          entry.res \subseteq disk.res /\ entry.byp \subseteq disk.byp \cup unsaved

\* What a teardown has still to remove, and what it could not.
Left ==
    pc = "removing" =>
        /\ net \subseteq job.todo \cup job.held
        /\ byp \in Uplinks => byp \in job.todo \cup job.held \cup unsaved

\* What each phase knows.
Stages ==
    /\ pc = "down" => entry = NoEntry /\ ~tracked /\ torn = {}
    /\ pc \in {"down", "spawn", "respawn", "removing", "finish"} \cup Applying => failover = 0
    /\ entry.state = "none" => ~tracked /\ failover = 0 /\ torn = {}
    /\ pc \in {"spawn", "index", "step", "kernel", "respawn", "teardown", "removing", "restore"}
              \cup Migrating => entry.state # "none"
    /\ pc = "finish" => entry.state \in {"none", "stale"}
    /\ pc \in {"removing", "finish"} => torn = {}
    /\ pc \in Removing => job.why # "reload"
    /\ pc = "idle" => entry.state # "applying"
    /\ pc = "spawn" => job.why = "connect" /\ link = 0 /\ ~tracked
    /\ pc \in Applying => job.why \in {"connect", "respawn", "restart", "reload"}
    /\ pc = "respawn" => job.why \in {"respawn", "restart", "reload"}
    /\ pc \in {"restore"} \cup Migrating => job.why \in {"pass", "respawn", "restart"}
    /\ pc \in {"respawn", "restore"} \cup Migrating => entry.state = "applied"
    /\ pc \in {"spawn"} \cup Applying =>
          entry.state = (IF job.why = "connect" THEN "applying" ELSE "applied")

\* The objects a connect has claimed before step i.
Before(i) ==
    {"process"} \cup (IF i > 1 THEN {"address"} ELSE {}) \cup (IF i > 4 THEN {"tun"} ELSE {})
                \cup (IF i > 5 THEN {"rule"} ELSE {}) \cup (IF i > 6 THEN {"dns"} ELSE {})

\* A connect claims its objects one by one; the one the kernel is being asked
\* for is not there yet.
Progress ==
    /\ pc \in {"step", "kernel"} => job.step >= 1 /\ entry.idx # 0
    /\ pc \in {"spawn"} \cup Applying /\ job.why = "connect" => entry.policy = job.cfg
    /\ pc \in {"spawn", "index"} /\ job.why = "connect" => entry.res = {"process"} /\ entry.byp = {}
    /\ pc = "step" /\ job.why = "connect" =>
          entry.res = Before(job.step) /\ (job.step <= 3 => entry.byp = {})
    /\ pc = "kernel" =>
          /\ job.why = "connect" /\ job.step \in {1, 3, 4, 5, 6}
          /\ entry.res = Before(job.step + 1) /\ net \ {"quic"} \subseteq Before(job.step)
          /\ job.step < 3 => entry.byp = {}
          /\ job.step = 3 => /\ mig.new \in Uplinks /\ entry.byp = {mig.new}
                             /\ byp \in Uplinks => byp \in unsaved

\* The daemon knows its link, unless it died before it could write it down; an
\* entry that is in use knows it in any case, and has the address on it.
Links ==
    /\ pc \notin {"down", "index"} /\ link # 0 /\ ~orphaned => entry.idx = link
    /\ pc = "down" /\ link # 0 /\ ~orphaned => disk.idx = link
    /\ \/ pc \in {"step", "kernel", "respawn", "restore"} \cup Migrating
       \/ pc = "idle" /\ entry.state = "applied"
       => (link # 0 => entry.idx = link)
    /\ \/ pc \in {"step", "kernel"} /\ job.step >= 2
       \/ /\ "wiring" \notin torn
          /\ \/ pc \in {"respawn", "restore"} \cup Migrating
             \/ pc = "idle" /\ entry.state = "applied"
       => (link # 0 => "address" \in net)

\* Which configurations agree.
Agreement ==
    /\ pc \in Applying => (link # 0 => running = staged)
    /\ pc \in {"respawn"} \cup Applying /\ job.why = "reload" => staged = job.cfg
    /\ pc \in Applying /\ job.why = "connect" => staged = job.cfg
    /\ /\ "config" \notin torn
       /\ \/ pc \in {"respawn"} \cup Applying /\ job.why \in {"respawn", "restart"}
          \/ pc \in {"restore"} \cup Migrating
          \/ pc = "idle" /\ entry.state = "applied"
       => staged = entry.policy /\ failover \in {0, entry.policy}
    /\ /\ "config" \notin torn
       /\ \/ pc \in {"restore"} \cup Migrating
          \/ pc = "idle" /\ entry.state = "applied"
       => (link # 0 => running = staged)

\* Both routes of a migration are claimed, and who may hold their key.
Moves ==
    /\ pc \in Migrating => /\ mig.old \in entry.byp /\ mig.new \in entry.byp
                           /\ mig.old \in Uplinks /\ mig.new \in Uplinks /\ mig.old # mig.new
    /\ pc = "migrate" /\ ~mig.there =>
          byp \in {"absent", "foreign"} \cup (IF mig.here THEN {mig.old} ELSE {})
    /\ pc = "replace" => byp \in {"absent", "foreign"}
    /\ pc = "forget" => byp # mig.old

XrayInv ==
    Shapes /\ Coverage /\ Left /\ Stages /\ Progress /\ Links /\ Agreement /\ Moves

-----------------------------------------------------------------------------
(* Facts about the operators.                                              *)

\* An entry stays sound under every change the code makes to one.
LEMMA SoundEntries ==
    ASSUME NEW e, Sound(e)
    PROVE  /\ Sound(NoEntry)
           /\ e.state # "none" => \A i \in Indexes \ {0} : Sound([e EXCEPT !.idx = i])
           /\ e.state # "none" => \A b \in SUBSET Uplinks : Sound([e EXCEPT !.byp = b])
           /\ e.state = "applying" =>
                 \A r \in SUBSET Resources : "process" \in r => Sound([e EXCEPT !.res = r])
           /\ e.state # "none" /\ e.idx # 0 /\ e.res = Resources =>
                 Sound([e EXCEPT !.state = "applied"])
           /\ e.state # "none" => Sound([e EXCEPT !.state = "stale"])
           /\ e.state # "none" => \A c \in Cfgs : Sound([e EXCEPT !.policy = c])
           /\ e.state # "none" => \A b \in SUBSET Uplinks, r \in SUBSET Resources :
                 "process" \in r => Sound([e EXCEPT !.state = "stale", !.byp = b, !.res = r])
<1>1. 0 \in Indexes
    BY DEF Indexes
<1> QED BY <1>1 DEF Sound, Entry, NoEntry, Cfgs, Resources

\* Operands have their types.
LEMMA JobTypes ==
    /\ Rest \in Jobs /\ NoMig \in Migs
    /\ \A w \in Whys, c \in Cfgs : [Rest EXCEPT !.why = w, !.cfg = c] \in Jobs
    /\ \A w \in Whys : [Rest EXCEPT !.why = w] \in Jobs
    /\ \A w \in Whys, s \in SUBSET (Uplinks \cup {"absent", "foreign", "tun"}) :
          /\ [Rest EXCEPT !.why = w, !.seen = s] \in Jobs
          /\ \A t \in SUBSET (Objects \cup Uplinks) :
                [Rest EXCEPT !.why = w, !.seen = s, !.todo = t] \in Jobs
    /\ \A j \in Jobs, n \in Nat : [j EXCEPT !.step = n] \in Jobs
    /\ \A j \in Jobs, t \in SUBSET (Objects \cup Uplinks) :
          /\ [j EXCEPT !.todo = t] \in Jobs
          /\ \A h \in SUBSET (Objects \cup Uplinks \cup {"quic"}) :
                [j EXCEPT !.todo = t, !.held = h] \in Jobs
    /\ \A u \in Uplinks \cup {"none"} : [NoMig EXCEPT !.new = u] \in Migs
<1>1. 0 \in Cfgs
    BY DEF Cfgs
<1> QED BY <1>1 DEF Rest, NoMig, Jobs, Migs, Whys

\* A step forward or an object done with changes nothing else of the operands.
LEMMA JobEdits ==
    ASSUME NEW j \in Jobs
    PROVE  /\ \A n \in Nat : LET k == [j EXCEPT !.step = n]
                             IN k.step = n /\ k.why = j.why /\ k.cfg = j.cfg
           /\ \A t \in SUBSET (Objects \cup Uplinks) :
                 LET k == [j EXCEPT !.todo = t]
                 IN k.todo = t /\ k.why = j.why /\ k.cfg = j.cfg /\ k.held = j.held
           /\ \A t \in SUBSET (Objects \cup Uplinks),
                 h \in SUBSET (Objects \cup Uplinks \cup {"quic"}) :
                    LET k == [j EXCEPT !.todo = t, !.held = h]
                    IN k.todo = t /\ k.why = j.why /\ k.cfg = j.cfg /\ k.held = h
BY DEF Jobs

\* A fresh index is none of those in use.
LEMMA FreshIndex ==
    Fresh \in Indexes \ {0} /\ Fresh \notin {entry.idx, disk.idx, link}
<1> DEFINE P(i) == i \in Indexes \ {0} /\ i \notin {entry.idx, disk.idx, link}
<1>1. \E i : P(i)
    BY DEF Indexes
<1> QED BY <1>1 DEF Fresh

\* The steps of a connect and of a rebind.
LEMMA StepFacts ==
    ASSUME job.step \in Nat, job.step >= 1
    PROVE  /\ Working => job.step <= 7
           /\ job.why = "connect" =>
                 /\ Len(Steps) = 7
                 /\ job.step = 1 => Now = "address"
                 /\ job.step = 2 => Now = "quic"
                 /\ job.step = 3 => Now = "bypass"
                 /\ job.step = 4 => Now = "tun"
                 /\ job.step = 5 => Now = "rule"
                 /\ job.step = 6 => Now = "dns"
                 /\ job.step = 7 => Now = "dnsflag"
           /\ job.why # "connect" =>
                 /\ Len(Steps) = 5
                 /\ job.step = 1 => Now = "address"
                 /\ job.step = 2 => Now = "quic"
                 /\ job.step = 3 => Now = "tun"
                 /\ job.step = 4 => Now = "dns"
                 /\ job.step = 5 => Now = "dnsflag"
BY DEF Steps, Now, Working

\* The call a step stands for.
LEMMA StepNames ==
    ASSUME job.step \in Nat, job.step >= 1, job.step <= Len(Steps)
    PROVE  /\ job.step \in 1..7
           /\ job.why = "connect" =>
                 \/ (job.step = 1 /\ Now = "address") \/ (job.step = 2 /\ Now = "quic")
                 \/ (job.step = 3 /\ Now = "bypass")  \/ (job.step = 4 /\ Now = "tun")
                 \/ (job.step = 5 /\ Now = "rule")    \/ (job.step = 6 /\ Now = "dns")
                 \/ (job.step = 7 /\ Now = "dnsflag")
           /\ job.why # "connect" =>
                 \/ (job.step = 1 /\ Now = "address") \/ (job.step = 2 /\ Now = "quic")
                 \/ (job.step = 3 /\ Now = "tun")     \/ (job.step = 4 /\ Now = "dns")
                 \/ (job.step = 5 /\ Now = "dnsflag")
<1>1. CASE job.why = "connect"
    <2>1. job.step <= 7 BY <1>1, StepFacts
    <2> QED BY <1>1, <2>1, StepFacts
<1>2. CASE job.why # "connect"
    <2>1. job.step <= 5 BY <1>2, StepFacts
    <2> QED BY <1>2, <2>1, StepFacts
<1> QED BY <1>1, <1>2

-----------------------------------------------------------------------------
(* The invariant, step by step.                                            *)

\* Initially.
LEMMA InitXray == Init => XrayInv
<1> SUFFICES ASSUME Init PROVE XrayInv OBVIOUS
<1>1. Sound(NoEntry)
    BY DEF Sound, NoEntry, Entry, Indexes, Resources
<1>2. uplink \in Uplinks
    BY XrayAssumption DEF Init
<1>3. 0 \in Cfgs /\ 0 \in Indexes /\ 0 \in 0..MaxRespawns
    BY XrayAssumption DEF Cfgs, Indexes
<1>4. Shapes
    BY <1>1, <1>2, <1>3, JobTypes DEF Init, Shapes, Phases
<1>5. Coverage /\ Left /\ Stages /\ Progress /\ Links /\ Agreement /\ Moves
    BY XrayAssumption DEF Init, Coverage, Covers, Left, Stages, Progress, Links, Agreement, Moves,
       NoEntry, Rest, Removing, Applying, Migrating
<1> QED BY <1>4, <1>5 DEF XrayInv

\* The part of the invariant that outlives a failed step: everything but what
\* the thread is doing.
Afloat ==
    /\ Sound(entry) /\ Sound(disk)
    /\ link \in Indexes /\ net \subseteq Objects \cup {"quic"}
    /\ byp \in Uplinks \cup {"absent", "foreign"}
    /\ uplink \in Uplinks \cup {"none"}
    /\ tracked \in BOOLEAN
    /\ staged \in Cfgs /\ running \in Cfgs /\ failover \in Cfgs
    /\ restarts \in 0..MaxRespawns
    /\ Covers(disk) /\ Covers(entry)
    /\ link = 0 => net \cap OnLink = {}
    /\ entry.state # "none"
    /\ link # 0 /\ ~orphaned => entry.idx = link

\* What a failed reload leaves: an `applied` entry that knows its link.
Reported ==
    /\ entry.state = "applied"
    /\ entry.res \subseteq disk.res /\ entry.byp \subseteq disk.byp \cup unsaved
    /\ link # 0 => entry.idx = link

\* A step that gives up preserves the invariant: the teardown that follows, or
\* the reload that returns its error, finds the records in order.
LEMMA GivesUp ==
    ASSUME XrayInv, NEW w \in SUBSET {"config", "wiring"}, GiveUp(w), Afloat',
           "wiring" \in w => "config" \in w,
           job.why = "reload" =>
              /\ Reported' /\ "config" \in w
              /\ "wiring" \notin w \cup torn => (link' # 0 => "address" \in net')
    PROVE  XrayInv'
<1>0. job \in Jobs /\ torn \subseteq {"config", "wiring"} /\ ("wiring" \in torn => "config" \in torn)
    BY DEF XrayInv, Shapes
<1>1. \/ /\ job.why = "reload" /\ pc' = "idle" /\ job' = Rest /\ mig' = NoMig
         /\ torn' = torn \cup w
      \/ /\ job.why # "reload" /\ pc' = "teardown" /\ mig' = NoMig
         /\ job' = job /\ torn' = torn
    BY DEF GiveUp, Idle
<1>2. Shapes'
    BY <1>0, <1>1, JobTypes DEF Shapes, Afloat, Phases
<1>3. Coverage' /\ Left'
    BY <1>1 DEF Coverage, Left, Afloat, Reported, Removing
<1>4. Stages' /\ Moves' /\ Progress'
    BY <1>1 DEF Stages, Moves, Progress, Afloat, Reported, Removing, Applying, Migrating
<1>5. Links' /\ Agreement'
    BY <1>0, <1>1 DEF Links, Agreement, Afloat, Reported, Removing, Applying, Migrating
<1> QED BY <1>2, <1>3, <1>4, <1>5 DEF XrayInv

\* Connect.
LEMMA KeepsConnect ==
    ASSUME XrayInv, NEW c \in Configs, NEW ok \in BOOLEAN, Connect(c, ok)
    PROVE  XrayInv'
<1> DEFINE e == [NoEntry EXCEPT !.state = "applying", !.res = {"process"}, !.policy = c]
<1>0. /\ pc = "idle" /\ entry = NoEntry /\ link = 0
      /\ disk' \in {disk, e}
      /\ \/ ok /\ entry' = e /\ disk' = e /\ pc' = "spawn"
               /\ job' = [Rest EXCEPT !.why = "connect", !.cfg = c]
         \/ ~ok /\ entry' = entry /\ pc' = pc /\ job' = job
      /\ UNCHANGED <<kernel, uplink, child, sup, mig, history>>
    BY DEF Connect, Save
<1>i. 0 \in Indexes /\ c \in Cfgs
    BY DEF Indexes, Cfgs
<1>1. Sound(e) /\ e.res = {"process"} /\ e.byp = {} /\ e.policy = c /\ e.state = "applying" /\ e.idx = 0
    BY <1>i DEF Sound, NoEntry, Entry, Resources
<1>a. entry.state = "none" /\ entry.res = {} /\ entry.byp = {}
    BY <1>0 DEF NoEntry
<1>b. failover = 0 /\ ~tracked /\ torn = {}
    BY <1>a DEF XrayInv, Stages
<1>c. net \subseteq {"quic"} /\ "quic" \notin net /\ (byp \in Uplinks => byp \in unsaved)
    BY <1>0, <1>a DEF XrayInv, Coverage, Covers
<1>2. /\ net = {} /\ (byp \in Uplinks => byp \in unsaved)
      /\ failover = 0 /\ ~tracked /\ torn = {}
    BY <1>b, <1>c
<1>3. [Rest EXCEPT !.why = "connect", !.cfg = c] \in Jobs
    BY <1>i, JobTypes DEF Whys
<1> HIDE DEF e
<1>4. Shapes'
    BY <1>0, <1>1, <1>3 DEF XrayInv, Shapes, Phases, kernel, child, sup, history
<1>5. Coverage' /\ Left'
    BY <1>0, <1>a, <1>1, <1>2 DEF XrayInv, Coverage, Covers, Left, Removing, kernel, child, sup, history
<1>6. Stages' /\ Moves'
    BY <1>0, <1>1, <1>2, JobTypes DEF XrayInv, Stages, Moves, Removing, Applying, Migrating, kernel, child, sup, history, NoEntry, Rest
<1>7. Progress' /\ Links' /\ Agreement'
    BY <1>0, <1>1, <1>2 DEF XrayInv, Progress, Links, Agreement, Removing, Applying, Migrating, kernel, child, sup, history, NoEntry, Rest
<1> QED BY <1>4, <1>5, <1>6, <1>7 DEF XrayInv

\* Spawn.
LEMMA KeepsSpawn ==
    ASSUME XrayInv, NEW ok \in BOOLEAN, Spawn(ok)
    PROVE  XrayInv'
<1>0. /\ pc = "spawn"
      /\ UNCHANGED <<journals, net, byp, uplink, sup, unsaved, orphaned>>
      /\ \/ /\ ok /\ link = 0 /\ link' = Fresh /\ tracked' = TRUE
            /\ staged' = job.cfg /\ running' = job.cfg
            /\ pc' = "index" /\ UNCHANGED <<job, mig, torn>>
         \/ /\ ~ok /\ staged' \in {staged, 0, job.cfg} /\ GiveUp({})
            /\ UNCHANGED <<link, tracked, running>>
    BY DEF Spawn
<1>1. /\ job.why = "connect" /\ entry.state = "applying" /\ entry.policy = job.cfg
      /\ entry.res = {"process"} /\ entry.byp = {} /\ failover = 0
      /\ link = 0 /\ ~tracked /\ "process" \in disk.res
      /\ entry.res \subseteq disk.res /\ entry.byp \subseteq disk.byp \cup unsaved
    BY <1>0 DEF XrayInv, Stages, Progress, Coverage, Removing, Applying
<1>2. job.cfg \in Cfgs /\ 0 \in Cfgs
    BY DEF XrayInv, Shapes, Jobs, Cfgs
<1>3. CASE ok
    <2>1. Shapes'
        BY <1>0, <1>2, <1>3, FreshIndex DEF XrayInv, Shapes, Phases, journals, sup
    <2>2. Coverage' /\ Left' /\ Moves'
        BY <1>0, <1>1, <1>3, FreshIndex DEF XrayInv, Coverage, Covers, Left, Moves, Removing, Migrating, journals, sup
    <2>3. Stages' /\ Progress'
        BY <1>0, <1>1, <1>3 DEF XrayInv, Stages, Progress, Removing, Migrating, Applying, journals, sup
    <2>4. Links' /\ Agreement'
        BY <1>0, <1>1, <1>3 DEF XrayInv, Links, Agreement, Removing, Migrating, Applying, journals, sup
    <2> QED BY <2>1, <2>2, <2>3, <2>4 DEF XrayInv
<1>4. CASE ~ok
    <2>1. Afloat'
        BY <1>0, <1>1, <1>2, <1>4 DEF XrayInv, Shapes, Coverage, Covers, Afloat, journals, sup
    <2> QED BY <1>0, <1>1, <1>4, <2>1, GivesUp
<1> QED BY <1>3, <1>4

\* The index of a new link.
LEMMA KeepsTakeIndex ==
    ASSUME XrayInv, NEW ok \in BOOLEAN, TakeIndex(ok)
    PROVE  XrayInv'
<1> DEFINE e == [entry EXCEPT !.idx = link]
<1>0. /\ pc = "index" /\ link # 0
      /\ UNCHANGED <<kernel, uplink, child, sup, unsaved, orphaned>>
      /\ entry' = e /\ disk' \in {disk, e}
      /\ \/ /\ ok /\ disk' = e /\ pc' = "step" /\ job' = [job EXCEPT !.step = 1]
            /\ UNCHANGED <<mig, torn>>
         \/ ~ok /\ GiveUp({"config", "wiring"})
    BY DEF TakeIndex, Save
<1>1. /\ job.why \in {"connect", "respawn", "restart", "reload"} /\ failover = 0
      /\ entry.state = (IF job.why = "connect" THEN "applying" ELSE "applied")
      /\ entry.res \subseteq disk.res /\ entry.byp \subseteq disk.byp \cup unsaved
    BY <1>0 DEF XrayInv, Stages, Coverage, Removing, Applying
<1>2. /\ Sound(e) /\ e.state = entry.state /\ e.res = entry.res /\ e.byp = entry.byp
      /\ e.policy = entry.policy /\ e.idx = link
    <2>1. Sound(entry) /\ entry \in Entry /\ link \in Indexes \ {0}
        BY <1>0 DEF XrayInv, Shapes, Sound
    <2> QED BY <1>1, <2>1, SoundEntries DEF Entry
<1> HIDE DEF e
<1>3. CASE ok
    <2>1. /\ job' \in Jobs /\ job'.step = 1 /\ job'.why = job.why /\ job'.cfg = job.cfg
        <3>1. job \in Jobs /\ 1 \in Nat
            BY DEF XrayInv, Shapes
        <3>2. job' = [job EXCEPT !.step = 1]
            BY <1>0, <1>3
        <3> QED BY <3>1, <3>2, JobTypes, JobEdits
    <2>2. Shapes'
        BY <1>0, <1>2, <1>3, <2>1 DEF XrayInv, Shapes, Phases, kernel, child, sup
    <2>3. Coverage' /\ Left' /\ Moves'
        BY <1>0, <1>1, <1>2, <1>3 DEF XrayInv, Coverage, Covers, Left, Moves, Removing, Migrating, kernel
    <2>4. Stages'
        BY <1>0, <1>1, <1>2, <1>3, <2>1 DEF XrayInv, Stages, Removing, Migrating, Applying, child, sup
    <2>5. Progress'
        BY <1>0, <1>1, <1>2, <1>3, <2>1 DEF XrayInv, Progress, Applying, Before
    <2>6. Links' /\ Agreement'
        BY <1>0, <1>1, <1>2, <1>3, <2>1 DEF XrayInv, Links, Agreement, Removing, Migrating, Applying, kernel, child, sup
    <2> QED BY <2>2, <2>3, <2>4, <2>5, <2>6 DEF XrayInv
<1>4. CASE ~ok
    <2>1. Afloat'
        BY <1>0, <1>1, <1>2, <1>4 DEF XrayInv, Shapes, Coverage, Covers, Afloat, kernel, child, sup
    <2>2. job.why = "reload" => Reported'
        BY <1>0, <1>1, <1>2, <1>4 DEF Reported, kernel
    <2> QED BY <1>0, <1>4, <2>1, <2>2, GivesUp
<1> QED BY <1>3, <1>4

\* The link vanished again.
LEMMA KeepsNoIndex ==
    ASSUME XrayInv, NoIndex
    PROVE  XrayInv'
<1>0. /\ pc = "index" /\ link = 0 /\ GiveUp({"config"})
      /\ UNCHANGED <<journals, kernel, uplink, child, sup, unsaved, orphaned>>
    BY DEF NoIndex
<1>1. /\ entry.state = (IF job.why = "connect" THEN "applying" ELSE "applied")
      /\ entry.res \subseteq disk.res /\ entry.byp \subseteq disk.byp \cup unsaved
    BY <1>0 DEF XrayInv, Stages, Coverage, Removing, Applying
<1>2. Afloat'
    BY <1>0, <1>1 DEF XrayInv, Shapes, Coverage, Covers, Afloat, journals, kernel, child, sup
<1>3. job.why = "reload" => Reported'
    BY <1>0, <1>1 DEF Reported, journals, kernel
<1>4. link' = 0
    BY <1>0 DEF kernel
<1> QED BY <1>0, <1>2, <1>3, <1>4, GivesUp

\* A step forward in a plan.
LEMMA NextSteps ==
    ASSUME XrayInv, NextStep
    PROVE  /\ pc' = "step" /\ mig' = NoMig /\ job' \in Jobs /\ mig' \in Migs
           /\ job'.step = job.step + 1 /\ job'.why = job.why /\ job'.cfg = job.cfg
<1>1. job \in Jobs /\ job.step + 1 \in Nat
    BY DEF XrayInv, Shapes, Jobs
<1> QED BY <1>1, JobTypes, JobEdits DEF NextStep

\* What the thread knows while it carries out a plan.
LEMMA InPlan ==
    ASSUME XrayInv, pc \in {"step", "kernel"}
    PROVE  /\ job \in Jobs /\ job.step \in Nat /\ job.step >= 1 /\ entry.idx # 0
           /\ job.why \in {"connect", "respawn", "restart", "reload"} /\ failover = 0
           /\ job.why = "connect" => entry.state = "applying" /\ entry.policy = job.cfg
           /\ job.why # "connect" => entry.state = "applied" /\ entry.res = Resources
           /\ entry.res \subseteq disk.res /\ entry.byp \subseteq disk.byp \cup unsaved
           /\ "process" \in entry.res
           /\ link # 0 => entry.idx = link
           /\ job.step >= 2 => (link # 0 => "address" \in net)
           /\ net \ {"quic"} \subseteq entry.res
           /\ net \subseteq Objects \cup {"quic"}
           /\ byp \in Uplinks => byp \in entry.byp \cup unsaved
<1>1. job \in Jobs /\ Sound(entry) /\ net \subseteq Objects \cup {"quic"}
    BY DEF XrayInv, Shapes
<1>2. job.step \in Nat
    BY <1>1 DEF Jobs
<1>3. /\ job.step >= 1 /\ entry.idx # 0
      /\ job.why \in {"connect", "respawn", "restart", "reload"} /\ failover = 0
      /\ job.why = "connect" => entry.state = "applying" /\ entry.policy = job.cfg
      /\ job.why # "connect" => entry.state = "applied"
    BY DEF XrayInv, Stages, Progress, Applying
<1>4. /\ entry.res \subseteq disk.res /\ entry.byp \subseteq disk.byp \cup unsaved
      /\ net \ {"quic"} \subseteq entry.res
      /\ byp \in Uplinks => byp \in entry.byp \cup unsaved
    BY <1>3 DEF XrayInv, Coverage, Covers, Removing
<1>5. (link # 0 => entry.idx = link) /\ (job.step >= 2 => (link # 0 => "address" \in net))
    BY DEF XrayInv, Links
<1> QED BY <1>1, <1>2, <1>3, <1>4, <1>5 DEF Sound

\* A plan goes on after a step that kept the records in order.
LEMMA PlanGoesOn ==
    ASSUME XrayInv, pc \in {"step", "kernel"}, NextStep \/ pc' = "kernel",
           UNCHANGED <<link, tracked, staged, running, failover, restarts, uplink, torn,
                       unsaved, orphaned>>,
           pc' = "kernel" => UNCHANGED job /\ mig' \in Migs,
           Sound(entry'), Sound(disk'),
           entry'.state = entry.state, entry'.policy = entry.policy, entry'.idx = entry.idx,
           net' \subseteq Objects \cup {"quic"}, byp' \in Uplinks \cup {"absent", "foreign"},
           Covers(entry)', entry'.res \subseteq disk'.res,
           entry'.byp \subseteq disk'.byp \cup unsaved',
           Covers(disk)', link = 0 => net' \cap OnLink = {},
           net \subseteq net', job.step = 1 /\ pc' = "step" /\ link # 0 => "address" \in net',
           Progress'
    PROVE  XrayInv'
<1>0. /\ job' \in Jobs /\ mig' \in Migs /\ job'.step \in Nat /\ pc' \in {"step", "kernel"}
      /\ job'.why = job.why /\ job'.cfg = job.cfg
      /\ \/ pc' = "step" /\ job'.step = job.step + 1
         \/ pc' = "kernel" /\ job'.step = job.step
    BY NextSteps, InPlan DEF NextStep, Jobs
<1>1. Shapes'
    BY <1>0 DEF XrayInv, Shapes, Phases
<1>2. Coverage' /\ Left' /\ Moves'
    BY <1>0 DEF Coverage, Left, Moves, Removing, Migrating
<1>3. Stages'
    BY <1>0 DEF XrayInv, Stages, Removing, Migrating, Applying
<1>4. Links'
    BY <1>0, InPlan DEF XrayInv, Links, Migrating
<1>5. Agreement'
    BY <1>0 DEF XrayInv, Agreement, Migrating, Applying
<1> QED BY <1>1, <1>2, <1>3, <1>4, <1>5 DEF XrayInv

\* What a connect has claimed at each step.
LEMMA Claims ==
    /\ Before(1) = {"process"} /\ Before(2) = {"process", "address"}
    /\ Before(3) = Before(2) /\ Before(4) = Before(2)
    /\ Before(5) = {"process", "address", "tun"}
    /\ Before(6) = {"process", "address", "tun", "rule"}
    /\ Before(7) = Resources
    /\ \A n \in Nat : n >= 7 => Before(n) = Resources
<1>1. /\ Before(1) = {"process"} /\ Before(2) = {"process", "address"}
      /\ Before(3) = {"process", "address"} /\ Before(4) = {"process", "address"}
      /\ Before(5) = {"process", "address", "tun"}
    BY DEF Before
<1>2. /\ Before(6) = {"process", "address", "tun", "rule"}
    BY DEF Before
<1>3. \A n \in Nat : n >= 7 => Before(n) = {"process", "address", "tun", "rule", "dns"}
    BY DEF Before
<1> QED BY <1>1, <1>2, <1>3 DEF Resources

\* A claim is journaled ahead of its call.
LEMMA KeepsJournalStep ==
    ASSUME XrayInv, NEW ok \in BOOLEAN, JournalStep(ok)
    PROVE  XrayInv'
<1>0. /\ Working /\ pc = "step" /\ Journaled /\ Target
      /\ UNCHANGED <<kernel, uplink, child, sup, unsaved, orphaned>>
      /\ entry' = Intent /\ disk' \in {disk, Intent}
      /\ \/ ~ok /\ GiveUp({"config", "wiring"})
         \/ ok /\ disk' = Intent /\ Now = "dnsflag" /\ NextStep /\ torn' = torn
         \/ ok /\ disk' = Intent /\ Now # "dnsflag" /\ pc' = "kernel" /\ mig' = Aim
               /\ job' = job /\ torn' = torn
    BY DEF JournalStep, Save
<1>1. /\ job \in Jobs /\ job.step \in Nat /\ job.step >= 1 /\ entry.idx # 0
      /\ job.why \in {"connect", "respawn", "restart", "reload"}
      /\ job.why = "connect" => entry.state = "applying" /\ entry.policy = job.cfg
      /\ job.why # "connect" => entry.state = "applied" /\ entry.res = Resources
      /\ entry.res \subseteq disk.res /\ entry.byp \subseteq disk.byp \cup unsaved
      /\ "process" \in entry.res
      /\ link # 0 => entry.idx = link
      /\ job.step >= 2 => (link # 0 => "address" \in net)
      /\ net \ {"quic"} \subseteq entry.res
      /\ net \subseteq Objects \cup {"quic"}
      /\ byp \in Uplinks => byp \in entry.byp \cup unsaved
    BY <1>0, InPlan
<1>2. /\ job.why = "connect" => entry.res = Before(job.step) /\ (job.step <= 3 => entry.byp = {})
      /\ Now # "dnsflag" => job.why = "connect" /\ job.step \in {1, 3, 4, 5, 6}
      /\ Now = "dnsflag" => job.step >= 5 /\ (job.why = "connect" => job.step = 7)
      /\ Now = "bypass" => job.step = 3 /\ uplink \in Uplinks
      /\ job.step = 3 /\ job.why = "connect" => Now = "bypass"
      /\ job.step = 1 => Now = "address"
      /\ job.why = "connect" /\ job.step = 4 => Now = "tun"
      /\ job.why = "connect" /\ job.step = 5 => Now = "rule"
      /\ job.why = "connect" /\ job.step = 6 => Now = "dns"
    <2>1. job.why = "connect" => entry.res = Before(job.step) /\ (job.step <= 3 => entry.byp = {})
        BY <1>0 DEF XrayInv, Progress
    <2>2. Now = "bypass" => uplink \in Uplinks
        BY <1>0 DEF XrayInv, Shapes, Target
    <2>3. /\ job.step <= Len(Steps) /\ job.step \in 1..7
          /\ Now = "dnsflag" \/ (job.why = "connect" /\ Now # "quic")
        BY <1>0, <1>1, StepFacts DEF Working, Journaled
    <2> QED BY <1>1, <2>1, <2>2, <2>3, StepFacts
<1>3. /\ Sound(Intent) /\ Intent.state = entry.state /\ Intent.policy = entry.policy
      /\ Intent.idx = entry.idx
      /\ entry.res \subseteq Intent.res /\ entry.byp \subseteq Intent.byp
      /\ Now = "dnsflag" => Intent = entry
      /\ Now = "bypass" => Intent.res = entry.res /\ Intent.byp = {uplink}
      /\ Now \notin {"dnsflag", "bypass"} =>
            Intent.res = Before(job.step + 1) /\ Intent.byp = entry.byp
    <2>0. Sound(entry) /\ entry \in Entry
        BY DEF XrayInv, Shapes, Sound
    <2>1. CASE Now = "dnsflag"
        BY <2>0, <2>1 DEF Intent
    <2>2. CASE Now = "bypass"
        <3>1. Intent = [entry EXCEPT !.byp = {uplink}]
            BY <1>2, <2>0, <2>2 DEF Intent, Entry
        <3>2. Sound(Intent)
            BY <1>1, <1>2, <2>0, <2>2, <3>1, SoundEntries
        <3> QED BY <1>2, <2>0, <2>2, <3>1, <3>2 DEF Entry
    <2>3. CASE Now \notin {"dnsflag", "bypass"}
        <3>1. entry.res \cup {Now} = Before(job.step + 1) /\ entry.res \cup {Now} \subseteq Resources
            BY <1>1, <1>2, <2>3, Claims DEF Resources
        <3>2. Intent = [entry EXCEPT !.res = Before(job.step + 1)]
            BY <2>3, <3>1 DEF Intent
        <3>3. Sound(Intent)
            BY <1>1, <1>2, <2>0, <2>3, <3>1, <3>2, SoundEntries
        <3> QED BY <2>0, <2>3, <3>1, <3>2, <3>3 DEF Entry
    <2> QED BY <2>1, <2>2, <2>3
<1>4. CASE ~ok
    <2>1. Afloat'
        BY <1>0, <1>1, <1>3, <1>4 DEF XrayInv, Shapes, Coverage, Covers, Afloat, kernel, child, sup
    <2>2. job.why = "reload" => Reported'
        BY <1>0, <1>1, <1>2, <1>3, <1>4 DEF Reported, kernel
    <2> QED BY <1>0, <1>4, <2>1, <2>2, GivesUp
<1>5. CASE ok
    <2>1. disk' = Intent /\ entry' = Intent /\ UNCHANGED <<link, net, byp, unsaved>>
        BY <1>0, <1>5 DEF kernel
    <2>2. Covers(entry)' /\ Covers(disk)'
        BY <1>1, <1>3, <2>1 DEF XrayInv, Coverage, Covers
    <2>3. mig' \in Migs
        BY <1>0, <1>5, JobTypes DEF XrayInv, Shapes, NextStep, Aim
    <2>4. Progress'
        <3>1. CASE Now = "dnsflag"
            BY <1>0, <1>1, <1>2, <1>3, <1>5, <3>1, NextSteps, Claims DEF Progress, Applying
        <3>2. CASE Now = "bypass"
            <4>1. mig'.new = uplink
                BY <1>0, <1>5, <3>2 DEF Aim, NoMig
            <4> QED BY <1>0, <1>1, <1>2, <1>3, <1>5, <2>1, <3>2, <4>1, Claims DEF Progress, Applying
        <3>3. CASE Now \notin {"dnsflag", "bypass"}
            BY <1>0, <1>1, <1>2, <1>3, <1>5, <2>1, <3>3, Claims DEF Progress, Applying
        <3> QED BY <3>1, <3>2, <3>3
    <2>5. /\ UNCHANGED <<link, tracked, staged, running, failover, restarts, uplink, torn,
                         unsaved, orphaned>>
          /\ net' = net /\ byp' = byp /\ byp \in Uplinks \cup {"absent", "foreign"}
          /\ link = 0 => net \cap OnLink = {}
        BY <1>0, <1>5 DEF XrayInv, Shapes, Coverage, kernel, child, sup
    <2>6. NextStep => pc' = "step"
        BY DEF NextStep
    <2> QED BY <1>0, <1>1, <1>2, <1>3, <1>5, <2>1, <2>2, <2>3, <2>4, <2>5, <2>6, PlanGoesOn
<1> QED BY <1>4, <1>5

\* No uplink for the bypass route.
LEMMA KeepsSkipBypass ==
    ASSUME XrayInv, SkipBypass
    PROVE  XrayInv'
<1>0. /\ Working /\ pc = "step" /\ ~Target /\ NextStep
      /\ UNCHANGED <<journals, kernel, uplink, child, sup, history>>
    BY DEF SkipBypass
<1>1. /\ job.step \in Nat /\ job.step >= 1
      /\ entry.res \subseteq disk.res /\ entry.byp \subseteq disk.byp \cup unsaved
    BY <1>0, InPlan
<1>2. job.why = "connect" /\ job.step = 3
    <2>1. job.step <= Len(Steps) /\ Now = "bypass"
        BY <1>0 DEF Working, Target
    <2> QED BY <1>1, <2>1, StepNames
<1>3. /\ entry.res = Before(3) /\ entry.idx # 0 /\ entry.policy = job.cfg
    BY <1>0, <1>2 DEF XrayInv, Progress, Applying
<1>4. UNCHANGED <<entry, disk, link, net, byp, tracked, staged, running, failover, restarts,
                  uplink, torn, unsaved, orphaned>>
    BY <1>0 DEF journals, kernel, child, sup, history
<1>5. pc' = "step" /\ job'.step = 4 /\ job'.why = "connect" /\ job'.cfg = job.cfg
    BY <1>0, <1>2, NextSteps
<1>6. Progress'
    BY <1>3, <1>4, <1>5, Claims DEF Progress, Applying
<1>7. /\ Covers(entry)' /\ Covers(disk)' /\ (link = 0 => net \cap OnLink = {})
      /\ Sound(entry) /\ Sound(disk) /\ net \subseteq Objects \cup {"quic"}
      /\ byp \in Uplinks \cup {"absent", "foreign"}
    BY <1>0, <1>4 DEF XrayInv, Shapes, Coverage, Covers
<1> QED BY <1>0, <1>1, <1>2, <1>4, <1>5, <1>6, <1>7, PlanGoesOn

\* What the kernel is asked for is claimed, in memory and on disk.
LEMMA Calls ==
    ASSUME XrayInv, Calling
    PROVE  /\ pc \in {"step", "kernel"} /\ job.step \in 1..7
           /\ Now \in Objects \cup {"quic", "bypass"}
           /\ Now \in Objects => Now \in entry.res /\ Now \in disk.res
           /\ Now = "bypass" => /\ job.why = "connect" /\ job.step = 3 /\ pc = "kernel"
                                /\ mig.new \in Uplinks /\ entry.byp = {mig.new}
                                /\ mig.new \in disk.byp \cup unsaved
                                /\ byp \in Uplinks => byp \in unsaved
           /\ job.step = 1 <=> Now = "address"
           /\ Now = "dns" => /\ job.why = "connect" => job.step = 6
                             /\ job.why # "connect" => job.step = 4
           /\ Now = "tun" => /\ job.why = "connect" => job.step = 4
                             /\ job.why # "connect" => job.step = 3
           /\ Now = "rule" => job.why = "connect" /\ job.step = 5
           /\ job.why = "connect" =>
                 /\ entry.res = Before(job.step + 1)
                 /\ job.step + 1 <= 3 => entry.byp = {}
                 /\ Now # "quic" => /\ net \ {"quic"} \subseteq Before(job.step)
                                    /\ pc = "kernel"
<1>0. /\ pc \in {"step", "kernel"} /\ job.step <= Len(Steps) /\ (pc = "kernel" \/ ~Journaled)
    BY DEF Calling, Working
<1>1. /\ job.step \in Nat /\ job.step >= 1
      /\ entry.res \subseteq disk.res /\ entry.byp \subseteq disk.byp \cup unsaved
      /\ job.why # "connect" => entry.res = Resources
    BY <1>0, InPlan
<1>2. job.step \in 1..7
    BY <1>0, <1>1, StepNames
<1>3. /\ pc = "kernel" =>
            /\ job.why = "connect" /\ job.step \in {1, 3, 4, 5, 6}
            /\ entry.res = Before(job.step + 1) /\ net \ {"quic"} \subseteq Before(job.step)
            /\ job.step < 3 => entry.byp = {}
            /\ job.step = 3 => /\ mig.new \in Uplinks /\ entry.byp = {mig.new}
                               /\ byp \in Uplinks => byp \in unsaved
      /\ pc = "step" /\ job.why = "connect" =>
            entry.res = Before(job.step) /\ (job.step <= 3 => entry.byp = {})
    BY DEF XrayInv, Progress
<1>4. pc = "step" => /\ Now # "dnsflag"
                     /\ job.why = "connect" => Now = "quic"
    BY <1>0 DEF Journaled
<1>5. pc = "step" /\ job.why = "connect" => job.step = 2
    BY <1>0, <1>1, <1>4, StepNames
<1>6. CASE job.why = "connect"
    <2>1. \/ (job.step = 1 /\ Now = "address") \/ (job.step = 2 /\ Now = "quic")
          \/ (job.step = 3 /\ Now = "bypass")  \/ (job.step = 4 /\ Now = "tun")
          \/ (job.step = 5 /\ Now = "rule")    \/ (job.step = 6 /\ Now = "dns")
        BY <1>0, <1>1, <1>3, <1>5, <1>6, StepNames
    <2>2. entry.res = Before(job.step + 1)
        BY <1>0, <1>3, <1>5, <1>6, <2>1, Claims
    <2>3. job.step = 2 \/ pc = "kernel"
        BY <1>0, <1>5, <1>6
    <2>4. Now \in Objects => Now \in entry.res
        BY <2>1, <2>2, Claims DEF Resources, Objects
    <2> QED BY <1>0, <1>1, <1>2, <1>3, <1>6, <2>1, <2>2, <2>3, <2>4 DEF Objects
<1>7. CASE job.why # "connect"
    <2>1. \/ (job.step = 1 /\ Now = "address") \/ (job.step = 2 /\ Now = "quic")
          \/ (job.step = 3 /\ Now = "tun")     \/ (job.step = 4 /\ Now = "dns")
        BY <1>0, <1>1, <1>3, <1>4, <1>7, StepNames
    <2> QED BY <1>0, <1>1, <1>2, <1>7, <2>1 DEF Objects, Resources
<1> QED BY <1>6, <1>7

\* A call of the kernel.
LEMMA KeepsKernelStep ==
    ASSUME XrayInv, NEW ok \in BOOLEAN, KernelStep(ok)
    PROVE  XrayInv'
<1>0. /\ Calling
      /\ UNCHANGED <<journals, link, uplink, child, sup, unsaved, orphaned>>
      /\ net' = net \/ (net' = net \cup {Now} /\ Reachable /\ Now # "bypass")
      /\ byp' = byp \/ (byp' = mig.new /\ Now = "bypass")
      /\ ok /\ Now = "address" => "address" \in net'
      /\ \/ (ok \/ (Now = "dns" /\ job.why # "connect")) /\ NextStep /\ torn' = torn
         \/ ~ok /\ GiveUp({"config", "wiring"})
    <2>1. CASE ok
        BY <2>1 DEF KernelStep
    <2>2. CASE ~ok
        BY <2>2 DEF KernelStep
    <2> QED BY <2>1, <2>2
<1>1. /\ job.step \in Nat /\ job.step >= 1 /\ entry.idx # 0
      /\ job.why \in {"connect", "respawn", "restart", "reload"}
      /\ job.why = "connect" => entry.state = "applying" /\ entry.policy = job.cfg
      /\ job.why # "connect" => entry.state = "applied" /\ entry.res = Resources
      /\ entry.res \subseteq disk.res /\ entry.byp \subseteq disk.byp \cup unsaved
      /\ "process" \in entry.res
      /\ link # 0 => entry.idx = link
      /\ job.step >= 2 => (link # 0 => "address" \in net)
      /\ net \subseteq Objects \cup {"quic"}
    BY <1>0, Calls, InPlan
<1>2. /\ pc \in {"step", "kernel"} /\ job.step \in 1..7
      /\ Now \in Objects \cup {"quic", "bypass"}
      /\ Now \in Objects => Now \in entry.res /\ Now \in disk.res
      /\ Now = "bypass" => /\ mig.new \in Uplinks /\ mig.new \in entry.byp
                           /\ mig.new \in disk.byp \cup unsaved
      /\ job.step = 1 <=> Now = "address"
    BY <1>0, Calls
<1>3. UNCHANGED <<entry, disk, link, tracked, staged, running, failover, restarts, uplink,
                  unsaved, orphaned>>
    BY <1>0 DEF journals, child, sup
<1>4. /\ Covers(entry)' /\ Covers(disk)'
      /\ net \subseteq net' /\ net' \subseteq Objects \cup {"quic"}
      /\ byp' \in Uplinks \cup {"absent", "foreign"}
    BY <1>0, <1>1, <1>2, <1>3 DEF XrayInv, Shapes, Coverage, Covers
<1>5. link = 0 => net' \cap OnLink = {}
    BY <1>0, <1>1 DEF XrayInv, Coverage, Reachable
<1>6. CASE NextStep /\ torn' = torn /\ (ok \/ (Now = "dns" /\ job.why # "connect"))
    <2>1. pc' = "step" /\ job'.step = job.step + 1 /\ job'.why = job.why /\ job'.cfg = job.cfg
        BY <1>6, NextSteps
    <2>2. job.why = "connect" => /\ entry.res = Before(job.step + 1)
                                 /\ job.step + 1 <= 3 => entry.byp = {}
        BY <1>0, Calls
    <2>3. Progress'
        BY <1>1, <1>2, <1>3, <2>1, <2>2 DEF Progress, Applying
    <2>4. job.step = 1 => "address" \in net'
        BY <1>0, <1>2, <1>6
    <2>5. Sound(entry') /\ Sound(disk')
        BY <1>3 DEF XrayInv, Shapes
    <2> QED BY <1>1, <1>2, <1>3, <1>4, <1>5, <1>6, <2>1, <2>3, <2>4, <2>5, PlanGoesOn
<1>7. CASE GiveUp({"config", "wiring"})
    <2>1. Afloat'
        BY <1>1, <1>3, <1>4, <1>5 DEF XrayInv, Shapes, Afloat
    <2>2. job.why = "reload" => Reported'
        BY <1>1, <1>3 DEF Reported
    <2> QED BY <1>7, <2>1, <2>2, GivesUp
<1> QED BY <1>0, <1>6, <1>7

\* systemd-resolved is not there.
LEMMA KeepsNoResolved ==
    ASSUME XrayInv, NoResolved
    PROVE  XrayInv'
<1>0. /\ Calling /\ Now = "dns" /\ pc' = "step" /\ mig' = NoMig
      /\ job' = [job EXCEPT !.step = @ + (IF job.why = "connect" THEN 2 ELSE 1)]
      /\ UNCHANGED <<journals, kernel, uplink, child, sup, history>>
    BY DEF NoResolved
<1>1. /\ job \in Jobs /\ job.step \in Nat /\ entry.idx # 0 /\ failover = 0
      /\ job.why \in {"connect", "respawn", "restart", "reload"}
      /\ job.why = "connect" => entry.policy = job.cfg
      /\ job.why = "connect" => job.step = 6 /\ entry.res = Before(job.step + 1)
      /\ job.why # "connect" => job.step = 4
      /\ pc \in {"step", "kernel"}
    BY <1>0, Calls, InPlan
<1>2. /\ job' \in Jobs /\ job'.why = job.why /\ job'.cfg = job.cfg
      /\ job'.step = (IF job.why = "connect" THEN 8 ELSE 5)
    <2>1. job' = [job EXCEPT !.step = IF job.why = "connect" THEN 8 ELSE 5]
        BY <1>0, <1>1
    <2>2. PICK n \in Nat : n = IF job.why = "connect" THEN 8 ELSE 5
        OBVIOUS
    <2>3. job' = [job EXCEPT !.step = n]
        BY <2>1, <2>2
    <2>4. job' \in Jobs
        BY <1>1, <2>3, JobTypes
    <2> QED BY <1>1, <2>2, <2>3, <2>4, JobEdits
<1>3. UNCHANGED <<entry, disk, link, net, byp, tracked, staged, running, failover, restarts,
                  uplink, torn, unsaved, orphaned>>
    BY <1>0 DEF journals, kernel, child, sup, history
<1>4. Shapes'
    BY <1>0, <1>2, <1>3, JobTypes DEF XrayInv, Shapes, Phases
<1>5. Coverage' /\ Left' /\ Moves'
    BY <1>0, <1>1, <1>3 DEF XrayInv, Coverage, Covers, Left, Moves, Removing, Migrating
<1>6. Progress'
    BY <1>0, <1>1, <1>2, <1>3, Claims DEF Progress, Applying
<1>7. Stages' /\ Links' /\ Agreement'
    BY <1>0, <1>1, <1>2, <1>3 DEF XrayInv, Stages, Links, Agreement, Removing, Migrating, Applying
<1> QED BY <1>4, <1>5, <1>6, <1>7 DEF XrayInv

\* The object exists already.
LEMMA KeepsKernelConflict ==
    ASSUME XrayInv, KernelConflict
    PROVE  XrayInv'
<1>0. /\ Calling /\ (Now \in {"address", "tun", "rule"} \/ Now = "bypass")
      /\ UNCHANGED <<disk, kernel, uplink, child, sup, unsaved, orphaned>>
      /\ \/ job.why # "connect" /\ entry' = entry
         \/ job.why = "connect" /\ Now = "bypass" /\ entry' = [entry EXCEPT !.byp = @ \ {mig.new}]
         \/ job.why = "connect" /\ Now # "bypass" /\ entry' = [entry EXCEPT !.res = @ \ {Now}]
      /\ \/ (Now = "bypass" \/ (Now = "tun" /\ job.why # "connect")) /\ NextStep /\ torn' = torn
         \/ Now # "bypass" /\ GiveUp({"config", "wiring"})
    BY DEF KernelConflict, Taken
<1>1. /\ job.step \in Nat /\ job.step >= 1 /\ entry.idx # 0
      /\ job.why \in {"connect", "respawn", "restart", "reload"}
      /\ job.why = "connect" => entry.state = "applying" /\ entry.policy = job.cfg
      /\ job.why # "connect" => entry.state = "applied" /\ entry.res = Resources
      /\ entry.res \subseteq disk.res /\ entry.byp \subseteq disk.byp \cup unsaved
      /\ "process" \in entry.res
      /\ link # 0 => entry.idx = link
      /\ job.step >= 2 => (link # 0 => "address" \in net)
      /\ net \subseteq Objects \cup {"quic"} /\ net \ {"quic"} \subseteq entry.res
      /\ byp \in Uplinks => byp \in entry.byp \cup unsaved
    BY <1>0, Calls, InPlan
<1>2. /\ pc \in {"step", "kernel"} /\ job.step \in 1..7
      /\ Now = "bypass" => /\ job.why = "connect" /\ job.step = 3 /\ entry.byp = {mig.new}
                           /\ byp \in Uplinks => byp \in unsaved
                           /\ entry.res = Before(4)
      /\ job.why = "connect" /\ Now # "bypass" => Now \notin net
      /\ Now = "tun" => job.step >= 2
    <2>1. job.why = "connect" /\ Now # "bypass" => Now \notin Before(job.step)
        BY <1>0, Calls, Claims
    <2> QED BY <1>0, <2>1, Calls
<1>3. UNCHANGED <<disk, link, net, byp, tracked, staged, running, failover, restarts, uplink,
                  unsaved, orphaned>>
    BY <1>0 DEF kernel, child, sup
<1>4. /\ Sound(entry') /\ entry'.state = entry.state /\ entry'.policy = entry.policy
      /\ entry'.idx = entry.idx
      /\ entry'.res \subseteq entry.res /\ entry'.byp \subseteq entry.byp
      /\ net \ {"quic"} \subseteq entry'.res /\ "process" \in entry'.res
      /\ byp \in Uplinks => byp \in entry'.byp \cup unsaved
      /\ Now = "bypass" \/ job.why # "connect" => entry'.res = entry.res
    <2>0. Sound(entry) /\ entry \in Entry
        BY DEF XrayInv, Shapes, Sound
    <2>1. CASE job.why # "connect"
        BY <1>0, <1>1, <2>0, <2>1
    <2>2. CASE job.why = "connect" /\ Now = "bypass"
        <3>1. entry' = [entry EXCEPT !.byp = {}]
            BY <1>0, <1>2, <2>0, <2>2 DEF Entry
        <3>2. Sound(entry')
            BY <1>1, <2>0, <2>2, <3>1, SoundEntries
        <3> QED BY <1>1, <1>2, <2>0, <2>2, <3>1, <3>2 DEF Entry
    <2>3. CASE job.why = "connect" /\ Now # "bypass"
        <3> DEFINE r == entry.res \ {Now}
        <3>1. entry' = [entry EXCEPT !.res = r]
            BY <1>0, <2>0, <2>3 DEF Entry
        <3>2. r \in SUBSET Resources /\ "process" \in r /\ net \ {"quic"} \subseteq r
            BY <1>0, <1>1, <1>2, <2>0, <2>3 DEF Entry
        <3> HIDE DEF r
        <3>3. Sound(entry')
            BY <1>1, <2>0, <2>3, <3>1, <3>2, SoundEntries
        <3>4. entry'.res = r /\ r \subseteq entry.res
            BY <2>0, <3>1 DEF Entry, r
        <3> QED BY <1>1, <1>2, <2>0, <2>3, <3>1, <3>2, <3>3, <3>4 DEF Entry
    <2> QED BY <2>1, <2>2, <2>3
<1>5. /\ Covers(entry)' /\ Covers(disk)' /\ Sound(disk')
      /\ byp' \in Uplinks \cup {"absent", "foreign"}
      /\ link = 0 => net' \cap OnLink = {}
      /\ entry'.res \subseteq disk'.res /\ entry'.byp \subseteq disk'.byp \cup unsaved'
    BY <1>1, <1>3, <1>4 DEF XrayInv, Shapes, Coverage, Covers
<1>6. CASE NextStep /\ torn' = torn /\ (Now = "bypass" \/ (Now = "tun" /\ job.why # "connect"))
    <2>1. pc' = "step" /\ job'.step = job.step + 1 /\ job'.why = job.why /\ job'.cfg = job.cfg
        BY <1>6, NextSteps
    <2>2. Progress'
        BY <1>1, <1>2, <1>4, <1>6, <2>1 DEF Progress, Applying
    <2> QED BY <1>1, <1>2, <1>3, <1>4, <1>5, <1>6, <2>1, <2>2, PlanGoesOn
<1>7. CASE GiveUp({"config", "wiring"})
    <2>1. Afloat'
        BY <1>1, <1>3, <1>4, <1>5 DEF XrayInv, Shapes, Afloat
    <2>2. job.why = "reload" => Reported'
        BY <1>1, <1>3, <1>4, <1>5 DEF Reported
    <2> QED BY <1>7, <2>1, <2>2, GivesUp
<1> QED BY <1>0, <1>6, <1>7

\* A plan that is done.
LEMMA Completed ==
    ASSUME XrayInv, AllDone
    PROVE  /\ pc = "step" /\ job.step \in Nat /\ job.step >= 2
           /\ job.why = "connect" => entry.res = Resources
<1>0. pc = "step" /\ job.step > Len(Steps)
    BY DEF AllDone
<1>1. job.step \in Nat /\ job.step >= 1
    BY <1>0, InPlan
<1>2. job.step >= 2 /\ (job.why = "connect" => job.step >= 7)
    <2>1. CASE job.why = "connect"
        <3>1. job.step > 7 BY <1>0, <1>1, <2>1, StepFacts
        <3> QED BY <1>1, <3>1
    <2>2. CASE job.why # "connect"
        <3>1. job.step > 5 BY <1>0, <1>1, <2>2, StepFacts
        <3> QED BY <1>1, <2>2, <3>1
    <2> QED BY <2>1, <2>2
<1>3. job.why = "connect" => entry.res = Before(job.step)
    BY <1>0 DEF XrayInv, Progress
<1> QED BY <1>0, <1>1, <1>2, <1>3, Claims

\* Commit.
LEMMA KeepsCommit ==
    ASSUME XrayInv, NEW ok \in BOOLEAN, Commit(ok)
    PROVE  XrayInv'
<1> DEFINE e == [entry EXCEPT !.state = "applied"]
<1>0. /\ AllDone /\ job.why = "connect"
      /\ UNCHANGED <<kernel, uplink, child, unsaved, orphaned>>
      /\ entry' = e /\ disk' \in {disk, e}
      /\ \/ /\ ok /\ Idle /\ restarts' = 0 /\ failover' = job.cfg /\ torn' = torn
         \/ ~ok /\ GiveUp({}) /\ UNCHANGED sup
    BY DEF Commit, Save
<1>1. /\ pc = "step" /\ job \in Jobs /\ job.step \in Nat /\ job.step >= 2 /\ entry.idx # 0
      /\ entry.state = "applying" /\ entry.policy = job.cfg /\ entry.res = Resources
      /\ entry.res \subseteq disk.res /\ entry.byp \subseteq disk.byp \cup unsaved
      /\ link # 0 => entry.idx = link
      /\ link # 0 => "address" \in net
    BY <1>0, Completed, InPlan
<1>2. /\ Sound(e) /\ e.state = "applied" /\ e.res = entry.res /\ e.byp = entry.byp
      /\ e.policy = entry.policy /\ e.idx = entry.idx
    <2>1. Sound(entry) /\ entry \in Entry
        BY DEF XrayInv, Shapes, Sound
    <2>2. Sound(e)
        BY <1>1, <2>1, SoundEntries
    <2> QED BY <2>1, <2>2 DEF Entry
<1> HIDE DEF e
<1>3. UNCHANGED <<link, net, byp, tracked, staged, running, uplink, unsaved, orphaned>>
    BY <1>0 DEF kernel, child
<1>4. /\ staged = job.cfg /\ (link # 0 => running = staged) /\ job.cfg \in Cfgs
    BY <1>0, <1>1 DEF XrayInv, Agreement, Applying, Jobs
<1>5. CASE ok
    <2>1. pc' = "idle" /\ job' = Rest /\ mig' = NoMig /\ failover' = job.cfg /\ restarts' = 0
          /\ torn' = torn
        BY <1>0, <1>5 DEF Idle
    <2>2. 0 \in 0..MaxRespawns
        BY XrayAssumption
    <2>3. Shapes'
        BY <1>0, <1>2, <1>3, <1>4, <2>1, <2>2, JobTypes DEF XrayInv, Shapes, Phases
    <2>4. Coverage' /\ Left'
        BY <1>0, <1>1, <1>2, <1>3, <2>1 DEF XrayInv, Coverage, Covers, Left, Removing
    <2>5. Stages' /\ Progress' /\ Moves'
        BY <1>0, <1>1, <1>2, <1>3, <2>1 DEF XrayInv, Stages, Progress, Moves, Removing, Migrating, Applying
    <2>6. Links' /\ Agreement'
        BY <1>0, <1>1, <1>2, <1>3, <1>4, <2>1 DEF Links, Agreement, Migrating, Applying
    <2> QED BY <2>3, <2>4, <2>5, <2>6 DEF XrayInv
<1>6. CASE ~ok
    <2>1. Afloat'
        BY <1>0, <1>1, <1>2, <1>3, <1>6 DEF XrayInv, Shapes, Coverage, Covers, Afloat, sup
    <2> QED BY <1>0, <1>6, <2>1, GivesUp
<1> QED BY <1>5, <1>6

\* What is known of an `applied` tunnel between requests.
LEMMA InUse ==
    ASSUME XrayInv, pc = "idle", entry.state = "applied"
    PROVE  /\ entry.res = Resources /\ entry.idx # 0 /\ entry.policy \in Cfgs
           /\ entry.byp \subseteq Uplinks
           /\ entry.res \subseteq disk.res /\ entry.byp \subseteq disk.byp \cup unsaved
           /\ link # 0 => entry.idx = link
           /\ "wiring" \notin torn => (link # 0 => "address" \in net)
           /\ "config" \notin torn => /\ staged = entry.policy /\ failover \in {0, entry.policy}
                                      /\ link # 0 => running = staged
           /\ byp \in Uplinks \cup {"absent", "foreign"}
<1>1. /\ entry.res = Resources /\ entry.idx # 0 /\ entry \in Entry
      /\ byp \in Uplinks \cup {"absent", "foreign"}
    BY DEF XrayInv, Shapes, Sound
<1>2. entry.policy \in Cfgs /\ entry.byp \subseteq Uplinks
    BY <1>1 DEF Entry, Cfgs
<1>3. entry.res \subseteq disk.res /\ entry.byp \subseteq disk.byp \cup unsaved
    BY DEF XrayInv, Coverage, Removing
<1>4. /\ link # 0 => entry.idx = link
      /\ "wiring" \notin torn => (link # 0 => "address" \in net)
    BY DEF XrayInv, Links
<1>5. "config" \notin torn => /\ staged = entry.policy /\ failover \in {0, entry.policy}
                              /\ link # 0 => running = staged
    BY DEF XrayInv, Agreement
<1> QED BY <1>1, <1>2, <1>3, <1>4, <1>5

\* Reload.
LEMMA KeepsReload ==
    ASSUME XrayInv, NEW c \in Configs, NEW ok \in BOOLEAN, Reload(c, ok)
    PROVE  XrayInv'
<1>0. /\ pc = "idle" /\ entry.state = "applied" /\ failover' = 0
      /\ UNCHANGED <<journals, kernel, uplink, tracked, running, restarts, mig, unsaved, orphaned>>
      /\ \/ /\ staged' = c /\ pc' = "respawn" /\ torn' = torn
            /\ job' = [Rest EXCEPT !.why = "reload", !.cfg = c]
         \/ staged' = staged /\ torn' = torn /\ pc' = "idle" /\ job' = job
         \/ staged' = c /\ torn' = torn \cup {"config"} /\ pc' = "idle" /\ job' = job
    BY DEF Reload
<1>1. UNCHANGED <<entry, disk, link, net, byp>>
    BY <1>0 DEF journals, kernel
<1>2. c \in Cfgs /\ 0 \in Cfgs
    BY DEF Cfgs
<1>3. /\ job' \in Jobs
      /\ pc' = "respawn" => job'.why = "reload" /\ job'.cfg = c
    <2> DEFINE j == [Rest EXCEPT !.why = "reload", !.cfg = c]
    <2>1. j \in Jobs
        BY <1>2, JobTypes DEF Whys
    <2>2. j.why = "reload" /\ j.cfg = c
        BY DEF Rest
    <2> HIDE DEF j
    <2> QED BY <1>0, <2>1, <2>2 DEF XrayInv, Shapes, j
<1>4. Shapes'
    BY <1>0, <1>1, <1>2, <1>3 DEF XrayInv, Shapes, Phases
<1>5. Coverage' /\ Left' /\ Moves' /\ Progress'
    BY <1>0, <1>1 DEF XrayInv, Coverage, Covers, Left, Moves, Progress, Removing, Migrating, Applying
<1>6. Stages'
    BY <1>0, <1>1, <1>3 DEF XrayInv, Stages, Removing, Migrating, Applying
<1>7. Links' /\ Agreement'
    BY <1>0, <1>1, <1>3, InUse DEF Links, Agreement, Migrating, Applying
<1> QED BY <1>4, <1>5, <1>6, <1>7 DEF XrayInv

\* A respawn on the staged files.
LEMMA KeepsRespawn ==
    ASSUME XrayInv, NEW ok \in BOOLEAN, Respawn(ok)
    PROVE  XrayInv'
<1>0. /\ pc = "respawn"
      /\ UNCHANGED <<journals, byp, uplink, staged, sup, unsaved, orphaned>>
      /\ \/ /\ ok /\ link' = Fresh /\ net' = LinkGone /\ tracked' = TRUE /\ running' = staged
            /\ pc' = "index" /\ UNCHANGED <<job, mig, torn>>
         \/ /\ ~ok /\ GiveUp({"config"})
            /\ \/ UNCHANGED <<link, net, tracked, running>>
               \/ link' = 0 /\ net' = LinkGone /\ tracked' = FALSE /\ running' = 0
    BY DEF Respawn
<1>1. /\ job.why \in {"respawn", "restart", "reload"} /\ failover = 0 /\ entry.state = "applied"
      /\ entry.res \subseteq disk.res /\ entry.byp \subseteq disk.byp \cup unsaved
      /\ "process" \in entry.res
      /\ link # 0 => entry.idx = link
      /\ "wiring" \notin torn => (link # 0 => "address" \in net)
    <2>1. /\ job.why \in {"respawn", "restart", "reload"} /\ failover = 0 /\ entry.state = "applied"
        BY <1>0 DEF XrayInv, Stages
    <2> QED BY <1>0, <2>1 DEF XrayInv, Shapes, Sound, Coverage, Links, Removing
<1>2. /\ UNCHANGED <<entry, disk, failover, restarts>>
      /\ net' \subseteq net
    BY <1>0 DEF journals, sup, LinkGone
<1>3. CASE ok
    <2>1. Shapes'
        BY <1>0, <1>2, <1>3, FreshIndex DEF XrayInv, Shapes, Phases
    <2>2. Coverage' /\ Left' /\ Moves'
        BY <1>0, <1>1, <1>2, <1>3, FreshIndex DEF XrayInv, Coverage, Covers, Left, Moves, Removing, Migrating
    <2>3. Stages' /\ Progress'
        BY <1>0, <1>1, <1>2, <1>3 DEF XrayInv, Stages, Progress, Removing, Migrating, Applying
    <2>4. Links' /\ Agreement'
        BY <1>0, <1>1, <1>2, <1>3 DEF XrayInv, Links, Agreement, Migrating, Applying
    <2> QED BY <2>1, <2>2, <2>3, <2>4 DEF XrayInv
<1>4. CASE ~ok
    <2>0. 0 \in Cfgs /\ 0 \in Indexes
        BY DEF Cfgs, Indexes
    <2>1. Afloat'
        <3>1. CASE UNCHANGED <<link, net, tracked, running>>
            BY <1>0, <1>1, <1>2, <3>1 DEF XrayInv, Shapes, Coverage, Covers, Afloat
        <3>2. CASE link' = 0 /\ net' = LinkGone /\ tracked' = FALSE /\ running' = 0
            <4>1. tracked' \in BOOLEAN
                BY <3>2, Zenon
            <4> QED BY <1>0, <1>1, <1>2, <2>0, <3>2, <4>1
                       DEF XrayInv, Shapes, Coverage, Covers, Afloat, LinkGone
        <3> QED BY <1>0, <1>4, <3>1, <3>2
    <2>2. job.why = "reload" => Reported'
        BY <1>0, <1>1, <1>2, <1>4 DEF Reported
    <2>3. "wiring" \notin torn => (link' # 0 => "address" \in net')
        BY <1>0, <1>1, <1>4
    <2> QED BY <1>0, <1>4, <2>1, <2>2, <2>3, GivesUp
<1> QED BY <1>3, <1>4

\* The probe policy of a reload.
LEMMA KeepsReloadDone ==
    ASSUME XrayInv, NEW ok \in BOOLEAN, ReloadDone(ok)
    PROVE  XrayInv'
<1> DEFINE e == [entry EXCEPT !.policy = job.cfg]
<1>0. /\ AllDone /\ job.why = "reload" /\ torn' = {} /\ Idle
      /\ UNCHANGED <<kernel, uplink, child, unsaved, orphaned>>
      /\ entry' = e /\ disk' \in {disk, e}
      /\ \/ restarts' = 0 /\ failover' = job.cfg
         \/ UNCHANGED sup
    BY DEF ReloadDone, Save
<1>1. /\ pc = "step" /\ job \in Jobs /\ job.step >= 2 /\ entry.idx # 0 /\ failover = 0
      /\ entry.state = "applied" /\ entry.res = Resources
      /\ entry.res \subseteq disk.res /\ entry.byp \subseteq disk.byp \cup unsaved
      /\ link # 0 => entry.idx = link
      /\ link # 0 => "address" \in net
    BY <1>0, Completed, InPlan
<1>2. job.cfg \in Cfgs
    BY <1>1 DEF Jobs
<1>3. /\ Sound(e) /\ e.state = "applied" /\ e.res = entry.res /\ e.byp = entry.byp
      /\ e.policy = job.cfg /\ e.idx = entry.idx
    <2>1. Sound(entry) /\ entry \in Entry
        BY DEF XrayInv, Shapes, Sound
    <2>2. Sound(e)
        BY <1>1, <1>2, <2>1, SoundEntries
    <2> QED BY <1>1, <2>1, <2>2 DEF Entry
<1> HIDE DEF e
<1>4. /\ UNCHANGED <<link, net, byp, tracked, staged, running, uplink, unsaved, orphaned>>
      /\ pc' = "idle" /\ job' = Rest /\ mig' = NoMig
      /\ restarts' \in {0, restarts} /\ failover' \in {0, job.cfg}
    BY <1>0, <1>1 DEF kernel, child, sup, Idle
<1>5. staged = job.cfg /\ (link # 0 => running = staged)
    BY <1>0, <1>1 DEF XrayInv, Agreement, Applying
<1>6. 0 \in 0..MaxRespawns /\ 0 \in Cfgs
    BY XrayAssumption DEF Cfgs
<1>7. Shapes'
    BY <1>0, <1>2, <1>3, <1>4, <1>6, JobTypes DEF XrayInv, Shapes, Phases
<1>8. Coverage' /\ Left'
    BY <1>0, <1>1, <1>3, <1>4 DEF XrayInv, Coverage, Covers, Left, Removing
<1>9. Stages' /\ Progress' /\ Moves'
    BY <1>0, <1>1, <1>3, <1>4 DEF XrayInv, Stages, Progress, Moves, Removing, Migrating, Applying
<1>10. Links' /\ Agreement'
    BY <1>0, <1>1, <1>3, <1>4, <1>5 DEF Links, Agreement, Migrating, Applying
<1> QED BY <1>7, <1>8, <1>9, <1>10 DEF XrayInv

\* A dead tunnel is respawned or given up.
LEMMA KeepsHealDead ==
    ASSUME XrayInv, HealDead
    PROVE  XrayInv'
<1> DEFINE j == [Rest EXCEPT !.why = "respawn", !.seen = {byp}]
<1>0. /\ pc = "idle" /\ entry.state = "applied" /\ job' = j
      /\ UNCHANGED <<journals, kernel, uplink, child, mig, history>>
      /\ \/ pc' = "teardown" /\ UNCHANGED sup
         \/ /\ pc' = "respawn" /\ failover' = 0 /\ restarts' = restarts + 1
            /\ ~(restarts >= MaxRespawns)
    BY DEF HealDead
<1>1. UNCHANGED <<entry, disk, link, net, byp, tracked, staged, running, torn, unsaved, orphaned>>
    BY <1>0 DEF journals, kernel, child, history
<1>2. restarts' \in 0..MaxRespawns /\ failover' \in {0, failover} /\ 0 \in Cfgs
    BY <1>0, XrayAssumption DEF XrayInv, Shapes, sup, Cfgs
<1>3. j \in Jobs /\ j.why = "respawn"
    <2>1. {byp} \in SUBSET (Uplinks \cup {"absent", "foreign", "tun"}) /\ "respawn" \in Whys
        BY DEF XrayInv, Shapes, Whys
    <2>2. j \in Jobs
        BY <2>1, JobTypes
    <2> QED BY <2>2 DEF Rest
<1> HIDE DEF j
<1>4. Shapes'
    BY <1>0, <1>1, <1>2, <1>3 DEF XrayInv, Shapes, Phases
<1>5. Coverage' /\ Left' /\ Moves' /\ Progress'
    BY <1>0, <1>1 DEF XrayInv, Coverage, Covers, Left, Moves, Progress, Removing, Migrating, Applying
<1>6. Stages'
    BY <1>0, <1>1, <1>3 DEF XrayInv, Stages, Removing, Migrating, Applying
<1>7. Links' /\ Agreement'
    BY <1>0, <1>1, <1>3, InUse DEF Links, Agreement, Migrating, Applying
<1> QED BY <1>4, <1>5, <1>6, <1>7 DEF XrayInv

\* A stalled tunnel is restarted.
LEMMA KeepsHealStalled ==
    ASSUME XrayInv, HealStalled
    PROVE  XrayInv'
<1> DEFINE j == [Rest EXCEPT !.why = "restart", !.seen = {byp}]
<1>0. /\ pc = "idle" /\ entry.state = "applied" /\ job' = j
      /\ pc' = "respawn" /\ failover' = 0
      /\ UNCHANGED <<journals, kernel, uplink, child, restarts, mig, history>>
    BY DEF HealStalled
<1>1. UNCHANGED <<entry, disk, link, net, byp, tracked, staged, running, torn, unsaved, orphaned>>
    BY <1>0 DEF journals, kernel, child, history
<1>2. 0 \in Cfgs
    BY DEF Cfgs
<1>3. j \in Jobs /\ j.why = "restart"
    <2>1. {byp} \in SUBSET (Uplinks \cup {"absent", "foreign", "tun"}) /\ "restart" \in Whys
        BY DEF XrayInv, Shapes, Whys
    <2>2. j \in Jobs
        BY <2>1, JobTypes
    <2> QED BY <2>2 DEF Rest
<1> HIDE DEF j
<1>4. Shapes'
    BY <1>0, <1>1, <1>2, <1>3 DEF XrayInv, Shapes, Phases
<1>5. Coverage' /\ Left' /\ Moves' /\ Progress'
    BY <1>0, <1>1 DEF XrayInv, Coverage, Covers, Left, Moves, Progress, Removing, Migrating, Applying
<1>6. Stages'
    BY <1>0, <1>1, <1>3 DEF XrayInv, Stages, Removing, Migrating, Applying
<1>7. Links' /\ Agreement'
    BY <1>0, <1>1, <1>3, InUse DEF Links, Agreement, Migrating, Applying
<1> QED BY <1>4, <1>5, <1>6, <1>7 DEF XrayInv

\* A restoration begins on an `applied` entry.
LEMMA RestoringFacts ==
    ASSUME XrayInv, entry.state = "applied", NEW w \in Whys,
           NEW s \in SUBSET (Uplinks \cup {"absent", "foreign", "tun"}), Restoring(w, s)
    PROVE  /\ pc' = "restore" /\ mig' = NoMig /\ mig' \in Migs
           /\ job' \in Jobs /\ job'.why = w
<1>1. entry.byp \cup {"tun", "rule"} \in SUBSET (Objects \cup Uplinks)
    BY DEF XrayInv, Shapes, Sound, Entry, Objects
<1>2. [Rest EXCEPT !.why = w, !.seen = s, !.todo = entry.byp \cup {"tun", "rule"}] \in Jobs
    BY <1>1, JobTypes
<1>3. job' = [Rest EXCEPT !.why = w, !.seen = s, !.todo = entry.byp \cup {"tun", "rule"}]
    BY DEF Restoring
<1>4. job'.why = w
    BY <1>3 DEF Rest
<1> QED BY <1>2, <1>3, <1>4, JobTypes DEF Restoring

\* A pass over a live tunnel.
LEMMA KeepsPassAlive ==
    ASSUME XrayInv, NEW ok \in BOOLEAN, PassAlive(ok)
    PROVE  XrayInv'
<1> DEFINE j == [Rest EXCEPT !.why = "pass"]
<1> DEFINE s == {byp} \cup (net \cap {"tun"})
<1>0. /\ pc = "idle" /\ entry.state = "applied"
      /\ failover' = IF failover = 0 THEN entry.policy ELSE failover
      /\ UNCHANGED <<journals, link, byp, uplink, child, restarts, history>>
      /\ \/ net' = net \cup {"quic"} /\ Restoring("pass", s)
         \/ pc' = "teardown" /\ job' = j /\ net' = net /\ mig' = mig
    BY DEF PassAlive
<1>1. UNCHANGED <<entry, disk, link, byp, tracked, staged, running, torn, unsaved, orphaned>>
    BY <1>0 DEF journals, child, history
<1>2. /\ failover' \in Cfgs /\ net \subseteq net' /\ net' \subseteq net \cup {"quic"}
      /\ "process" \in entry.res /\ "process" \in disk.res
      /\ link = 0 => net' \cap OnLink = {}
    BY <1>0, InUse DEF XrayInv, Shapes, Resources, Coverage, OnLink
<1>3. j \in Jobs /\ j.why = "pass"
    <2>1. j \in Jobs
        BY JobTypes DEF Whys
    <2> QED BY <2>1 DEF Rest
<1>4. s \in SUBSET (Uplinks \cup {"absent", "foreign", "tun"}) /\ "pass" \in Whys
    BY DEF XrayInv, Shapes, Whys
<1> HIDE DEF j, s
<1>5. /\ pc' \in {"restore", "teardown"} /\ job' \in Jobs /\ job'.why = "pass" /\ mig' \in Migs
    BY <1>0, <1>3, <1>4, RestoringFacts DEF XrayInv, Shapes
<1>6. Shapes'
    BY <1>0, <1>1, <1>2, <1>5 DEF XrayInv, Shapes, Phases
<1>7. Coverage' /\ Left' /\ Moves' /\ Progress'
    BY <1>0, <1>1, <1>2, <1>5 DEF XrayInv, Coverage, Covers, Left, Moves, Progress, Removing, Migrating, Applying
<1>8. Stages'
    BY <1>0, <1>1, <1>5 DEF XrayInv, Stages, Removing, Migrating, Applying
<1>9. Links' /\ Agreement'
    BY <1>0, <1>1, <1>2, <1>5, InUse DEF Links, Agreement, Migrating, Applying
<1> QED BY <1>6, <1>7, <1>8, <1>9 DEF XrayInv

\* A respawned tunnel is supervised again.
LEMMA KeepsHealDone ==
    ASSUME XrayInv, HealDone
    PROVE  XrayInv'
<1>0. /\ AllDone /\ job.why \in {"respawn", "restart"}
      /\ failover' = entry.policy /\ torn' = torn \ {"wiring"} /\ Restoring(job.why, job.seen)
      /\ UNCHANGED <<journals, kernel, uplink, child, restarts, unsaved, orphaned>>
    BY DEF HealDone
<1>1. UNCHANGED <<entry, disk, link, net, byp, tracked, staged, running, unsaved, orphaned>>
    BY <1>0 DEF journals, kernel, child
<1>2. /\ pc = "step" /\ job \in Jobs /\ job.step >= 2 /\ entry.state = "applied"
      /\ entry.res \subseteq disk.res /\ entry.byp \subseteq disk.byp \cup unsaved
      /\ link # 0 => entry.idx = link
      /\ link # 0 => "address" \in net
    BY <1>0, Completed, InPlan
<1>3. /\ pc' = "restore" /\ mig' = NoMig /\ mig' \in Migs /\ job' \in Jobs /\ job'.why = job.why
    <2>1. job.why \in Whys /\ job.seen \in SUBSET (Uplinks \cup {"absent", "foreign", "tun"})
        BY <1>2 DEF Jobs
    <2> QED BY <1>0, <1>2, <2>1, RestoringFacts
<1>4. /\ link # 0 => running = staged
      /\ "config" \notin torn => staged = entry.policy
    BY <1>0, <1>2 DEF XrayInv, Agreement, Applying
<1>5. entry.policy \in Cfgs
    BY DEF XrayInv, Shapes, Sound, Entry, Cfgs
<1>6. Shapes'
    BY <1>0, <1>1, <1>3, <1>5 DEF XrayInv, Shapes, Phases
<1>7. Coverage' /\ Left' /\ Moves' /\ Progress'
    BY <1>0, <1>1, <1>2, <1>3 DEF XrayInv, Coverage, Covers, Left, Moves, Progress, Removing, Migrating, Applying
<1>8. Stages'
    BY <1>0, <1>1, <1>2, <1>3 DEF XrayInv, Stages, Removing, Migrating, Applying
<1>9. Links' /\ Agreement'
    BY <1>0, <1>1, <1>2, <1>3, <1>4 DEF Links, Agreement, Migrating, Applying
<1> QED BY <1>6, <1>7, <1>8, <1>9 DEF XrayInv

\* What is known of a tunnel that is being restored.
LEMMA InRestore ==
    ASSUME XrayInv, pc \in {"restore"} \cup Migrating
    PROVE  /\ pc \notin Removing \cup Applying \cup {"down", "idle", "spawn", "respawn"}
           /\ entry.state = "applied" /\ entry.res = Resources /\ Sound(entry)
           /\ entry \in Entry /\ entry.byp \in SUBSET Uplinks
           /\ entry.res \subseteq disk.res /\ entry.byp \subseteq disk.byp \cup unsaved
           /\ job \in Jobs /\ job.why \in {"pass", "respawn", "restart"}
           /\ job.todo \subseteq Objects \cup Uplinks
           /\ link # 0 => entry.idx = link
           /\ "wiring" \notin torn => (link # 0 => "address" \in net)
           /\ byp \in Uplinks \cup {"absent", "foreign"}
           /\ byp \in Uplinks => byp \in entry.byp \cup unsaved /\ byp \in disk.byp \cup unsaved
           /\ pc # "restore" => /\ mig.old \in entry.byp /\ mig.new \in entry.byp
                                /\ mig.old \in Uplinks /\ mig.new \in Uplinks
                                /\ mig.old # mig.new
<1>1. pc \notin Removing \cup Applying \cup {"down", "idle", "spawn", "respawn"}
    BY DEF Removing, Applying, Migrating
<1>2. entry.state = "applied" /\ job.why \in {"pass", "respawn", "restart"}
    BY DEF XrayInv, Stages
<1>3. /\ Sound(entry) /\ job \in Jobs /\ byp \in Uplinks \cup {"absent", "foreign"}
      /\ entry \in Entry /\ entry.res = Resources
    BY <1>2 DEF XrayInv, Shapes, Sound
<1>4. entry.byp \in SUBSET Uplinks /\ job.todo \subseteq Objects \cup Uplinks
    BY <1>3 DEF Entry, Jobs
<1>5. /\ entry.res \subseteq disk.res /\ entry.byp \subseteq disk.byp \cup unsaved
      /\ byp \in Uplinks => byp \in entry.byp \cup unsaved /\ byp \in disk.byp \cup unsaved
    BY <1>1, <1>2 DEF XrayInv, Coverage, Covers
<1>6. /\ link # 0 => entry.idx = link
      /\ "wiring" \notin torn => (link # 0 => "address" \in net)
    BY DEF XrayInv, Links
<1>7. pc # "restore" => /\ mig.old \in entry.byp /\ mig.new \in entry.byp
                        /\ mig.old \in Uplinks /\ mig.new \in Uplinks /\ mig.old # mig.new
    BY DEF XrayInv, Moves
<1> QED BY <1>1, <1>2, <1>3, <1>4, <1>5, <1>6, <1>7

\* A restoration goes on: only the bypass route and its claims have changed, and
\* its holder is claimed in memory and on disk.
LEMMA RestoreGoesOn ==
    ASSUME XrayInv, pc \in {"restore"} \cup Migrating, pc' \in {"restore"} \cup Migrating,
           UNCHANGED <<link, tracked, staged, running, failover, restarts, uplink, torn, orphaned>>,
           unsaved \subseteq unsaved',
           net \subseteq net', net' \subseteq Objects \cup {"quic"},
           link = 0 => net' \cap OnLink = {},
           job' \in Jobs, job'.why = job.why, mig' \in Migs,
           Sound(entry'), entry'.state = "applied", entry'.idx = entry.idx,
           entry'.policy = entry.policy, entry'.byp \subseteq disk'.byp \cup unsaved',
           disk' \in {disk, entry'},
           byp' \in Uplinks \cup {"absent", "foreign"},
           byp' \in Uplinks => byp' \in entry'.byp \cup unsaved' /\ byp' \in disk'.byp \cup unsaved',
           Moves'
    PROVE  XrayInv'
<1>0. pc' \notin Removing \cup Applying \cup {"down", "idle", "spawn", "respawn"}
    BY DEF Removing, Applying, Migrating
<1>1. /\ pc \notin Removing \cup Applying \cup {"down", "idle", "spawn", "respawn"}
      /\ entry.state = "applied" /\ entry.res = Resources
      /\ entry.res \subseteq disk.res
      /\ job.why \in {"pass", "respawn", "restart"}
      /\ link # 0 => entry.idx = link
      /\ "wiring" \notin torn => (link # 0 => "address" \in net)
    BY InRestore
<1>2. entry'.res = Resources /\ Sound(disk') /\ entry'.res \subseteq disk'.res
    BY <1>1 DEF XrayInv, Shapes, Sound
<1>3. Shapes'
    BY <1>2 DEF XrayInv, Shapes, Phases, Migrating
<1>4. "process" \in Resources /\ Objects \subseteq Resources
    BY DEF Resources, Objects
<1>5. Coverage' /\ Left'
    BY <1>0, <1>1, <1>2, <1>4 DEF Coverage, Covers, Left, Removing
<1>6. Stages' /\ Progress'
    BY <1>0, <1>1 DEF XrayInv, Stages, Progress, Removing, Applying
<1>7. Links'
    BY <1>0, <1>1 DEF Links, Applying
<1>8. Agreement'
    BY <1>0, <1>1 DEF XrayInv, Agreement, Applying
<1> QED BY <1>3, <1>5, <1>6, <1>7, <1>8 DEF XrayInv

\* An object done with.
LEMMA VisitedFacts ==
    ASSUME XrayInv, pc \in {"restore"} \cup Migrating, NEW r, Visited(r)
    PROVE  job' \in Jobs /\ job'.why = job.why
<1>1. job \in Jobs /\ job.todo \ {r} \in SUBSET (Objects \cup Uplinks)
    BY InRestore
<1>2. job' = [job EXCEPT !.todo = job.todo \ {r}]
    BY <1>1 DEF Visited, Jobs
<1> QED BY <1>1, <1>2, JobTypes, JobEdits

\* A restoration that fails ends in a teardown.
LEMMA RestoreFails ==
    ASSUME XrayInv, pc = "restore", pc' = "teardown", UNCHANGED <<job, mig>>,
           UNCHANGED <<journals, kernel, uplink, child, sup, history>>
    PROVE  XrayInv'
<1>0. UNCHANGED <<entry, disk, link, net, byp, tracked, staged, running, failover, restarts,
                  torn, unsaved, orphaned>>
    BY DEF journals, kernel, child, sup, history
<1>1. /\ entry.state = "applied" /\ job.why \in {"pass", "respawn", "restart"}
      /\ link # 0 => entry.idx = link
    BY InRestore
<1>2. Shapes'
    BY <1>0 DEF XrayInv, Shapes, Phases
<1>3. Coverage' /\ Left' /\ Moves' /\ Progress'
    BY <1>0, <1>1 DEF XrayInv, Coverage, Covers, Left, Moves, Progress, Removing, Migrating, Applying
<1>4. Stages' /\ Links' /\ Agreement'
    BY <1>0, <1>1 DEF XrayInv, Stages, Links, Agreement, Removing, Migrating, Applying
<1> QED BY <1>2, <1>3, <1>4 DEF XrayInv

\* The tunnel route.
LEMMA KeepsRestoreTun ==
    ASSUME XrayInv, NEW ok \in BOOLEAN, RestoreTun(ok)
    PROVE  XrayInv'
<1>0. /\ pc = "restore"
      /\ UNCHANGED <<journals, link, byp, uplink, child, sup, mig, history>>
      /\ \/ net' = net
         \/ net' = net \cup {"tun"} /\ link = entry.idx /\ ok
      /\ \/ ok /\ Visited("tun") /\ pc' = pc
         \/ ~ok /\ net' = net /\ pc' = "teardown" /\ job' = job
    BY DEF RestoreTun, ToRestore
<1>1. CASE ok
    <2>1. UNCHANGED <<entry, disk, link, byp, tracked, staged, running, failover, restarts,
                      torn, unsaved, orphaned, uplink, mig>>
        BY <1>0 DEF journals, child, sup, history
    <2>2. job' \in Jobs /\ job'.why = job.why /\ pc' = "restore"
        BY <1>0, <1>1, VisitedFacts
    <2>3. entry.idx # 0 /\ Sound(entry) /\ mig \in Migs
        BY <1>0, InRestore DEF XrayInv, Shapes, Sound
    <2>4. /\ net \subseteq net' /\ net' \subseteq Objects \cup {"quic"}
          /\ link = 0 => net' \cap OnLink = {}
        BY <1>0, <2>3 DEF XrayInv, Shapes, Coverage, Objects, OnLink
    <2>5. Moves'
        BY <2>2 DEF Moves, Migrating
    <2> QED BY <1>0, <2>1, <2>2, <2>3, <2>4, <2>5, InRestore, RestoreGoesOn
<1>2. CASE ~ok
    BY <1>0, <1>2, RestoreFails DEF kernel
<1> QED BY <1>1, <1>2

\* The bypass route.
LEMMA KeepsRestoreBypass ==
    ASSUME XrayInv, NEW u \in Uplinks, NEW ok \in BOOLEAN, RestoreBypass(u, ok)
    PROVE  XrayInv'
<1>0. /\ pc = "restore" /\ pc' = "restore" /\ Visited(u)
      /\ byp' = byp \/ (byp' = u /\ u \in entry.byp)
      /\ UNCHANGED <<journals, link, net, uplink, child, sup, mig, history>>
    BY DEF RestoreBypass, ToRestore
<1>1. UNCHANGED <<entry, disk, link, net, tracked, staged, running, failover, restarts,
                  torn, unsaved, orphaned, uplink, mig>>
    BY <1>0 DEF journals, child, sup, history
<1>2. job' \in Jobs /\ job'.why = job.why
    BY <1>0, VisitedFacts
<1>3. /\ mig \in Migs /\ net \subseteq Objects \cup {"quic"} /\ (link = 0 => net \cap OnLink = {})
    BY DEF XrayInv, Shapes, Coverage
<1>4. Moves'
    BY <1>0 DEF Moves, Migrating
<1> QED BY <1>0, <1>1, <1>2, <1>3, <1>4, InRestore, RestoreGoesOn

\* The rule, last.
LEMMA KeepsRestoreRule ==
    ASSUME XrayInv, NEW ok \in BOOLEAN, RestoreRule(ok)
    PROVE  XrayInv'
<1>0. /\ pc = "restore"
      /\ UNCHANGED <<journals, link, byp, uplink, child, sup, history>>
      /\ \/ ok /\ net' = net \cup {"rule"} /\ Idle
         \/ ~ok /\ pc' = "teardown" /\ UNCHANGED <<net, job, mig>>
    BY DEF RestoreRule, ToRestore
<1>1. CASE ok
    <2>1. /\ UNCHANGED <<entry, disk, link, byp, tracked, staged, running, failover, restarts,
                         torn, unsaved, orphaned, uplink>>
          /\ pc' = "idle" /\ job' = Rest /\ mig' = NoMig /\ net' = net \cup {"rule"}
        BY <1>0, <1>1 DEF journals, child, sup, history, Idle
    <2>2. /\ entry.state = "applied" /\ entry.res = Resources
          /\ entry.res \subseteq disk.res /\ entry.byp \subseteq disk.byp \cup unsaved
          /\ link # 0 => entry.idx = link
          /\ "wiring" \notin torn => (link # 0 => "address" \in net)
        BY <1>0, InRestore
    <2>3. Shapes'
        BY <2>1, JobTypes DEF XrayInv, Shapes, Phases, Objects
    <2>4. Coverage' /\ Left'
        BY <1>0, <2>1, <2>2 DEF XrayInv, Coverage, Covers, Left, Resources, OnLink
    <2>5. Stages' /\ Progress' /\ Moves'
        BY <1>0, <2>1, <2>2 DEF XrayInv, Stages, Progress, Moves, Removing, Migrating, Applying
    <2>6. Links' /\ Agreement'
        BY <1>0, <2>1, <2>2 DEF XrayInv, Links, Agreement, Migrating, Applying
    <2> QED BY <2>3, <2>4, <2>5, <2>6 DEF XrayInv
<1>2. CASE ~ok
    BY <1>0, <1>2, RestoreFails DEF kernel
<1> QED BY <1>1, <1>2

\* A migration that is deferred.
LEMMA KeepsMigrateDeferred ==
    ASSUME XrayInv, NEW u \in Uplinks, NEW ok \in BOOLEAN, MigrateDeferred(u, ok)
    PROVE  XrayInv'
<1>0. /\ pc = "restore" /\ pc' = "restore" /\ Visited(u)
      /\ UNCHANGED <<journals, kernel, uplink, child, sup, mig, history>>
    BY DEF MigrateDeferred, Moving, ToRestore
<1>1. UNCHANGED <<entry, disk, link, net, byp, tracked, staged, running, failover, restarts,
                  torn, unsaved, orphaned, uplink, mig>>
    BY <1>0 DEF journals, kernel, child, sup, history
<1>2. job' \in Jobs /\ job'.why = job.why
    BY <1>0, VisitedFacts
<1>3. /\ mig \in Migs /\ net \subseteq Objects \cup {"quic"} /\ (link = 0 => net \cap OnLink = {})
    BY DEF XrayInv, Shapes, Coverage
<1>4. Moves'
    BY <1>0 DEF Moves, Migrating
<1> QED BY <1>0, <1>1, <1>2, <1>3, <1>4, InRestore, RestoreGoesOn

\* What a step of the restoration that leaves the rest alone keeps.
LEMMA RestQuiet ==
    ASSUME XrayInv, UNCHANGED <<link, net, uplink, child, sup, torn, orphaned>>
    PROVE  /\ UNCHANGED <<link, tracked, staged, running, failover, restarts, uplink, torn, orphaned>>
           /\ net \subseteq net' /\ net' \subseteq Objects \cup {"quic"}
           /\ link = 0 => net' \cap OnLink = {}
           /\ mig \in Migs
BY DEF XrayInv, Shapes, Coverage, child, sup

\* The claims on the bypass route change, and nothing else of the entry.
LEMMA BypassEntry ==
    ASSUME XrayInv, pc \in {"restore"} \cup Migrating, NEW b \in SUBSET Uplinks
    PROVE  LET e == [entry EXCEPT !.byp = b]
           IN  /\ Sound(e) /\ e.state = "applied" /\ e.idx = entry.idx /\ e.policy = entry.policy
               /\ e.byp = b
<1>1. entry \in Entry /\ Sound(entry) /\ entry.state = "applied"
    BY InRestore
<1>2. Sound([entry EXCEPT !.byp = b])
    BY <1>1, SoundEntries
<1> QED BY <1>1, <1>2 DEF Entry

\* The desired route joins the entry.
LEMMA KeepsMigrate ==
    ASSUME XrayInv, NEW u \in Uplinks, NEW ok \in BOOLEAN, Migrate(u, ok)
    PROVE  XrayInv'
<1> DEFINE b == entry.byp \cup {uplink}
<1> DEFINE e == [entry EXCEPT !.byp = b]
<1> DEFINE m == [old |-> u, new |-> uplink, was |-> Was, here |-> byp = u, there |-> byp = uplink]
<1>0. /\ pc = "restore" /\ u \in entry.byp /\ uplink \notin {"none", u}
      /\ byp \in {"absent", u} \/ (Was /\ byp = uplink)
      /\ UNCHANGED <<kernel, uplink, child, sup, torn, orphaned>>
      /\ \/ Was /\ ok /\ UNCHANGED journals
         \/ ~Was /\ entry' = [entry EXCEPT !.byp = @ \cup {uplink}] /\ disk' \in {disk, entry'}
                 /\ (ok => disk' = entry')
      /\ \/ ok /\ mig' = m /\ pc' = "migrate" /\ UNCHANGED <<job, unsaved>>
         \/ ~ok /\ unsaved' = unsaved \cup {uplink} /\ Visited(u) /\ UNCHANGED <<pc, mig>>
    <2>1. CASE Was
        BY <2>1 DEF Migrate, Moving, ToRestore, KeyClear, Save
    <2>2. CASE ~Was
        BY <2>2 DEF Migrate, Moving, ToRestore, KeyClear, Save
    <2> QED BY <2>1, <2>2
<1>1. /\ entry \in Entry /\ Sound(entry) /\ entry.state = "applied" /\ entry.byp \in SUBSET Uplinks
      /\ entry.byp \subseteq disk.byp \cup unsaved
      /\ byp \in Uplinks \cup {"absent", "foreign"}
      /\ byp \in Uplinks => byp \in entry.byp \cup unsaved /\ byp \in disk.byp \cup unsaved
      /\ job \in Jobs /\ uplink \in Uplinks
    BY <1>0, InRestore DEF XrayInv, Shapes
<1>2. /\ Sound(e) /\ e.state = "applied" /\ e.idx = entry.idx /\ e.policy = entry.policy
      /\ e.byp = b
    <2>1. b \in SUBSET Uplinks
        BY <1>1
    <2> HIDE DEF b
    <2> QED BY <1>0, <2>1, BypassEntry
<1>3. /\ Sound(entry') /\ entry'.state = "applied" /\ entry'.idx = entry.idx
      /\ entry'.policy = entry.policy /\ entry'.byp = b
      /\ disk' \in {disk, entry'} /\ (~Was /\ ok => disk' = entry') /\ (Was => disk' = disk)
    <2>1. CASE Was
        BY <1>0, <1>1, <2>1 DEF Was, journals
    <2>2. CASE ~Was
        <3>1. entry' = e
            BY <1>0, <1>1, <2>2 DEF Entry
        <3> HIDE DEF e
        <3> QED BY <1>0, <1>2, <2>2, <3>1
    <2> QED BY <2>1, <2>2
<1>4. /\ byp' = byp /\ job' \in Jobs /\ job'.why = job.why /\ pc' \in {"restore"} \cup Migrating
      /\ unsaved \subseteq unsaved'
    BY <1>0, <1>1, VisitedFacts DEF kernel, Migrating
<1>5. m \in Migs /\ m.old = u /\ m.new = uplink /\ m.here = (byp = u) /\ m.there = (byp = uplink)
    BY <1>1 DEF Migs, Was
<1> HIDE DEF m, e
<1>6. mig' \in Migs
    BY <1>0, <1>5 DEF XrayInv, Shapes
<1>7. Moves'
    <2>1. CASE ok
        <3>1. mig' = m /\ pc' = "migrate"
            BY <1>0, <2>1
        <3> QED BY <1>0, <1>1, <1>3, <1>4, <1>5, <3>1 DEF Moves, Migrating
    <2>2. CASE ~ok
        BY <1>0, <2>2 DEF Moves, Migrating
    <2> QED BY <2>1, <2>2
<1>8. entry'.byp \subseteq disk'.byp \cup unsaved'
    <2>1. CASE ok
        BY <1>0, <1>1, <1>3, <1>4, <2>1 DEF Was
    <2>2. CASE ~ok
        BY <1>0, <1>1, <1>3, <1>4, <2>2
    <2> QED BY <2>1, <2>2
<1>9. byp' \in Uplinks => byp' \in entry'.byp \cup unsaved' /\ byp' \in disk'.byp \cup unsaved'
    BY <1>1, <1>3, <1>4
<1>10. UNCHANGED <<link, net, uplink, child, sup, torn, orphaned>>
    BY <1>0 DEF kernel
<1> QED BY <1>0, <1>1, <1>3, <1>4, <1>6, <1>7, <1>8, <1>9, <1>10, RestQuiet, RestoreGoesOn

\* A step of a migration that touches only the kernel.
LEMMA MigrationCalls ==
    ASSUME XrayInv, pc \in Migrating, pc' \in Migrating, UNCHANGED <<job, mig>>,
           UNCHANGED <<journals, link, net, uplink, child, sup, history>>,
           byp' \in {byp, mig.new, mig.old, "absent"}, Moves'
    PROVE  XrayInv'
<1>1. UNCHANGED <<entry, disk, unsaved, torn, orphaned>>
    BY DEF journals, history
<1>2. pc # "restore"
    BY DEF Migrating
<1>3. /\ entry.state = "applied" /\ Sound(entry) /\ job \in Jobs
      /\ entry.byp \subseteq disk.byp \cup unsaved
      /\ byp' \in Uplinks \cup {"absent", "foreign"}
      /\ byp' \in Uplinks => byp' \in (entry.byp \cup unsaved) /\ byp' \in (disk.byp \cup unsaved)
    BY <1>2, InRestore, XrayAssumption
<1> QED BY <1>1, <1>3, RestQuiet, RestoreGoesOn

\* The exclusive add.
LEMMA KeepsMigrateAdd ==
    ASSUME XrayInv, MigrateAdd
    PROVE  XrayInv'
<1>0. /\ pc = "migrate" /\ pc' \in {"dropOld", "replace"}
      /\ UNCHANGED <<journals, link, net, uplink, child, sup, job, mig, history>>
      /\ \/ pc' = "dropOld" /\ byp' \in {byp, mig.new}
         \/ /\ pc' = "replace" /\ ~mig.there /\ mig.here
            /\ byp' = IF byp = mig.old THEN "absent" ELSE byp
    BY DEF MigrateAdd
<1>1. /\ mig.old \in entry.byp /\ mig.new \in entry.byp
      /\ mig.old \in Uplinks /\ mig.new \in Uplinks /\ mig.old # mig.new
      /\ ~mig.there => byp \in {"absent", "foreign", mig.old}
    BY <1>0 DEF XrayInv, Moves, Migrating
<1>2. Moves'
    BY <1>0, <1>1 DEF Moves, Migrating, journals
<1> QED BY <1>0, <1>2, MigrationCalls DEF Migrating

\* The add after the old route was deleted.
LEMMA KeepsMigrateReplace ==
    ASSUME XrayInv, MigrateReplace
    PROVE  XrayInv'
<1>0. /\ pc = "replace" /\ pc' = "forget" /\ byp' = mig.new
      /\ UNCHANGED <<journals, link, net, uplink, child, sup, job, mig, history>>
    BY DEF MigrateReplace
<1>1. Moves'
    BY <1>0 DEF XrayInv, Moves, Migrating, journals
<1> QED BY <1>0, <1>1, MigrationCalls DEF Migrating

\* The old route is deleted.
LEMMA KeepsMigrateDropOld ==
    ASSUME XrayInv, MigrateDropOld
    PROVE  XrayInv'
<1>0. /\ pc = "dropOld" /\ pc' = "forget"
      /\ byp' = IF byp = mig.old THEN "absent" ELSE byp
      /\ UNCHANGED <<journals, link, net, uplink, child, sup, job, mig, history>>
    BY DEF MigrateDropOld
<1>1. Moves'
    BY <1>0, XrayAssumption DEF XrayInv, Moves, Migrating, journals
<1> QED BY <1>0, <1>1, MigrationCalls DEF Migrating

\* A migration that ends goes back to the restoration.
LEMMA MigrationOver ==
    ASSUME XrayInv, pc \in Migrating, MigrationEnds,
           UNCHANGED <<link, net, uplink, child, sup, history>>,
           Sound(entry'), entry'.state = "applied", entry'.idx = entry.idx,
           entry'.policy = entry.policy, disk' \in {disk, entry'},
           entry'.byp \subseteq entry.byp,
           byp' \in Uplinks \cup {"absent", "foreign"},
           byp' \in Uplinks => byp' \in (entry'.byp \cup unsaved)
    PROVE  XrayInv'
<1>0. /\ pc' = "restore" /\ mig' = NoMig /\ Visited(mig.old) /\ UNCHANGED <<torn, unsaved, orphaned>>
    BY DEF MigrationEnds, history
<1>1. job' \in Jobs /\ job'.why = job.why /\ mig' \in Migs
    BY <1>0, VisitedFacts, JobTypes
<1>2. Moves'
    BY <1>0 DEF Moves, Migrating
<1>3. /\ entry'.byp \subseteq disk'.byp \cup unsaved'
      /\ byp' \in Uplinks => byp' \in entry'.byp \cup unsaved' /\ byp' \in disk'.byp \cup unsaved'
    BY <1>0, InRestore
<1> QED BY <1>0, <1>1, <1>2, <1>3, RestQuiet, RestoreGoesOn

\* The key is taken.
LEMMA KeepsMigrateConflict ==
    ASSUME XrayInv, NEW ok \in BOOLEAN, MigrateConflict(ok)
    PROVE  XrayInv'
<1> DEFINE b == entry.byp \ {mig.new}
<1>0. /\ pc = "replace" \/ (pc = "migrate" /\ ~mig.there /\ ~mig.here)
      /\ MigrationEnds /\ UNCHANGED <<kernel, uplink, child, sup, history>>
      /\ \/ UNCHANGED journals
         \/ entry' = [entry EXCEPT !.byp = @ \ {mig.new}] /\ disk' \in {disk, entry'}
    BY DEF MigrateConflict, Save
<1>1. byp \in {"absent", "foreign"} /\ byp \notin Uplinks
    BY <1>0, XrayAssumption DEF XrayInv, Moves
<1>2. entry \in Entry /\ Sound(entry) /\ entry.state = "applied" /\ b \in SUBSET Uplinks /\ pc \in Migrating
    BY <1>0, InRestore DEF Migrating
<1>3. /\ Sound(entry') /\ entry'.state = "applied" /\ entry'.idx = entry.idx
      /\ entry'.policy = entry.policy /\ disk' \in {disk, entry'}
      /\ entry'.byp \subseteq entry.byp
    <2>1. CASE UNCHANGED journals
        BY <1>2, <2>1 DEF journals
    <2>2. CASE entry' = [entry EXCEPT !.byp = @ \ {mig.new}] /\ disk' \in {disk, entry'}
        <3>1. entry' = [entry EXCEPT !.byp = b]
            BY <1>2, <2>2 DEF Entry
        <3>2. b \subseteq entry.byp
            OBVIOUS
        <3> HIDE DEF b
        <3> QED BY <1>2, <2>2, <3>1, <3>2, BypassEntry
    <2> QED BY <1>0, <2>1, <2>2
<1>4. UNCHANGED <<link, net, uplink, child, sup, history>> /\ byp' = byp
    BY <1>0 DEF kernel
<1> QED BY <1>0, <1>1, <1>2, <1>3, <1>4, MigrationOver

\* The add or a delete fails.
LEMMA KeepsMigrateFails ==
    ASSUME XrayInv, MigrateFails
    PROVE  XrayInv'
<1>0. /\ pc \in {"migrate", "replace", "dropOld"}
      /\ byp' \in {byp, mig.new, mig.old}
      /\ MigrationEnds
      /\ UNCHANGED <<journals, link, net, uplink, child, sup, history>>
    BY DEF MigrateFails
<1>1. UNCHANGED <<entry, disk>> /\ pc \in Migrating
    BY <1>0 DEF journals, Migrating
<1>2. byp' \in Uplinks \cup {"absent", "foreign"} /\ (byp' \in Uplinks => byp' \in (entry'.byp \cup unsaved))
    BY <1>0, <1>1, InRestore
<1>3. Sound(entry) /\ entry.state = "applied"
    BY <1>1, InRestore
<1> QED BY <1>0, <1>1, <1>2, <1>3, MigrationOver

\* The old claim is dropped.
LEMMA KeepsMigrateForget ==
    ASSUME XrayInv, NEW ok \in BOOLEAN, MigrateForget(ok)
    PROVE  XrayInv'
<1> DEFINE b == entry.byp \ {mig.old}
<1>0. /\ pc = "forget" /\ MigrationEnds /\ UNCHANGED <<kernel, uplink, child, sup, history>>
      /\ entry' = [entry EXCEPT !.byp = @ \ {mig.old}] /\ disk' \in {disk, entry'}
    BY DEF MigrateForget, Save
<1>1. byp # mig.old
    BY <1>0 DEF XrayInv, Moves
<1>2. /\ entry \in Entry /\ b \in SUBSET Uplinks /\ pc \in Migrating
      /\ byp \in Uplinks \cup {"absent", "foreign"}
      /\ byp \in Uplinks => byp \in (entry.byp \cup unsaved)
    BY <1>0, InRestore DEF Migrating
<1>3. entry' = [entry EXCEPT !.byp = b] /\ b \subseteq entry.byp
    BY <1>0, <1>2 DEF Entry
<1>4. /\ Sound(entry') /\ entry'.state = "applied" /\ entry'.idx = entry.idx
      /\ entry'.policy = entry.policy /\ entry'.byp = b
    <2> HIDE DEF b
    <2> QED BY <1>2, <1>3, BypassEntry
<1>5. UNCHANGED <<link, net, uplink, child, sup, history>> /\ byp' = byp
    BY <1>0 DEF kernel
<1>6. byp' \in Uplinks => byp' \in (entry'.byp \cup unsaved)
    BY <1>1, <1>2, <1>4, <1>5
<1> QED BY <1>0, <1>2, <1>3, <1>4, <1>5, <1>6, MigrationOver

\* A disconnect.
LEMMA KeepsDisconnect ==
    ASSUME XrayInv, Disconnect
    PROVE  XrayInv'
<1>0. /\ pc = "idle" /\ entry # NoEntry /\ pc' = "teardown"
      /\ job' = [Rest EXCEPT !.why = "request"]
      /\ UNCHANGED <<journals, kernel, uplink, child, sup, mig, history>>
    BY DEF Disconnect
<1>1. UNCHANGED <<entry, disk, link, net, byp, tracked, staged, running, failover, restarts,
                  torn, unsaved, orphaned>>
    BY <1>0 DEF journals, kernel, child, sup, history
<1>2. job' \in Jobs /\ job'.why = "request" /\ entry.state # "none"
    <2>1. job' \in Jobs
        BY <1>0, JobTypes DEF Whys
    <2> QED BY <1>0, <2>1 DEF XrayInv, Shapes, Sound, Rest
<1>3. Shapes'
    BY <1>0, <1>1, <1>2 DEF XrayInv, Shapes, Phases
<1>4. Coverage' /\ Left' /\ Moves' /\ Progress'
    BY <1>0, <1>1 DEF XrayInv, Coverage, Covers, Left, Moves, Progress, Removing, Migrating, Applying
<1>5. Stages' /\ Links' /\ Agreement'
    BY <1>0, <1>1, <1>2 DEF XrayInv, Stages, Links, Agreement, Removing, Migrating, Applying
<1> QED BY <1>3, <1>4, <1>5 DEF XrayInv

\* What is known during a teardown.
LEMMA InTeardown ==
    ASSUME XrayInv, pc \in {"teardown", "removing"}
    PROVE  /\ entry.state # "none" /\ Sound(entry) /\ entry \in Entry /\ job \in Jobs
           /\ entry.byp \subseteq Uplinks /\ entry.res \subseteq Resources
           /\ "process" \in entry.res
           /\ job.why # "reload"
           /\ Covers(entry) /\ Covers(disk)
           /\ link # 0 /\ ~orphaned => entry.idx = link
           /\ net \subseteq Objects \cup {"quic"}
           /\ byp \in Uplinks \cup {"absent", "foreign"}
           /\ pc = "removing" => torn = {} /\ failover = 0
<1>1. Sound(entry) /\ entry \in Entry /\ job \in Jobs /\ net \subseteq Objects \cup {"quic"}
      /\ byp \in Uplinks \cup {"absent", "foreign"}
    BY DEF XrayInv, Shapes, Sound
<1>2. /\ entry.state # "none" /\ job.why # "reload"
      /\ pc = "removing" => torn = {} /\ failover = 0
    BY DEF XrayInv, Stages, Removing
<1>3. Covers(entry) /\ Covers(disk) /\ (link # 0 /\ ~orphaned => entry.idx = link)
    BY DEF XrayInv, Coverage, Links
<1> QED BY <1>1, <1>2, <1>3 DEF Sound, Entry

\* A teardown begins.
LEMMA KeepsTeardownBegin ==
    ASSUME XrayInv, NEW ok \in BOOLEAN, TeardownBegin(ok)
    PROVE  XrayInv'
<1> DEFINE t == (entry.res \ {"process"}) \cup entry.byp
<1> DEFINE h == IF ok THEN {} ELSE {"quic"}
<1>0. /\ pc = "teardown" /\ failover' = 0 /\ torn' = {}
      /\ net' = IF ok THEN net \ {"quic"} ELSE net
      /\ job' = [job EXCEPT !.todo = t, !.held = h]
      /\ \/ pc' = "finish" /\ entry' = [entry EXCEPT !.state = "stale"]
         \/ pc' = "removing" /\ entry' = entry
      /\ UNCHANGED <<disk, link, byp, uplink, child, restarts, mig, unsaved, orphaned>>
    BY DEF TeardownBegin
<1>1. /\ entry.state # "none" /\ Sound(entry) /\ entry \in Entry /\ job \in Jobs
      /\ entry.byp \subseteq Uplinks /\ entry.res \subseteq Resources
      /\ job.why # "reload"
      /\ Covers(entry) /\ Covers(disk)
      /\ link # 0 /\ ~orphaned => entry.idx = link
      /\ net \subseteq Objects \cup {"quic"}
    BY <1>0, InTeardown
<1>2. /\ job' \in Jobs /\ job'.todo = t /\ job'.held = h /\ job'.why = job.why
    <2>1. t \in SUBSET (Objects \cup Uplinks) /\ h \in SUBSET (Objects \cup Uplinks \cup {"quic"})
        BY <1>1 DEF Resources, Objects
    <2> HIDE DEF t, h
    <2>2. job' = [job EXCEPT !.todo = t, !.held = h]
        BY <1>0
    <2>3. job' \in Jobs
        BY <1>1, <2>1, <2>2, JobTypes
    <2> QED BY <1>1, <2>1, <2>2, <2>3, JobEdits
<1>3. /\ Sound(entry') /\ entry'.res = entry.res /\ entry'.byp = entry.byp /\ entry'.idx = entry.idx
      /\ entry'.policy = entry.policy
      /\ entry'.state # "none"
      /\ pc' = "finish" => entry'.state = "stale"
    <2>1. CASE pc' = "removing" /\ entry' = entry
        BY <1>1, <2>1
    <2>2. CASE pc' = "finish" /\ entry' = [entry EXCEPT !.state = "stale"]
        <3>1. Sound(entry')
            BY <1>1, <2>2, SoundEntries
        <3> QED BY <1>1, <2>2, <3>1 DEF Entry
    <2> QED BY <1>0, <2>1, <2>2
<1>4. /\ UNCHANGED <<disk, link, byp, tracked, staged, running, unsaved, orphaned, uplink, restarts, mig>>
      /\ pc' \in {"finish", "removing"} /\ net' \subseteq net /\ net' \subseteq t \cup h
      /\ 0 \in Cfgs
    <2>1. net' \subseteq t \cup h
        BY <1>0, <1>1, XrayAssumption DEF Covers, Objects
    <2> QED BY <1>0, <2>1 DEF child, Cfgs
<1> HIDE DEF h
<1>5. Shapes'
    BY <1>0, <1>2, <1>3, <1>4 DEF XrayInv, Shapes, Phases
<1>6. Coverage' /\ Left'
    BY <1>0, <1>1, <1>2, <1>3, <1>4 DEF XrayInv, Coverage, Covers, Left, Removing
<1>7. Moves' /\ Progress' /\ Stages'
    BY <1>0, <1>1, <1>2, <1>3, <1>4 DEF Moves, Progress, Stages, Removing, Migrating, Applying
<1>8. Links' /\ Agreement'
    BY <1>0, <1>1, <1>2, <1>3, <1>4 DEF Links, Agreement, Removing, Migrating, Applying
<1> QED BY <1>5, <1>6, <1>7, <1>8 DEF XrayInv

\* One object is removed, or could not be.
LEMMA KeepsRemoveItem ==
    ASSUME XrayInv, NEW r \in Resources \cup Uplinks, NEW ok \in BOOLEAN, RemoveItem(r, ok)
    PROVE  XrayInv'
<1> DEFINE t == job.todo \ {r}
<1> DEFINE h == job.held \cup {r}
<1>0. /\ pc = "removing" /\ r \in job.todo
      /\ \/ /\ net' = net \ {r} /\ byp' = (IF byp = r THEN "absent" ELSE byp)
            /\ job' = [job EXCEPT !.todo = @ \ {r}]
         \/ /\ job' = [job EXCEPT !.todo = @ \ {r}, !.held = @ \cup {r}]
            /\ net' = net /\ byp' = byp
      /\ UNCHANGED <<journals, link, uplink, child, sup, pc, mig, history>>
    BY DEF RemoveItem, Visited
<1>1. /\ job \in Jobs /\ job.todo \subseteq Objects \cup Uplinks
      /\ job.held \subseteq Objects \cup Uplinks \cup {"quic"}
    BY <1>0, InTeardown DEF Jobs
<1>2. t \in SUBSET (Objects \cup Uplinks) /\ h \in SUBSET (Objects \cup Uplinks \cup {"quic"})
    BY <1>0, <1>1
<1>3. /\ job' \in Jobs /\ job'.why = job.why /\ job'.todo = t
      /\ \/ net' = net \ {r} /\ byp' = (IF byp = r THEN "absent" ELSE byp) /\ job'.held = job.held
         \/ net' = net /\ byp' = byp /\ job'.held = h
    <2>1. CASE /\ net' = net \ {r} /\ byp' = (IF byp = r THEN "absent" ELSE byp)
               /\ job' = [job EXCEPT !.todo = @ \ {r}]
        <3>1. job' = [job EXCEPT !.todo = t]
            BY <1>1, <2>1 DEF Jobs
        <3> HIDE DEF t, h
        <3>2. job' \in Jobs
            BY <1>1, <1>2, <3>1, JobTypes
        <3>3. job'.why = job.why /\ job'.todo = t /\ job'.held = job.held
            BY <1>1, <1>2, <3>1, JobEdits
        <3> QED BY <2>1, <3>2, <3>3
    <2>2. CASE /\ job' = [job EXCEPT !.todo = @ \ {r}, !.held = @ \cup {r}]
               /\ net' = net /\ byp' = byp
        <3>1. job' = [job EXCEPT !.todo = t, !.held = h]
            BY <1>1, <2>2 DEF Jobs
        <3> HIDE DEF t, h
        <3>2. job' \in Jobs
            BY <1>1, <1>2, <3>1, JobTypes
        <3>3. job'.why = job.why /\ job'.todo = t /\ job'.held = h
            BY <1>1, <1>2, <3>1, JobEdits
        <3> QED BY <2>2, <3>2, <3>3
    <2> QED BY <1>0, <2>1, <2>2
<1>4. /\ UNCHANGED <<entry, disk, link, tracked, staged, running, failover, restarts, torn,
                     unsaved, orphaned, uplink, pc, mig>>
      /\ net' \subseteq net /\ byp' \in {byp, "absent"}
    BY <1>0 DEF journals, child, sup, history
<1>5. Shapes'
    BY <1>3, <1>4 DEF XrayInv, Shapes
<1>6. Coverage'
    BY <1>0, <1>4, XrayAssumption DEF XrayInv, Coverage, Covers, Removing
<1>7. Left'
    BY <1>0, <1>3, <1>4, XrayAssumption DEF XrayInv, Left
<1>8. Moves' /\ Progress' /\ Stages'
    BY <1>0, <1>3, <1>4 DEF XrayInv, Moves, Progress, Stages, Removing, Migrating, Applying
<1>9. Links' /\ Agreement'
    BY <1>0, <1>3, <1>4 DEF XrayInv, Links, Agreement, Removing, Migrating, Applying
<1> QED BY <1>5, <1>6, <1>7, <1>8, <1>9 DEF XrayInv

\* What a teardown leaves.
LEMMA Leftovers ==
    ASSUME XrayInv, pc = "removing"
    PROVE  /\ Sound(Leftover(job.held)) /\ Leftover(job.held).state = "stale"
           /\ Leftover(job.held).idx = entry.idx
           /\ Leftover(job.held).res = {"process"} \cup (job.held \cap Resources)
           /\ Leftover(job.held).byp = job.held \cap Uplinks
<1> DEFINE b == job.held \cap Uplinks
<1> DEFINE r == {"process"} \cup (job.held \cap Resources)
<1>1. entry.state # "none" /\ Sound(entry) /\ entry \in Entry
    BY InTeardown
<1>2. b \in SUBSET Uplinks /\ r \in SUBSET Resources /\ "process" \in r
    BY DEF Resources
<1>3. Leftover(job.held) = [entry EXCEPT !.state = "stale", !.byp = b, !.res = r]
    BY DEF Leftover
<1> HIDE DEF b, r
<1>4. Sound([entry EXCEPT !.state = "stale", !.byp = b, !.res = r])
    BY <1>1, <1>2, SoundEntries
<1>5. Leftover(job.held).res = r /\ Leftover(job.held).byp = b
      /\ Leftover(job.held).state = "stale" /\ Leftover(job.held).idx = entry.idx
    BY <1>1, <1>3 DEF Entry
<1> QED BY <1>3, <1>4, <1>5 DEF b, r

\* The end of a teardown, once every object was visited: what is left in the
\* network is what the entry still lists.
LEMMA TeardownEnds ==
    ASSUME XrayInv, pc = "removing", job.todo = {}, pc' = "finish",
           \/ UNCHANGED <<link, net, tracked, running>>
           \/ link' = 0 /\ net' = LinkGone /\ tracked' = FALSE /\ running' = 0,
           \/ entry' = Leftover(job.held)
           \/ job.held = {} /\ entry' = NoEntry /\ link' = 0 /\ tracked' = FALSE,
           staged' \in {staged, 0},
           UNCHANGED <<disk, byp, uplink, sup, job, mig, history>>
    PROVE  XrayInv'
<1>0. /\ UNCHANGED <<failover, restarts, torn, unsaved, orphaned>>
      /\ net' \subseteq net /\ (link' # 0 => link' = link)
      /\ 0 \in Cfgs /\ 0 \in Indexes
    BY DEF sup, history, LinkGone, Cfgs, Indexes
<1>1. /\ job \in Jobs /\ job.why # "reload" /\ torn = {} /\ failover = 0
      /\ Covers(disk)
      /\ link # 0 /\ ~orphaned => entry.idx = link
      /\ net \subseteq Objects \cup {"quic"}
      /\ byp \in Uplinks \cup {"absent", "foreign"}
    BY InTeardown
<1>2. /\ net \subseteq job.held
      /\ byp \in Uplinks => byp \in job.held \cup unsaved
    BY DEF XrayInv, Left
<1>3. /\ Sound(entry') /\ entry'.state \in {"none", "stale"}
      /\ entry'.state = "none" => entry' = NoEntry /\ link' = 0 /\ net' = {} /\ ~tracked'
      /\ entry'.state = "stale" => "process" \in entry'.res /\ entry'.idx = entry.idx
      /\ net' \ {"quic"} \subseteq entry'.res
      /\ byp \in Uplinks => byp \in entry'.byp \cup unsaved
    <2>1. CASE entry' = Leftover(job.held)
        BY <1>0, <1>1, <1>2, <2>1, Leftovers DEF Resources, Objects
    <2>2. CASE job.held = {} /\ entry' = NoEntry /\ link' = 0 /\ tracked' = FALSE
        BY <1>0, <1>1, <1>2, <2>2, SoundEntries DEF XrayInv, Shapes, NoEntry
    <2> QED BY <2>1, <2>2
<1>4. tracked' \in BOOLEAN
    <2>1. CASE tracked' = tracked
        BY <2>1 DEF XrayInv, Shapes
    <2>2. CASE tracked' = FALSE
        BY <2>2, Zenon
    <2> QED BY <2>1, <2>2
<1>5. Shapes'
    BY <1>0, <1>1, <1>3, <1>4 DEF XrayInv, Shapes, Phases
<1>6. Coverage' /\ Left'
    BY <1>0, <1>1, <1>3 DEF XrayInv, Coverage, Covers, Left, Removing, LinkGone
<1>7. Stages' /\ Moves' /\ Progress'
    BY <1>0, <1>1, <1>3 DEF Stages, Moves, Progress, Removing, Migrating, Applying
<1>8. Links' /\ Agreement'
    BY <1>0, <1>1, <1>3 DEF Links, Agreement, Removing, Migrating, Applying
<1> QED BY <1>5, <1>6, <1>7, <1>8 DEF XrayInv

\* The child is stopped.
LEMMA KeepsStopProcess ==
    ASSUME XrayInv, StopProcess
    PROVE  XrayInv'
<1>0. /\ pc = "removing" /\ job.todo = {} /\ pc' = "finish"
      /\ link' = 0 /\ net' = LinkGone /\ tracked' = FALSE /\ running' = 0 /\ staged' = 0
      /\ entry' = AfterStop(job.held)
      /\ UNCHANGED <<disk, byp, uplink, sup, job, mig, history>>
    BY DEF StopProcess
<1>1. \/ entry' = Leftover(job.held)
      \/ job.held = {} /\ entry' = NoEntry
    BY <1>0 DEF AfterStop
<1> QED BY <1>0, <1>1, TeardownEnds

\* The child did not stop.
LEMMA KeepsStopProcessFails ==
    ASSUME XrayInv, StopProcessFails
    PROVE  XrayInv'
<1>0. /\ pc = "removing" /\ job.todo = {} /\ pc' = "finish"
      /\ \/ UNCHANGED <<link, net, tracked, running>>
         \/ link' = 0 /\ net' = LinkGone /\ tracked' = FALSE /\ running' = 0
      /\ entry' = Leftover(job.held) /\ staged' = staged
      /\ UNCHANGED <<disk, byp, uplink, sup, job, mig, history>>
    BY DEF StopProcessFails
<1> QED BY <1>0, TeardownEnds

\* The outcome of a teardown is saved.
LEMMA KeepsFinish ==
    ASSUME XrayInv, NEW ok \in BOOLEAN, Finish(ok)
    PROVE  XrayInv'
<1>0. /\ pc = "finish" /\ disk' \in {disk, entry}
      /\ restarts' \in {0, restarts}
      /\ pc' = "idle" /\ job' = Rest /\ mig' = NoMig
      /\ UNCHANGED <<entry, kernel, uplink, child, failover, history>>
    BY DEF Finish, Save, Idle
<1>1. /\ UNCHANGED <<link, net, byp, tracked, staged, running, torn, unsaved, orphaned>>
      /\ 0 \in 0..MaxRespawns
    BY <1>0, XrayAssumption DEF kernel, child, history
<1>2. entry.state \in {"none", "stale"}
    BY <1>0 DEF XrayInv, Stages
<1>3. Shapes'
    BY <1>0, <1>1, JobTypes DEF XrayInv, Shapes, Phases
<1>4. Coverage' /\ Left'
    BY <1>0, <1>1, <1>2 DEF XrayInv, Coverage, Covers, Left, Removing
<1>5. Stages' /\ Moves' /\ Progress'
    BY <1>0, <1>1, <1>2 DEF XrayInv, Stages, Moves, Progress, Removing, Migrating, Applying
<1>6. Links' /\ Agreement'
    BY <1>0, <1>1, <1>2 DEF XrayInv, Links, Agreement, Removing, Migrating, Applying
<1> QED BY <1>3, <1>4, <1>5, <1>6 DEF XrayInv

\* DNS is applied again.
LEMMA KeepsReapplyDns ==
    ASSUME XrayInv, NEW ok \in BOOLEAN, ReapplyDns(ok)
    PROVE  XrayInv'
<1>0. /\ pc = "idle" /\ entry.state = "applied" /\ link # 0
      /\ net' \in {net, net \cup {"dns"}, net \ {"dns"}}
      /\ disk' \in {disk, entry}
      /\ UNCHANGED <<entry, link, byp, uplink, child, sup, core, history>>
    BY DEF ReapplyDns
<1>1. /\ UNCHANGED <<tracked, staged, running, failover, restarts, pc, job, mig, torn, unsaved, orphaned>>
      /\ net' \subseteq net \cup {"dns"} /\ ("address" \in net => "address" \in net')
      /\ ("quic" \in net' => "quic" \in net)
    BY <1>0 DEF child, sup, core, history
<1>2. Shapes'
    BY <1>0, <1>1 DEF XrayInv, Shapes, Objects
<1>3. "dns" \in entry.res /\ entry.res \subseteq disk.res /\ entry.byp \subseteq disk.byp \cup unsaved
    BY <1>0, InUse DEF Resources
<1>4. Coverage' /\ Left'
    BY <1>0, <1>1, <1>3 DEF XrayInv, Coverage, Covers, Left, Removing
<1>5. Stages' /\ Moves' /\ Progress'
    BY <1>0, <1>1 DEF XrayInv, Stages, Moves, Progress, Removing, Migrating, Applying
<1>6. Links' /\ Agreement'
    BY <1>0, <1>1 DEF XrayInv, Links, Agreement, Removing, Migrating, Applying
<1> QED BY <1>2, <1>4, <1>5, <1>6 DEF XrayInv

\* The daemon dies.
LEMMA KeepsCrash ==
    ASSUME XrayInv, Crash
    PROVE  XrayInv'
<1>0. /\ pc' = "down" /\ job' = Rest /\ mig' = NoMig /\ entry' = NoEntry /\ tracked' = FALSE
      /\ failover' = 0 /\ restarts' = 0 /\ torn' = {}
      /\ orphaned' = (orphaned \/ (link # 0 /\ disk.idx # link))
      /\ UNCHANGED <<disk, kernel, uplink, staged, running, unsaved>>
    BY DEF Crash
<1>1. UNCHANGED <<link, net, byp>> /\ 0 \in Cfgs /\ 0 \in 0..MaxRespawns
    BY <1>0, XrayAssumption DEF kernel, Cfgs
<1>2. tracked' \in BOOLEAN
    BY <1>0, Zenon
<1>3. Sound(NoEntry)
    BY SoundEntries DEF XrayInv, Shapes
<1>4. Shapes'
    BY <1>0, <1>1, <1>2, <1>3, JobTypes DEF XrayInv, Shapes, Phases
<1>5. Coverage' /\ Left'
    BY <1>0, <1>1 DEF XrayInv, Coverage, Covers, Left, Removing
<1>6. Stages' /\ Moves' /\ Progress'
    BY <1>0, <1>1 DEF Stages, Moves, Progress, Removing, Migrating, Applying, NoEntry
<1>7. Links' /\ Agreement'
    BY <1>0, <1>1 DEF Links, Agreement, Removing, Migrating, Applying
<1> QED BY <1>4, <1>5, <1>6, <1>7 DEF XrayInv

\* The daemon starts again.
LEMMA KeepsRestart ==
    ASSUME XrayInv, Restart
    PROVE  XrayInv'
<1>0. /\ pc = "down" /\ entry' = disk
      /\ \/ disk = NoEntry /\ pc' = "idle" /\ job' = job
         \/ disk # NoEntry /\ pc' = "teardown" /\ job' = [Rest EXCEPT !.why = "request"]
      /\ UNCHANGED <<disk, kernel, uplink, child, sup, mig, history>>
    BY DEF Restart
<1>1. UNCHANGED <<link, net, byp, tracked, staged, running, failover, restarts, torn, unsaved, orphaned>>
    BY <1>0 DEF kernel, child, sup, history
<1>2. ~tracked /\ torn = {} /\ failover = 0
    BY <1>0 DEF XrayInv, Stages
<1>3. /\ job' \in Jobs /\ (pc' = "teardown" => job'.why = "request")
    <2>1. CASE job' = job /\ pc' = "idle"
        BY <2>1 DEF XrayInv, Shapes
    <2>2. CASE job' = [Rest EXCEPT !.why = "request"]
        <3>1. job' \in Jobs
            BY <2>2, JobTypes DEF Whys
        <3> QED BY <2>2, <3>1 DEF Rest
    <2> QED BY <1>0, <2>1, <2>2
<1>4. /\ disk.state = "none" => disk = NoEntry
      /\ disk = NoEntry => disk.state = "none"
    BY DEF XrayInv, Shapes, Sound, NoEntry
<1>5. Shapes'
    BY <1>0, <1>1, <1>3 DEF XrayInv, Shapes, Phases
<1>6. Coverage' /\ Left'
    BY <1>0, <1>1, <1>4 DEF XrayInv, Coverage, Covers, Left, Removing
<1>7. Stages' /\ Moves' /\ Progress'
    BY <1>0, <1>1, <1>2, <1>3, <1>4 DEF Stages, Moves, Progress, Removing, Migrating, Applying
<1>8. Links' /\ Agreement'
    BY <1>0, <1>1, <1>4 DEF XrayInv, Links, Agreement, Removing, Migrating, Applying
<1> QED BY <1>5, <1>6, <1>7, <1>8 DEF XrayInv

\* The child dies.
LEMMA KeepsChildDies ==
    ASSUME XrayInv, ChildDies
    PROVE  XrayInv'
<1>0. /\ link' = 0 /\ net' = LinkGone /\ running' = 0 /\ orphaned' = FALSE
      /\ UNCHANGED <<journals, byp, uplink, tracked, staged, sup, core, torn, unsaved>>
    BY DEF ChildDies
<1>1. /\ UNCHANGED <<entry, disk, failover, restarts, pc, job, mig>>
      /\ net' \subseteq net /\ net' \cap OnLink = {} /\ 0 \in Cfgs /\ 0 \in Indexes
    BY <1>0 DEF journals, sup, core, LinkGone, Cfgs, Indexes
<1>2. Shapes'
    BY <1>0, <1>1 DEF XrayInv, Shapes
<1>3. Coverage' /\ Left'
    BY <1>0, <1>1 DEF XrayInv, Coverage, Covers, Left, Removing
<1>4. Stages'
    BY <1>0, <1>1 DEF XrayInv, Stages
<1>5. Moves' /\ Progress'
    BY <1>0, <1>1 DEF XrayInv, Moves, Progress
<1>6. Links' /\ Agreement'
    BY <1>0, <1>1 DEF XrayInv, Links, Agreement, Removing, Migrating, Applying
<1> QED BY <1>2, <1>3, <1>4, <1>5, <1>6 DEF XrayInv

\* The uplink changes.
LEMMA KeepsUplinkChanges ==
    ASSUME XrayInv, UplinkChanges
    PROVE  XrayInv'
<1>0. UNCHANGED <<entry, disk, link, net, byp, tracked, staged, running, failover, restarts,
                  pc, job, mig, torn, unsaved, orphaned>>
      /\ uplink' \in Uplinks \cup {"none"}
    BY DEF UplinkChanges, journals, kernel, child, sup, core, history
<1>1. Shapes' /\ Coverage' /\ Left'
    BY <1>0 DEF XrayInv, Shapes, Coverage, Covers, Left
<1>2. Stages' /\ Progress' /\ Moves'
    BY <1>0 DEF XrayInv, Stages, Progress, Moves
<1>3. Links' /\ Agreement'
    BY <1>0 DEF XrayInv, Links, Agreement
<1> QED BY <1>1, <1>2, <1>3 DEF XrayInv

\* Others edit the routing table.
LEMMA KeepsOutsider ==
    ASSUME XrayInv, Outsider
    PROVE  XrayInv'
<1>0. /\ UNCHANGED <<entry, disk, link, tracked, staged, running, failover, restarts, uplink,
                     pc, job, mig, torn, unsaved, orphaned>>
      /\ byp' = byp \/ byp' \in {"absent", "foreign"}
      /\ net' \subseteq net /\ ("address" \in net => "address" \in net')
    BY DEF Outsider, journals, child, sup, core, history
<1>1. "absent" \notin Uplinks /\ "foreign" \notin Uplinks
    BY XrayAssumption
<1>2. Shapes'
    BY <1>0 DEF XrayInv, Shapes
<1>3. Coverage' /\ Left'
    BY <1>0, <1>1 DEF XrayInv, Coverage, Covers, Left
<1>4. Stages' /\ Progress'
    BY <1>0, <1>1 DEF XrayInv, Stages, Progress
<1>5. Moves'
    BY <1>0, <1>1 DEF XrayInv, Moves, Migrating
<1>6. Links' /\ Agreement'
    BY <1>0 DEF XrayInv, Links, Agreement
<1> QED BY <1>2, <1>3, <1>4, <1>5, <1>6 DEF XrayInv

\* The invariant says nothing of what the watchdog has seen.
LEMMA KeepsSame ==
    ASSUME XrayInv,
           UNCHANGED <<entry, disk, link, net, byp, uplink, tracked, staged, running, failover,
                       restarts, pc, job, mig, torn, unsaved, orphaned>>
    PROVE  XrayInv'
<1>1. Shapes' /\ Coverage' /\ Left'
    BY DEF XrayInv, Shapes, Coverage, Covers, Left
<1>2. Stages' /\ Progress' /\ Moves'
    BY DEF XrayInv, Stages, Progress, Moves
<1>3. Links' /\ Agreement'
    BY DEF XrayInv, Links, Agreement
<1> QED BY <1>1, <1>2, <1>3 DEF XrayInv

\* A watchdog is made, or looks.
LEMMA KeepsWatching ==
    ASSUME XrayInv, NEW ok \in BOOLEAN, WatchDead \/ Sample(ok)
    PROVE  XrayInv'
<1>1. UNCHANGED <<entry, disk, link, net, byp, uplink, tracked, staged, running, failover,
                  restarts, pc, job, mig, torn, unsaved, orphaned>>
    BY DEF WatchDead, Sample, journals, kernel, child, core, history
<1> QED BY <1>1, KeepsSame

\* Every step preserves the invariant.
LEMMA XrayStep == XrayInv /\ [Next]_vars => XrayInv'
<1> SUFFICES ASSUME XrayInv, [Next]_vars PROVE XrayInv'
    OBVIOUS
<1>1. ASSUME NEW ok \in BOOLEAN, Apply(ok) PROVE XrayInv'
    BY <1>1, KeepsSpawn, KeepsTakeIndex, KeepsJournalStep, KeepsKernelStep, KeepsCommit,
       KeepsRespawn, KeepsReloadDone DEF Apply
<1>2. ASSUME NEW ok \in BOOLEAN, Restore(ok) PROVE XrayInv'
    BY <1>2, KeepsRestoreTun, KeepsRestoreRule, KeepsRestoreBypass, KeepsMigrateDeferred,
       KeepsMigrate, KeepsMigrateConflict, KeepsMigrateForget DEF Restore
<1>3. ASSUME NEW ok \in BOOLEAN, Teardown(ok) PROVE XrayInv'
    BY <1>3, KeepsTeardownBegin, KeepsFinish, KeepsRemoveItem DEF Teardown
<1>4. CASE CoreStep
    BY <1>1, <1>2, <1>3, <1>4, KeepsNoIndex, KeepsSkipBypass, KeepsNoResolved, KeepsHealDone,
       KeepsMigrateAdd, KeepsMigrateReplace, KeepsMigrateDropOld, KeepsStopProcess,
       KeepsKernelConflict, KeepsMigrateFails, KeepsStopProcessFails DEF CoreStep
<1>5. CASE Resolve
    BY <1>5, KeepsHealDead, KeepsWatching DEF Resolve
<1>6. CASE Entering
    BY <1>6, KeepsConnect, KeepsReload, KeepsPassAlive, KeepsReapplyDns, KeepsHealStalled,
       KeepsDisconnect, KeepsRestart DEF Entering
<1>7. CASE World
    BY <1>7, KeepsCrash, KeepsChildDies, KeepsUplinkChanges, KeepsOutsider, KeepsWatching DEF World
<1>8. CASE UNCHANGED vars
    <2>0. UNCHANGED <<entry, disk, link, net, byp, uplink, tracked, staged, running, failover,
                      restarts, pc, job, mig, torn, unsaved, orphaned>>
        BY <1>8 DEF vars, journals, kernel, child, sup, core, history
    <2> QED BY <2>0, KeepsSame
<1>9. CASE Look
    BY <1>9, KeepsWatching DEF Look
<1> QED BY <1>4, <1>5, <1>6, <1>7, <1>8, <1>9 DEF Next

\* What a watchdog can have seen.
Seen == watchdog \in {"absent", "blind", "online"}

\* The steps that make, drop or ask a watchdog, and the others.
LEMMA SeenStep == Seen /\ [Next]_vars => Seen'
<1> SUFFICES ASSUME Seen, [Next]_vars PROVE Seen'
    OBVIOUS
<1> USE DEF Seen
<1>1. ASSUME NEW ok \in BOOLEAN, Apply(ok) PROVE Seen'
    BY <1>1 DEF Apply, Spawn, TakeIndex, JournalStep, KernelStep, Commit, Respawn, ReloadDone, Watched, sup
<1>2. ASSUME NEW ok \in BOOLEAN, Restore(ok) PROVE Seen'
    BY <1>2 DEF Restore, RestoreTun, RestoreRule, RestoreBypass, MigrateDeferred, Migrate,
                MigrateConflict, MigrateForget, sup
<1>3. ASSUME NEW ok \in BOOLEAN, Teardown(ok) PROVE Seen'
    BY <1>3 DEF Teardown, TeardownBegin, Finish, RemoveItem, sup
<1>4. CASE CoreStep
    BY <1>1, <1>2, <1>3, <1>4
       DEF CoreStep, NoIndex, SkipBypass, NoResolved, HealDone, MigrateAdd, MigrateReplace,
           MigrateDropOld, StopProcess, KernelConflict, MigrateFails, StopProcessFails, Watched, sup
<1>5. CASE Resolve \/ Look
    BY <1>5 DEF Resolve, Look, HealDead, WatchDead, Sample, Watched, sup
<1>6. CASE Entering
    BY <1>6 DEF Entering, Connect, Reload, PassAlive, ReapplyDns, HealStalled, Disconnect, Restart,
                Watched, sup
<1>7. CASE World
    BY <1>7 DEF World, Crash, ChildDies, UplinkChanges, Outsider, Sample, sup
<1>8. CASE UNCHANGED vars
    BY <1>8 DEF vars, sup
<1> QED BY <1>4, <1>5, <1>6, <1>7, <1>8 DEF Next

-----------------------------------------------------------------------------
(* The theorems.                                                           *)

\* The invariant holds throughout, whatever fails and in whatever order.
THEOREM XrayInvariant == Spec => []XrayInv
<1> QED BY InitXray, XrayStep, PTL DEF Spec

\* RecordsCover: what an Xray tunnel has in the network is on disk, memory knows
\* its own link, and a tunnel that was forgotten has left nothing behind.
THEOREM XrayRecordsCover == Spec => []RecordsCover
<1>1. XrayInv /\ Seen => RecordsCover
    <2> SUFFICES ASSUME XrayInv, Seen PROVE RecordsCover
        OBVIOUS
    <2>1. /\ entry \in Entry /\ disk \in Entry /\ job \in Jobs
          /\ entry.state = "none" => entry = NoEntry
          /\ entry.state # "none" => "process" \in entry.res
          /\ entry.state = "applied" => entry.idx # 0 /\ entry.res = Resources
        BY DEF XrayInv, Shapes, Sound
    <2>2. TypeOK
        <3>1. job.why \in Whys
            BY <2>1 DEF Jobs
        <3>2. net \subseteq Resources \cup {"quic"}
            BY DEF XrayInv, Shapes, Objects, Resources
        <3>3. pc = "down" => entry = NoEntry /\ ~tracked /\ failover = 0
            BY DEF XrayInv, Stages
        <3>4. entry.state = "none" => failover = 0
            BY DEF XrayInv, Stages
        <3> QED BY <2>1, <3>1, <3>2, <3>3, <3>4
                DEF XrayInv, Shapes, Coverage, TypeOK, Cfgs, Phases, Whys, Seen
    <2>3. ForgottenIsClean
        <3> SUFFICES ASSUME pc = "idle", entry = NoEntry
                     PROVE  link = 0 /\ net = {} /\ byp \notin Uplinks \ unsaved /\ ~tracked
            BY DEF ForgottenIsClean, AtRest
        <3>1. entry.state = "none" /\ entry.res = {} /\ entry.byp = {}
            BY DEF NoEntry
        <3>2. Covers(entry) /\ ~tracked
            BY <3>1 DEF XrayInv, Coverage, Stages
        <3>3. net \ {"quic"} = {} /\ link = 0 /\ "quic" \notin net /\ byp \notin Uplinks \ unsaved
            BY <3>1, <3>2 DEF Covers
        <3> QED BY <3>2, <3>3
    <2>4. DiskCovers /\ KnowsItsLink
        BY DEF XrayInv, Coverage, Covers, Links, DiskCovers, KnowsItsLink, AtRest
    <2> QED BY <2>2, <2>3, <2>4 DEF RecordsCover
<1>2. Init => Seen
    BY DEF Init, Seen
<1> QED BY <1>1, <1>2, SeenStep, XrayInvariant, PTL DEF Spec

\* RunningAgrees: a tunnel reported running has its address and runs the
\* configuration the journal describes, unless a reload failed half way.
THEOREM XrayRunningAgrees == Spec => []RunningAgrees
<1>1. XrayInv => RunningAgrees
    <2> SUFFICES ASSUME XrayInv PROVE RunningAgrees
        OBVIOUS
    <2>1. RunningIsWired
        BY InUse DEF RunningIsWired, AtRest, Running
    <2>2. ConfigAgrees
        BY InUse DEF ConfigAgrees, AtRest, Running
    <2> QED BY <2>1, <2>2 DEF RunningAgrees
<1> QED BY <1>1, XrayInvariant, PTL
=============================================================================
