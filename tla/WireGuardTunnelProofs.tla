------------------------ MODULE WireGuardTunnelProofs ------------------------
(***************************************************************************)
(* Proofs about the WireGuard tunnel, for any number of failures, crashes  *)
(* and outside edits: what the file, the journal and the network know of   *)
(* one another, what the daemon never deletes, and the ledger.             *)
(***************************************************************************)
EXTENDS WireGuardTunnel, TLAPS

Jobs == [name : Names, step : 0..8, todo : SUBSET (Objects \cup {"link"}),
         held : SUBSET (Objects \cup {"link"}), owned : BOOLEAN]

Installed == net \cup (IF rule = "ours" THEN {"rule"} ELSE {})

\* An entry, in memory or on disk: none at all, or one with at least its link,
\* and with the index of the link if there is more.
Sound(e) ==
    /\ e \in Entry
    /\ e.state = "none" => e = NoEntry
    /\ e.state # "none" => "link" \in e.res
    /\ e.res \cap Objects # {} => e.known

Shapes ==
    /\ Sound(entry) /\ Sound(disk)
    /\ links \in [Names -> Kinds]
    /\ net \subseteq OnLink
    /\ rule \in {"absent", "ours", "foreign"}
    /\ pc \in {"down", "idle", "create", "mark", "index", "step", "kernel", "flag",
               "teardown", "removing", "finish", "restore"}
    /\ job \in Jobs
    /\ lost \subseteq Names

Creating == pc \in {"create", "mark", "index"}
Stepping == pc \in {"step", "kernel", "flag"}

\* Which entry the thread works on, and how far the connect has come.
Progress ==
    /\ pc = "down" => entry = NoEntry
    /\ pc = "idle" => entry.state # "applying"
    /\ Creating \/ Stepping => entry.state = "applying"
    /\ pc = "restore" => entry.state = "applied" /\ job.todo \subseteq {"route", "rule"}
    /\ pc \in {"teardown", "removing"} => entry.state # "none"
    /\ pc = "finish" => entry.state \in {"none", "stale"}
    /\ Creating \/ pc \in {"step", "kernel"} => disk = entry
    /\ Creating => entry.name = "want" /\ ~entry.known /\ entry.res = {"link"}
    /\ Stepping => /\ entry.known /\ job.step \in 1..8
                   /\ job.step > 4 => "route" \in entry.res
                   /\ job.step > 5 => "rule" \in entry.res
    /\ pc = "kernel" => job.step <= 7 /\ (Now \in Objects => Now \in entry.res)
    /\ pc = "flag" => /\ job.step = 7 /\ disk.name = entry.name
                      /\ disk.res \ {"dns"} = entry.res \ {"dns"} /\ disk.state = "applying"

\* DNS is applied or warned about once its step is over.
Flags ==
    /\ Creating \/ (pc \in {"step", "kernel"} /\ job.step <= 7) => ~entry.dns /\ ~entry.warn
    /\ pc = "flag" \/ (pc = "step" /\ job.step = 8) => entry.dns = ~entry.warn
    /\ pc \in {"idle", "restore"} /\ entry.state = "applied" => entry.dns = ~entry.warn

\* Whose the links are: the file and the journal go by the same name, except
\* that the fallback may be known to the journal alone; a lost link is an
\* unnamed fallback; and an entry with an index had a marked link.
LinkNames ==
    /\ entry.state # "none" =>
          disk.state # "none" /\ (disk.name = entry.name \/ (disk.name = "want" /\ entry.name = "spare"))
    /\ lost \subseteq {"spare"}
    /\ \A n \in lost : links[n] \in Own /\ n # entry.name /\ n # disk.name
    /\ Creating => \A n \in Names : links[n] \in Own => n \in lost \/ (n = job.name /\ pc # "create")
    /\ pc \in {"mark", "index"} => job.name \notin lost
    /\ pc = "index" => links[job.name] # "bare"
    /\ pc \in {"idle", "finish"} /\ entry = NoEntry => \A n \in Names : links[n] \in Own => n \in lost
    /\ entry.name = "spare" => links["want"] \notin Own
    /\ \A e \in {entry, disk} : e.known => links[e.name] # "bare"
    /\ pc = "removing" => links[entry.name] # "bare" /\ (links[entry.name] = "ours" => job.owned)

\* What is in the network is in the file, in the journal, and while the entry
\* is taken down among what is still to be removed or could not be; and it is
\* on a link that bears the marker.
Coverage ==
    /\ Installed \subseteq disk.res
    /\ pc # "down" => Installed \subseteq entry.res
    /\ pc = "removing" => /\ Installed \subseteq job.todo \cup job.held
                          /\ job.todo \cup job.held \subseteq entry.res /\ "link" \in job.todo
    /\ net # {} => links[disk.name] = "ours" /\ (pc # "down" => entry.name = disk.name)
    /\ pc \in {"step", "kernel"} /\ job.step <= 7 => "dns" \notin net
    /\ pc \in {"idle", "restore"} /\ entry.state = "applied" =>
          disk.res = entry.res /\ disk.name = entry.name /\ {"route", "rule"} \subseteq entry.res

TunnelInv == Shapes /\ Progress /\ Flags /\ LinkNames /\ LinksOnDisk /\ Coverage

-----------------------------------------------------------------------------
(* Facts about the operators.                                              *)

\* The seven steps of a connect: the fourth adds the route, the fifth the rule,
\* the last one DNS.
LEMMA StepNames ==
    /\ Len(Steps) = 7
    /\ \A i \in 1..7 : /\ Steps[i] \in {"config", "address", "up", "route", "rule", "verify", "dns"}
                       /\ Steps[i] = "route" <=> i = 4
                       /\ Steps[i] = "rule" <=> i = 5
                       /\ Steps[i] = "dns" <=> i = 7
BY DEF Steps

\* The type invariant of the runs follows from the shapes.
LEMMA ShapesAreTypes == Shapes => TypeOK
BY DEF Shapes, Sound, TypeOK, Jobs, Entry, NoEntry

\* The entries the steps put together are sound.
LEMMA SoundEntries ==
    /\ Sound(NoEntry)
    /\ Sound([NoEntry EXCEPT !.state = "applying", !.res = {"link"}])
    /\ \A e \in Entry : Sound(e) /\ e.state # "none" =>
          /\ \A n \in Names : Sound([e EXCEPT !.name = n, !.known = TRUE])
          /\ \A s \in {"applied", "stale"} : Sound([e EXCEPT !.state = s])
          /\ \A rs \in SUBSET e.res : "link" \in rs => Sound([e EXCEPT !.state = "stale", !.res = rs])
          /\ Sound([e EXCEPT !.dns = TRUE])
          /\ Sound([e EXCEPT !.warn = TRUE])
          /\ Sound([e EXCEPT !.warn = TRUE, !.res = @ \ {"dns"}])
          /\ \A d, w \in BOOLEAN : Sound([e EXCEPT !.dns = d, !.warn = w])
<1> USE DEF Sound, Entry, NoEntry, Names, Objects, OnLink
<1>1. Sound(NoEntry) /\ Sound([NoEntry EXCEPT !.state = "applying", !.res = {"link"}])
  OBVIOUS
<1>2. ASSUME NEW e \in Entry, Sound(e), e.state # "none"
      PROVE  /\ \A n \in Names : Sound([e EXCEPT !.name = n, !.known = TRUE])
             /\ \A s \in {"applied", "stale"} : Sound([e EXCEPT !.state = s])
  BY <1>2
<1>3. ASSUME NEW e \in Entry, Sound(e), e.state # "none"
      PROVE  \A rs \in SUBSET e.res : "link" \in rs => Sound([e EXCEPT !.state = "stale", !.res = rs])
  BY <1>3
<1>4. ASSUME NEW e \in Entry, Sound(e), e.state # "none"
      PROVE  /\ Sound([e EXCEPT !.dns = TRUE])
             /\ Sound([e EXCEPT !.warn = TRUE])
             /\ Sound([e EXCEPT !.warn = TRUE, !.res = @ \ {"dns"}])
             /\ \A d, w \in BOOLEAN : Sound([e EXCEPT !.dns = d, !.warn = w])
  BY <1>4
<1> HIDE DEF Sound, Entry, NoEntry, Names, Objects
<1> QED BY <1>1, <1>2, <1>3, <1>4

\* An entry with an index may list anything.
LEMMA SoundMore ==
    ASSUME NEW e \in Entry, Sound(e), e.state # "none", e.known, NEW r \in Objects
    PROVE  Sound([e EXCEPT !.res = @ \cup {r}])
BY DEF Sound, Entry, Objects, OnLink

\* The operands the steps put together.
LEMMA JobTypes ==
    /\ Rest \in Jobs
    /\ \A j \in Jobs, n \in Names :
          /\ [j EXCEPT !.name = n] \in Jobs
          /\ [j EXCEPT !.name = n, !.todo = {"route", "rule"}] \in Jobs
    /\ \A j \in Jobs, i \in 0..8 : [j EXCEPT !.step = i] \in Jobs
    /\ \A j \in Jobs, t, h \in SUBSET (Objects \cup {"link"}) :
          /\ [j EXCEPT !.todo = t] \in Jobs
          /\ [j EXCEPT !.todo = t, !.held = h] \in Jobs
          /\ \A b \in BOOLEAN : [j EXCEPT !.todo = t, !.held = h, !.owned = b] \in Jobs
<1>1. Rest \in Jobs
  BY DEF Jobs, Rest, Names
<1> QED BY <1>1 DEF Jobs, Names, Objects, OnLink

\* A daemon that has started on an empty journal satisfies the invariant.
LEMMA InitTunnel == Init => TunnelInv
<1> SUFFICES ASSUME Init PROVE TunnelInv
  OBVIOUS
<1>1. Shapes
  BY SoundEntries, JobTypes DEF Init, Shapes, Kinds
<1> QED BY <1>1 DEF Init, TunnelInv, Progress, Flags, LinkNames, LinksOnDisk, Coverage, Installed,
           Creating, Stepping, NoEntry, Rest, Names, Own

-----------------------------------------------------------------------------
(* connect_wireguard.                                                      *)

\* connect_wireguard: the entry goes to disk before the link is made.
LEMMA ConnectInv ==
    ASSUME TunnelInv, NEW ok \in BOOLEAN, Connect(ok)
    PROVE  TunnelInv'
<1>0. /\ pc = "idle" /\ entry = NoEntry /\ net = {} /\ rule # "ours"
      /\ \A n \in Names : links[n] \in Own => n \in lost
      /\ lost \subseteq {"spare"}
      /\ UNCHANGED <<links, net, lost>>
  BY DEF TunnelInv, Shapes, Coverage, Installed, LinkNames, Connect, NoEntry
<1>1. CASE ok
  <2>1. /\ entry' = [NoEntry EXCEPT !.state = "applying", !.res = {"link"}] /\ disk' = entry'
        /\ pc' = "create" /\ job' = Rest /\ rule' = "absent"
    BY <1>1 DEF Connect, Save
  <2>2. Shapes'
    BY <1>0, <2>1, SoundEntries, JobTypes DEF TunnelInv, Shapes
  <2>3. Progress'
    BY <1>0, <2>1 DEF Progress, NoEntry, Creating, Stepping
  <2>4. Flags'
    BY <2>1 DEF Flags, Creating, NoEntry
  <2>5. LinkNames'
    BY <1>0, <2>1 DEF TunnelInv, LinkNames, Creating, NoEntry, Own, Names
  <2>6. LinksOnDisk'
    BY <1>0, <2>1 DEF LinksOnDisk
  <2>7. Coverage'
    BY <1>0, <2>1 DEF Coverage, Installed, NoEntry
  <2> QED BY <2>2, <2>3, <2>4, <2>5, <2>6, <2>7 DEF TunnelInv
<1>2. CASE ~ok
  <2>1. /\ disk' \in {disk, [NoEntry EXCEPT !.state = "applying", !.res = {"link"}]}
        /\ UNCHANGED <<entry, pc, job, rule>>
    BY <1>2 DEF Connect, Save
  <2>2. Shapes'
    BY <1>0, <2>1, SoundEntries DEF TunnelInv, Shapes
  <2>3. Progress'
    BY <1>0, <2>1 DEF TunnelInv, Progress, NoEntry, Creating, Stepping
  <2>4. Flags'
    BY <1>0, <2>1 DEF TunnelInv, Flags, Creating, NoEntry
  <2>5. LinkNames'
    BY <1>0, <2>1 DEF TunnelInv, LinkNames, Creating, NoEntry, Own, Names
  <2>6. LinksOnDisk'
    BY <1>0, <2>1 DEF LinksOnDisk
  <2>7. Coverage'
    BY <1>0, <2>1 DEF Coverage, Installed, NoEntry
  <2> QED BY <2>2, <2>3, <2>4, <2>5, <2>6, <2>7 DEF TunnelInv
<1> QED BY <1>1, <1>2

\* What holds while the link is created and marked: the journal is on disk and
\* nothing is on the link yet.
LEMMA CreatingFacts ==
    ASSUME TunnelInv, Creating
    PROVE  /\ disk = entry /\ entry.state = "applying" /\ entry.name = "want" /\ ~entry.known
           /\ entry.res = {"link"} /\ net = {} /\ rule # "ours"
           /\ ~entry.dns /\ ~entry.warn /\ Sound(entry)
           /\ links \in [Names -> Kinds] /\ job \in Jobs /\ job.name \in Names
           /\ \A n \in Names : links[n] \in Own => n \in lost \/ (n = job.name /\ pc # "create")
           /\ lost \subseteq {"spare"} /\ \A n \in lost : links[n] \in Own
           /\ pc \in {"mark", "index"} => job.name \notin lost
           /\ pc = "index" => links[job.name] # "bare"
<1>1. /\ disk = entry /\ entry.state = "applying" /\ entry.name = "want" /\ ~entry.known
      /\ entry.res = {"link"} /\ ~entry.dns /\ ~entry.warn
  BY DEF TunnelInv, Progress, Flags, Creating
<1>2. net = {} /\ rule # "ours"
  BY <1>1 DEF TunnelInv, Coverage, Shapes, Installed, OnLink, Creating
<1>3. Sound(entry) /\ links \in [Names -> Kinds] /\ job \in Jobs /\ job.name \in Names
  BY DEF TunnelInv, Shapes, Jobs
<1> QED BY <1>1, <1>2, <1>3 DEF TunnelInv, LinkNames

\* A link made, or left by a call that failed, has an owner in the entry.
LEMMA CreateLinkInv ==
    ASSUME TunnelInv, NEW ok \in BOOLEAN, CreateLink(ok)
    PROVE  TunnelInv'
<1>0. /\ pc = "create" /\ Creating /\ links[job.name] = "none" /\ UNCHANGED <<entry, disk, net, rule, job>>
  BY DEF CreateLink, Creating, journals
<1>1. PICK k \in {"none", "bare"} :
          /\ links' = [links EXCEPT ![job.name] = k]
          /\ \/ pc' = "mark" /\ lost' = lost
             \/ pc' = "teardown" /\ lost' = lost \cup Strays(links', entry)
  BY DEF CreateLink, GiveUp
<1>2. /\ links' \in [Names -> Kinds]
      /\ links'[job.name] \in {"none", "bare"} /\ \A n \in Names \ {job.name} : links'[n] = links[n]
      /\ \/ pc' = "mark" /\ lost' = lost
         \/ pc' = "teardown" /\ lost' = lost \cup {n \in {"spare"} : links'[n] \in Own}
  BY <1>0, <1>1, CreatingFacts DEF Strays, Names, Kinds, Own
<1> USE <1>0, <1>2, CreatingFacts
<1>3. Shapes'
  BY DEF TunnelInv, Shapes, Kinds, Own, Names
<1>4. Progress'
  BY DEF TunnelInv, Progress, Creating, Stepping
<1>5. Flags'
  BY DEF TunnelInv, Flags, Creating
<1>6. LinkNames'
  BY DEF LinkNames, Creating, NoEntry, Own, Names
<1>7. LinksOnDisk'
  BY DEF LinksOnDisk, Own, Names
<1>8. Coverage'
  BY DEF Coverage, Installed
<1> QED BY <1>3, <1>4, <1>5, <1>6, <1>7, <1>8 DEF TunnelInv

\* A name that is taken leaves the journal as it was on disk.
LEMMA NameTakenInv ==
    ASSUME TunnelInv, NameTaken
    PROVE  TunnelInv'
<1>0. /\ pc = "create" /\ Creating /\ links[job.name] # "none" /\ UNCHANGED <<disk, links, net, rule, lost>>
      /\ \/ job.name = "want" /\ job' = [job EXCEPT !.name = "spare"] /\ UNCHANGED <<entry, pc>>
         \/ job.name = "spare" /\ entry' = NoEntry /\ pc' = "finish" /\ job' = job
  BY CreatingFacts DEF NameTaken, Creating, kernel, Names
<1>1. NoEntry.state = "none" /\ NoEntry.name = "want" /\ ~NoEntry.known
  BY DEF NoEntry
<1> USE <1>0, <1>1, CreatingFacts
<1>3. Shapes'
  BY SoundEntries, JobTypes DEF TunnelInv, Shapes, Names
<1>4. Progress'
  BY DEF TunnelInv, Progress, Creating, Stepping
<1>5. Flags'
  BY DEF TunnelInv, Flags, Creating
<1>6. LinkNames'
  BY DEF LinkNames, Creating, Own, Names
<1>7. LinksOnDisk'
  BY DEF LinksOnDisk, Own, Names
<1>8. Coverage'
  BY DEF Coverage, Installed
<1> QED BY <1>3, <1>4, <1>5, <1>6, <1>7, <1>8 DEF TunnelInv

\* The mark that makes the link the daemon's comes after the entry.
LEMMA MarkLinkInv ==
    ASSUME TunnelInv, NEW ok \in BOOLEAN, MarkLink(ok)
    PROVE  TunnelInv'
<1>0. pc = "mark" /\ Creating /\ UNCHANGED <<entry, disk, net, rule, job>>
  BY DEF MarkLink, Creating, journals
<1>1. PICK k \in Kinds :
          /\ links' = [links EXCEPT ![job.name] = k]
          /\ \/ k = links[job.name]
             \/ k \in {"none", "bare", "ours"} /\ links[job.name] = "bare"
          /\ \/ pc' = "index" /\ lost' = lost
             \/ pc' = "teardown" /\ lost' = lost \cup Strays(links', entry)
          /\ pc' = "index" => k = "ours"
  BY <1>0, CreatingFacts DEF MarkLink, GiveUp, Kinds, Own
<1>2. /\ links' \in [Names -> Kinds]
      /\ \A n \in Names \ {job.name} : links'[n] = links[n]
      /\ links'[job.name] = links[job.name] \/ links[job.name] = "bare"
      /\ \/ pc' = "index" /\ lost' = lost /\ links'[job.name] = "ours"
         \/ pc' = "teardown" /\ lost' = lost \cup {n \in {"spare"} : links'[n] \in Own}
  BY <1>0, <1>1, CreatingFacts DEF Strays, Names, Kinds, Own
<1> USE <1>0, <1>2, CreatingFacts
<1>3. Shapes'
  BY DEF TunnelInv, Shapes, Own, Names
<1>4. Progress'
  BY DEF TunnelInv, Progress, Creating, Stepping
<1>5. Flags'
  BY DEF TunnelInv, Flags, Creating
<1>6. LinkNames'
  BY DEF LinkNames, Creating, NoEntry, Own, Names
<1>7. LinksOnDisk'
  BY DEF LinksOnDisk, Own, Names
<1>8. Coverage'
  BY DEF Coverage, Installed
<1> QED BY <1>3, <1>4, <1>5, <1>6, <1>7, <1>8 DEF TunnelInv

\* The index of the link goes to disk before anything is put on it.
LEMMA TakeIndexInv ==
    ASSUME TunnelInv, NEW ok \in BOOLEAN, TakeIndex(ok)
    PROVE  TunnelInv'
<1>0. /\ pc = "index" /\ Creating /\ UNCHANGED <<links, net, rule, lost>>
      /\ entry' = [entry EXCEPT !.name = job.name, !.known = TRUE]
      /\ \/ disk' = entry' /\ pc' = "step" /\ job' = [job EXCEPT !.step = 1]
         \/ disk' \in {disk, entry'} /\ pc' = "teardown" /\ job' = job
  BY DEF TakeIndex, Save, GiveUp, Creating, kernel
<1>1. /\ Sound(entry') /\ entry'.state = "applying" /\ entry'.name = job.name /\ entry'.known
      /\ entry'.res = {"link"} /\ ~entry'.dns /\ ~entry'.warn
  <2>1. entry \in Entry
    BY CreatingFacts, <1>0 DEF Sound
  <2>2. Sound(entry')
    BY <2>1, <1>0, CreatingFacts, SoundEntries
  <2> QED BY <2>1, <2>2, <1>0, CreatingFacts DEF Entry
<1>2. job' \in Jobs /\ (pc' = "step" => job'.step = 1)
  <2>1. 1 \in 0..8
    OBVIOUS
  <2>2. [job EXCEPT !.step = 1] \in Jobs
    BY <1>0, <2>1, CreatingFacts, JobTypes
  <2> QED BY <1>0, <2>2, CreatingFacts DEF Jobs
<1> USE <1>0, <1>1, <1>2, CreatingFacts
<1>3. Shapes'
  BY DEF TunnelInv, Shapes
<1>4. Progress'
  BY DEF TunnelInv, Progress, Creating, Stepping
<1>5. Flags'
  BY DEF TunnelInv, Flags, Creating
<1>6. LinkNames'
  <2>1. \A e \in {entry', disk'} :
          /\ e.state # "none" /\ e.name \notin lost
          /\ e.known => links[e.name] # "bare"
          /\ e.name = job.name \/ (e.name = "want" /\ job.name = "spare")
    BY DEF Names
  <2>2. job.name = "spare" => links["want"] \notin Own
    BY DEF Names
  <2> QED BY <2>1, <2>2 DEF LinkNames, Creating, NoEntry
<1>7. LinksOnDisk'
  BY DEF LinksOnDisk, Own, Names
<1>8. Coverage'
  BY DEF Coverage, Installed
<1> QED BY <1>3, <1>4, <1>5, <1>6, <1>7, <1>8 DEF TunnelInv

-----------------------------------------------------------------------------
(* The staged steps of a connect.                                          *)

\* A step that leaves the links alone and the entry under its name, saved or
\* not, keeps what is known of the links.
LEMMA KeepsNames ==
    ASSUME TunnelInv, pc # "down", ~Creating, entry.state # "none",
           UNCHANGED <<links, lost>>,
           entry'.state # "none", entry'.name = entry.name, entry'.known = entry.known,
           disk' = disk \/ (disk'.state # "none" /\ disk'.name = entry.name /\ disk'.known = entry.known),
           pc' \in {"idle", "step", "kernel", "flag", "restore", "teardown", "removing", "finish"},
           pc' = "removing" => links[entry.name] # "bare" /\ (links[entry.name] = "ours" => job'.owned)
    PROVE  LinkNames' /\ LinksOnDisk'
<1>1. /\ disk.state # "none" /\ (disk.name = entry.name \/ (disk.name = "want" /\ entry.name = "spare"))
      /\ entry'.name = "spare" => links["want"] \notin Own
  BY DEF TunnelInv, LinkNames
<1>2. LinkNames'
  <2>1. entry' # NoEntry
    BY DEF NoEntry
  <2> QED BY <1>1, <2>1 DEF TunnelInv, LinkNames, Creating
<1>3. LinksOnDisk'
  <2> SUFFICES ASSUME NEW n \in Names, links[n] \in Own
               PROVE  (disk'.state # "none" /\ disk'.name = n) \/ (n = "spare" /\ (n \in lost \/ entry'.name = n))
    BY DEF LinksOnDisk
  <2> QED BY <1>1 DEF TunnelInv, LinksOnDisk, Creating, Names
<1> QED BY <1>2, <1>3

\* What holds between two steps: the journal is on disk, but for the flags.
LEMMA SteppingFacts ==
    ASSUME TunnelInv, Stepping
    PROVE  /\ entry.state = "applying" /\ entry.known /\ Sound(entry) /\ Sound(disk) /\ entry \in Entry
           /\ disk.state = "applying" /\ disk.name = entry.name
           /\ job \in Jobs /\ job.step \in 1..8 /\ pc # "down" /\ ~Creating
           /\ pc # "flag" => disk = entry
           /\ job.step > 4 => "route" \in entry.res
           /\ job.step > 5 => "rule" \in entry.res
           /\ Installed \subseteq entry.res /\ Installed \subseteq disk.res
           /\ net \subseteq OnLink /\ rule \in {"absent", "ours", "foreign"}
           /\ net # {} => links[entry.name] = "ours"
<1>1. /\ entry.state = "applying" /\ entry.known /\ job.step \in 1..8 /\ pc # "down" /\ ~Creating
      /\ pc # "flag" => disk = entry
      /\ job.step > 4 => "route" \in entry.res
      /\ job.step > 5 => "rule" \in entry.res
      /\ disk.state = "applying" /\ disk.name = entry.name
  BY DEF TunnelInv, Progress, Stepping, Creating
<1> QED BY <1>1 DEF TunnelInv, Shapes, Sound, Coverage

\* Each object is on disk before the kernel is asked for it.
LEMMA JournalStepInv ==
    ASSUME TunnelInv, NEW ok \in BOOLEAN, JournalStep(ok)
    PROVE  TunnelInv'
<1>0. /\ pc = "step" /\ Stepping /\ job.step \in 1..7 /\ UNCHANGED <<links, net, rule, job, lost>>
      /\ entry' = [entry EXCEPT !.res = @ \cup ({Now} \cap Objects)]
      /\ disk' \in {disk, entry'}
      /\ \/ pc' = "kernel" /\ (Now \in Objects => disk' = entry') /\ (Now \notin Objects => disk' = disk)
         \/ pc' = "teardown"
  <2>1. pc = "step" /\ Stepping
    BY DEF JournalStep, Stepping
  <2>2. job.step \in 1..7
    BY <2>1, SteppingFacts, StepNames DEF JournalStep
  <2> QED BY <2>1, <2>2 DEF JournalStep, Save, GiveUp, kernel
<1>1. /\ Sound(entry') /\ entry'.state = "applying" /\ entry'.name = entry.name /\ entry'.known = entry.known
      /\ entry'.res = entry.res \cup ({Now} \cap Objects) /\ entry'.dns = entry.dns /\ entry'.warn = entry.warn
      /\ Now \notin Objects => entry' = entry
  <2>1. CASE Now \in Objects
    <3>1. entry' = [entry EXCEPT !.res = @ \cup {Now}]
      BY <1>0, <2>1
    <3>2. Sound(entry')
      BY <1>0, <2>1, <3>1, SteppingFacts, SoundMore
    <3> QED BY <1>0, <2>1, <3>2, SteppingFacts DEF Entry
  <2>2. CASE Now \notin Objects
    <3>1. entry' = entry
      BY <1>0, <2>2, SteppingFacts DEF Entry
    <3> QED BY <1>0, <2>2, <3>1, SteppingFacts
  <2> QED BY <2>1, <2>2
<1> USE <1>0, <1>1, SteppingFacts
<1>3. Shapes'
  BY DEF TunnelInv, Shapes
<1>4. Progress'
  <2>1. Now' = Now
    BY DEF Now
  <2> QED BY <2>1 DEF TunnelInv, Progress, Creating, Stepping
<1>5. Flags'
  BY DEF TunnelInv, Flags, Creating
<1>6. LinkNames' /\ LinksOnDisk'
  BY KeepsNames
<1>8. Coverage'
  BY DEF TunnelInv, Coverage, Installed
<1> QED BY <1>3, <1>4, <1>5, <1>6, <1>8 DEF TunnelInv

\* The next step after one whose object is in the entry.
LEMMA NextSteps ==
    ASSUME job \in Jobs, job.step \in 1..7, NextStep
    PROVE  pc' = "step" /\ job' \in Jobs /\ job'.step = job.step + 1
<1>1. job.step + 1 \in 0..8
  OBVIOUS
<1>2. [job EXCEPT !.step = job.step + 1] \in Jobs
  BY <1>1, JobTypes
<1> QED BY <1>2 DEF NextStep, Jobs

\* The kernel is asked only for what the entry on disk lists.
LEMMA KernelStepInv ==
    ASSUME TunnelInv, NEW ok \in BOOLEAN, KernelStep(ok)
    PROVE  TunnelInv'
<1>0. /\ pc = "kernel" /\ Stepping /\ job.step \in 1..6 /\ UNCHANGED <<entry, disk, links, lost>>
      /\ Now = "route" <=> job.step = 4
      /\ Now = "rule" <=> job.step = 5
      /\ Now # "dns" /\ (Now \in Objects => Now \in entry.res)
  <2>1. pc = "kernel" /\ Stepping /\ Now # "dns"
    BY DEF KernelStep, Stepping
  <2>2. job.step \in 1..7 /\ (Now \in Objects => Now \in entry.res)
    BY <2>1, SteppingFacts DEF TunnelInv, Progress
  <2> QED BY <2>1, <2>2, StepNames DEF KernelStep, journals, Now
<1>1. /\ net' = net \/ (links[entry.name] = "ours" /\ net' = net \cup ({Now} \cap OnLink))
      /\ rule' = rule \/ (Now = "rule" /\ rule' = "ours")
      /\ NextStep \/ (pc' = "teardown" /\ job' = job)
  BY <1>0 DEF KernelStep, Owned, GiveUp
<1>2. \/ pc' = "step" /\ job' \in Jobs /\ job'.step = job.step + 1
      \/ pc' = "teardown" /\ job' = job
  BY <1>0, <1>1, SteppingFacts, NextSteps
<1> USE <1>0, SteppingFacts
<1>3. /\ net' \subseteq OnLink /\ rule' \in {"absent", "ours", "foreign"}
      /\ Installed' \subseteq entry.res /\ "dns" \notin net'
      /\ net' # {} => links[entry.name] = "ours"
  BY <1>1 DEF Installed, TunnelInv, Coverage, Objects
<1>4. Shapes'
  BY <1>2, <1>3 DEF TunnelInv, Shapes
<1>5. Progress'
  <2>1. (job.step = 4 => "route" \in entry.res) /\ (job.step = 5 => "rule" \in entry.res)
    BY DEF Objects, OnLink
  <2> QED BY <1>2, <2>1 DEF TunnelInv, Progress, Creating, Stepping
<1>6. Flags'
  BY <1>2 DEF TunnelInv, Flags, Creating
<1>7. LinkNames' /\ LinksOnDisk'
  BY <1>2, KeepsNames
<1>8. Coverage'
  BY <1>2, <1>3 DEF TunnelInv, Coverage
<1> QED BY <1>4, <1>5, <1>6, <1>7, <1>8 DEF TunnelInv

\* DNS is set, found missing or refused with its claim on disk.
LEMMA DnsStepInv ==
    ASSUME TunnelInv, NEW how \in {"applied", "unavailable", "skipped", "failed"}, DnsStep(how)
    PROVE  TunnelInv'
<1>0. /\ pc = "kernel" /\ Stepping /\ job.step = 7 /\ "dns" \in entry.res
      /\ ~entry.dns /\ ~entry.warn /\ "dns" \notin net
      /\ UNCHANGED <<disk, links, rule, job, lost>>
  <2>1. pc = "kernel" /\ Stepping /\ Now = "dns"
    BY DEF DnsStep, Stepping
  <2>2. job.step \in 1..7 /\ (Now \in Objects => Now \in entry.res)
    BY <2>1, SteppingFacts DEF TunnelInv, Progress
  <2>3. job.step = 7
    BY <2>1, <2>2, StepNames DEF Now
  <2> QED BY <2>1, <2>2, <2>3 DEF DnsStep, TunnelInv, Flags, Coverage, Objects, OnLink
<1>1. /\ Sound(entry') /\ entry'.state = entry.state /\ entry'.name = entry.name /\ entry'.known = entry.known
      /\ entry'.res \ {"dns"} = entry.res \ {"dns"}
      /\ how # "skipped" => entry'.res = entry.res
      /\ how # "failed" => entry'.dns = ~entry'.warn
  <2>1. CASE how = "applied"
    <3>1. entry' = [entry EXCEPT !.dns = TRUE]
      BY <2>1 DEF DnsStep
    <3>2. Sound(entry')
      BY <1>0, <3>1, SteppingFacts, SoundEntries
    <3> QED BY <1>0, <2>1, <3>1, <3>2, SteppingFacts DEF Entry
  <2>2. CASE how = "unavailable"
    <3>1. entry' = [entry EXCEPT !.warn = TRUE]
      BY <2>2 DEF DnsStep
    <3>2. Sound(entry')
      BY <1>0, <3>1, SteppingFacts, SoundEntries
    <3> QED BY <1>0, <2>2, <3>1, <3>2, SteppingFacts DEF Entry
  <2>3. CASE how = "skipped"
    <3>1. entry' = [entry EXCEPT !.warn = TRUE, !.res = @ \ {"dns"}]
      BY <2>3 DEF DnsStep
    <3>2. Sound(entry')
      BY <1>0, <3>1, SteppingFacts, SoundEntries
    <3> QED BY <1>0, <2>3, <3>1, <3>2, SteppingFacts DEF Entry
  <2>4. CASE how = "failed"
    <3>1. entry' = entry
      BY <2>4 DEF DnsStep
    <3> QED BY <1>0, <2>4, <3>1, SteppingFacts
  <2> QED BY <2>1, <2>2, <2>3, <2>4
<1>2. /\ net' = net \/ (links[entry.name] = "ours" /\ net' = net \cup {"dns"} /\ how # "skipped")
      /\ pc' = IF how = "failed" THEN "teardown" ELSE "flag"
  BY DEF DnsStep, GiveUp, Owned
<1> USE <1>0, SteppingFacts
<1>3. /\ net' \subseteq OnLink /\ Installed' \subseteq entry'.res /\ Installed' \subseteq disk.res
      /\ net' # {} => links[entry.name] = "ours"
  BY <1>1, <1>2 DEF Installed, OnLink
<1>4. Shapes'
  BY <1>1, <1>2, <1>3 DEF TunnelInv, Shapes
<1>5. Progress'
  BY <1>1, <1>2 DEF TunnelInv, Progress, Creating, Stepping
<1>6. Flags'
  BY <1>1, <1>2 DEF TunnelInv, Flags, Creating
<1>7. LinkNames' /\ LinksOnDisk'
  BY <1>1, <1>2, KeepsNames
<1>8. Coverage'
  BY <1>1, <1>2, <1>3 DEF TunnelInv, Coverage
<1> QED BY <1>4, <1>5, <1>6, <1>7, <1>8 DEF TunnelInv

\* The DNS flag may be lost with a save; its claim is not.
LEMMA SaveFlagInv ==
    ASSUME TunnelInv, NEW ok \in BOOLEAN, SaveFlag(ok)
    PROVE  TunnelInv'
<1>0. /\ pc = "flag" /\ Stepping /\ job.step = 7
      /\ UNCHANGED <<entry, links, net, rule, lost>>
      /\ \/ disk' = entry /\ NextStep
         \/ disk' \in {disk, entry} /\ pc' = "teardown" /\ job' = job
  BY DEF SaveFlag, Save, GiveUp, Stepping, kernel, TunnelInv, Progress
<1>1. \/ disk' = entry /\ pc' = "step" /\ job' \in Jobs /\ job'.step = 8
      \/ disk' \in {disk, entry} /\ pc' = "teardown" /\ job' = job
  BY <1>0, SteppingFacts, NextSteps
<1> USE <1>0, <1>1, SteppingFacts
<1>4. Shapes'
  BY DEF TunnelInv, Shapes
<1>5. Progress'
  BY DEF TunnelInv, Progress, Creating, Stepping
<1>6. Flags'
  BY DEF TunnelInv, Flags, Creating
<1>7. LinkNames' /\ LinksOnDisk'
  BY KeepsNames
<1>8. Coverage'
  BY DEF TunnelInv, Coverage, Installed
<1> QED BY <1>4, <1>5, <1>6, <1>7, <1>8 DEF TunnelInv

\* A tunnel is reported as up with all its objects on disk.
LEMMA CommitInv ==
    ASSUME TunnelInv, NEW ok \in BOOLEAN, Commit(ok)
    PROVE  TunnelInv'
<1>0. /\ pc = "step" /\ Stepping /\ job.step = 8
      /\ entry' = [entry EXCEPT !.state = "applied"]
      /\ UNCHANGED <<links, net, rule, lost>>
      /\ disk' \in {disk, entry'}
      /\ \/ pc' = "idle" /\ job' = Rest
         \/ pc' = "teardown" /\ job' = job
  <2>1. pc = "step" /\ Stepping
    BY DEF Commit, Stepping
  <2>2. job.step = 8
    BY <2>1, SteppingFacts, StepNames DEF Commit
  <2> QED BY <2>1, <2>2 DEF Commit, Save, GiveUp, kernel
<1>1. /\ Sound(entry') /\ entry'.state = "applied" /\ entry'.name = entry.name /\ entry'.known = entry.known
      /\ entry'.res = entry.res /\ entry'.dns = entry.dns /\ entry'.warn = entry.warn
  <2>1. Sound(entry')
    BY <1>0, SteppingFacts, SoundEntries
  <2> QED BY <1>0, <2>1, SteppingFacts DEF Entry
<1> USE <1>0, <1>1, SteppingFacts
<1>4. Shapes'
  BY JobTypes DEF TunnelInv, Shapes
<1>5. Progress'
  BY DEF TunnelInv, Progress, Creating, Stepping
<1>6. Flags'
  BY DEF TunnelInv, Flags, Creating
<1>7. LinkNames' /\ LinksOnDisk'
  BY KeepsNames
<1>8. Coverage'
  <2>1. "route" \in entry.res /\ "rule" \in entry.res
    OBVIOUS
  <2>2. disk'.res = entry.res /\ disk'.name = entry.name
    OBVIOUS
  <2>3. Installed' = Installed
    BY DEF Installed
  <2> QED BY <2>1, <2>2, <2>3 DEF Coverage
<1> QED BY <1>4, <1>5, <1>6, <1>7, <1>8 DEF TunnelInv

-----------------------------------------------------------------------------
(* Passes, DNS and disconnect.                                             *)

\* What holds of an `applied` tunnel at rest or while it is restored.
LEMMA AppliedFacts ==
    ASSUME TunnelInv, pc \in {"idle", "restore"}, entry.state = "applied"
    PROVE  /\ Sound(entry) /\ entry \in Entry /\ Sound(disk) /\ job \in Jobs /\ ~Creating
           /\ disk.state # "none" /\ disk.name = entry.name /\ disk.res = entry.res
           /\ {"route", "rule"} \subseteq entry.res /\ entry.dns = ~entry.warn
           /\ Installed \subseteq entry.res
           /\ net \subseteq OnLink /\ rule \in {"absent", "ours", "foreign"}
           /\ net # {} => links[entry.name] = "ours"
BY DEF TunnelInv, Shapes, Sound, LinkNames, Flags, Coverage, Creating

\* A pass restores only an entry that is on disk and up.
LEMMA PassInv ==
    ASSUME TunnelInv, Pass
    PROVE  TunnelInv'
<1>0. /\ pc = "idle" /\ entry.state = "applied" /\ pc' \in {"restore", "teardown"}
      /\ job' = [Rest EXCEPT !.name = entry.name, !.todo = {"route", "rule"}]
      /\ UNCHANGED <<entry, disk, links, net, rule, lost>>
  BY DEF Pass, GiveUp, journals, kernel
<1>1. job' \in Jobs /\ job'.todo = {"route", "rule"}
  <2>1. entry.name \in Names
    BY <1>0, AppliedFacts DEF Entry
  <2>2. job' \in Jobs
    BY <1>0, <2>1, JobTypes
  <2> QED BY <1>0, <2>2 DEF Rest
<1> USE <1>0, <1>1, AppliedFacts
<1>4. Shapes'
  BY DEF TunnelInv, Shapes
<1>5. Progress'
  BY DEF TunnelInv, Progress, Creating, Stepping
<1>6. Flags'
  BY DEF TunnelInv, Flags, Creating
<1>7. LinkNames' /\ LinksOnDisk'
  BY KeepsNames
<1>8. Coverage'
  BY DEF TunnelInv, Coverage, Installed
<1> QED BY <1>4, <1>5, <1>6, <1>7, <1>8 DEF TunnelInv

\* An object put back is one the entry on disk lists.
LEMMA RestoreInv ==
    ASSUME TunnelInv, NEW ok \in BOOLEAN, RestoreRoute(ok) \/ RestoreRule(ok)
    PROVE  TunnelInv'
<1>0. /\ pc = "restore" /\ entry.state = "applied" /\ job.todo \subseteq {"route", "rule"}
      /\ UNCHANGED <<entry, disk, links, lost>>
  BY DEF RestoreRoute, RestoreRule, journals, TunnelInv, Progress
<1>1. /\ net' = net \/ (links[entry.name] = "ours" /\ net' = net \cup {"route"})
      /\ rule' = rule \/ rule' = "ours"
      /\ pc' \in {"restore", "teardown"} \/ (pc' = "idle" /\ job' = Rest)
      /\ job' = job \/ job' = Rest \/ job' = [job EXCEPT !.todo = @ \ {"route"}]
  BY <1>0 DEF RestoreRoute, RestoreRule, Owned, GiveUp
<1>2. job' \in Jobs /\ job'.todo \subseteq {"route", "rule"}
  <2>1. job.todo \ {"route"} \in SUBSET (Objects \cup {"link"})
    BY <1>0 DEF Objects
  <2>2. Rest \in Jobs /\ [job EXCEPT !.todo = @ \ {"route"}] \in Jobs
    BY <1>0, <2>1, AppliedFacts, JobTypes
  <2>3. Rest.todo = {} /\ [job EXCEPT !.todo = @ \ {"route"}].todo = job.todo \ {"route"}
    BY <1>0, AppliedFacts DEF Jobs, Rest
  <2> QED BY <1>0, <1>1, <2>2, <2>3, AppliedFacts
<1> USE <1>0, AppliedFacts
<1>3. /\ net' \subseteq OnLink /\ rule' \in {"absent", "ours", "foreign"}
      /\ Installed' \subseteq entry.res /\ (net' # {} => links[entry.name] = "ours")
  BY <1>1 DEF Installed, OnLink
<1>4. Shapes'
  BY <1>1, <1>2, <1>3 DEF TunnelInv, Shapes
<1>5. Progress'
  BY <1>1, <1>2 DEF TunnelInv, Progress, Creating, Stepping
<1>6. Flags'
  BY <1>1 DEF TunnelInv, Flags, Creating
<1>7. LinkNames' /\ LinksOnDisk'
  BY <1>1, KeepsNames
<1>8. Coverage'
  BY <1>1, <1>3 DEF TunnelInv, Coverage
<1> QED BY <1>4, <1>5, <1>6, <1>7, <1>8 DEF TunnelInv

\* Applying DNS again touches the flag alone.
LEMMA ReapplyDnsInv ==
    ASSUME TunnelInv, NEW ok \in BOOLEAN, NEW applied \in BOOLEAN, ReapplyDns(applied, ok)
    PROVE  TunnelInv'
<1>0. /\ pc = "idle" /\ entry.state = "applied" /\ "dns" \in entry.res
      /\ links[entry.name] = "ours" /\ net' \in {net \cup {"dns"}, net \ {"dns"}}
      /\ entry' = [entry EXCEPT !.dns = applied, !.warn = ~applied]
      /\ disk' \in {disk, entry'}
      /\ UNCHANGED <<links, rule, pc, job, lost>>
  BY DEF ReapplyDns, Owned, Noted, Save, core
<1>1. /\ Sound(entry') /\ entry'.state = "applied" /\ entry'.name = entry.name /\ entry'.known = entry.known
      /\ entry'.res = entry.res /\ entry'.dns = ~entry'.warn
  <2>1. Sound(entry')
    BY <1>0, AppliedFacts, SoundEntries
  <2> QED BY <1>0, <2>1, AppliedFacts DEF Entry
<1> USE <1>0, <1>1, AppliedFacts
<1>3. /\ net' \subseteq OnLink /\ Installed' \subseteq entry.res
      /\ disk'.state # "none" /\ disk'.res = entry.res /\ disk'.name = entry.name
  BY DEF Installed, OnLink
<1>4. Shapes'
  BY <1>3 DEF TunnelInv, Shapes
<1>5. Progress'
  BY DEF TunnelInv, Progress, Creating, Stepping
<1>6. Flags'
  BY DEF TunnelInv, Flags, Creating
<1>7. LinkNames' /\ LinksOnDisk'
  BY KeepsNames
<1>8. Coverage'
  BY <1>3 DEF TunnelInv, Coverage
<1> QED BY <1>4, <1>5, <1>6, <1>7, <1>8 DEF TunnelInv

\* A disconnect starts from an entry that is on disk.
LEMMA DisconnectInv ==
    ASSUME TunnelInv, Disconnect
    PROVE  TunnelInv'
<1>0. /\ pc = "idle" /\ entry.state # "none" /\ pc' = "teardown"
      /\ job' = [Rest EXCEPT !.name = entry.name] /\ entry.name \in Names
      /\ UNCHANGED <<entry, disk, links, net, rule, lost>>
  BY DEF Disconnect, GiveUp, journals, kernel, TunnelInv, Shapes, Sound, Entry
<1>1. job' \in Jobs
  BY <1>0, JobTypes
<1> USE <1>0, <1>1
<1>4. Shapes'
  BY DEF TunnelInv, Shapes
<1>5. Progress'
  BY DEF TunnelInv, Progress, Creating, Stepping
<1>6. Flags'
  BY DEF TunnelInv, Flags, Creating
<1>7. LinkNames' /\ LinksOnDisk'
  BY KeepsNames DEF Creating
<1>8. Coverage'
  BY DEF TunnelInv, Coverage, Installed
<1> QED BY <1>4, <1>5, <1>6, <1>7, <1>8 DEF TunnelInv

-----------------------------------------------------------------------------
(* teardown_wireguard_entry and its callers.                               *)

\* The teardown keeps the claims until the objects are gone.
LEMMA TeardownBeginInv ==
    ASSUME TunnelInv, NEW ok \in BOOLEAN, TeardownBegin(ok)
    PROVE  TunnelInv'
<1>0. /\ pc = "teardown" /\ entry.state # "none" /\ Sound(entry) /\ entry \in Entry /\ job \in Jobs
      /\ UNCHANGED <<disk, links, net, rule, lost>>
  BY DEF TeardownBegin, kernel, TunnelInv, Progress, Shapes, Sound
<1>1. CASE ok /\ ~Present
  <2>1. /\ pc' = "removing" /\ UNCHANGED entry
        /\ job' = [job EXCEPT !.todo = entry.res, !.held = {}, !.owned = Owned]
    BY <1>1 DEF TeardownBegin
  <2>2. /\ job' \in Jobs /\ job'.todo = entry.res /\ job'.held = {}
        /\ job'.owned = (links[entry.name] = "ours")
    <3>1. entry.res \in SUBSET (Objects \cup {"link"}) /\ {} \in SUBSET (Objects \cup {"link"})
      BY <1>0 DEF Entry
    <3>2. Owned \in BOOLEAN
      BY DEF Owned
    <3>3. [job EXCEPT !.todo = entry.res, !.held = {}, !.owned = Owned] \in Jobs
      BY <1>0, <3>1, <3>2, JobTypes
    <3> QED BY <1>0, <2>1, <3>3 DEF Jobs, Owned
  <2>3. links[entry.name] # "bare"
    BY <1>1 DEF Present, TunnelInv, LinkNames
  <2> USE <1>0, <2>1, <2>2
  <2>4. Shapes'
    BY DEF TunnelInv, Shapes
  <2>5. Progress'
    BY DEF TunnelInv, Progress, Creating, Stepping
  <2>6. Flags'
    BY DEF TunnelInv, Flags, Creating
  <2>7. LinkNames' /\ LinksOnDisk'
    BY <2>3, KeepsNames DEF Creating
  <2>8. Coverage'
    BY DEF TunnelInv, Coverage, Installed, Sound
  <2> QED BY <2>4, <2>5, <2>6, <2>7, <2>8 DEF TunnelInv
<1>2. CASE ~(ok /\ ~Present)
  <2>1. entry' = [entry EXCEPT !.state = "stale"] /\ pc' = "finish" /\ job' = job
    BY <1>2 DEF TeardownBegin
  <2>2. Sound(entry')
    BY <1>0, <2>1, SoundEntries
  <2>3. /\ entry'.state = "stale" /\ entry'.name = entry.name /\ entry'.known = entry.known
        /\ entry'.res = entry.res
    BY <1>0, <2>1 DEF Entry
  <2> USE <1>0, <2>1, <2>2, <2>3
  <2>4. Shapes'
    BY DEF TunnelInv, Shapes
  <2>5. Progress'
    BY DEF TunnelInv, Progress, Creating, Stepping
  <2>6. Flags'
    BY DEF TunnelInv, Flags, Creating
  <2>7. LinkNames' /\ LinksOnDisk'
    BY KeepsNames DEF Creating
  <2>8. Coverage'
    BY DEF TunnelInv, Coverage, Installed
  <2> QED BY <2>4, <2>5, <2>6, <2>7, <2>8 DEF TunnelInv
<1> QED BY <1>1, <1>2

\* What holds while an entry is taken down.
LEMMA RemovingFacts ==
    ASSUME TunnelInv, pc = "removing"
    PROVE  /\ entry.state # "none" /\ Sound(entry) /\ entry \in Entry /\ job \in Jobs /\ ~Creating
           /\ Installed \subseteq job.todo \cup job.held /\ Installed \subseteq disk.res
           /\ job.todo \cup job.held \subseteq entry.res /\ "link" \in job.todo
           /\ net \subseteq OnLink /\ rule \in {"absent", "ours", "foreign"}
           /\ net # {} => links[entry.name] = "ours" /\ entry.name = disk.name
           /\ links[entry.name] # "bare" /\ (links[entry.name] = "ours" => job.owned)
           /\ links \in [Names -> Kinds] /\ entry.name \in Names
BY DEF TunnelInv, Shapes, Progress, Coverage, LinkNames, Creating, Sound, Entry

\* An object that was removed, or not, is still claimed on disk.
LEMMA RemoveItemInv ==
    ASSUME TunnelInv, NEW ok \in BOOLEAN, NEW r \in Objects, RemoveItem(r, ok)
    PROVE  TunnelInv'
<1>0. /\ pc = "removing" /\ r \in job.todo \ {"link"}
      /\ UNCHANGED <<entry, disk, links, pc, lost>>
      /\ job' = [job EXCEPT !.todo = @ \ {r}, !.held = IF ok THEN @ ELSE @ \cup {r}]
  BY DEF RemoveItem, journals
<1>1. /\ job' \in Jobs /\ job'.todo = job.todo \ {r} /\ job'.owned = job.owned
      /\ job'.held = IF ok THEN job.held ELSE job.held \cup {r}
  <2>1. /\ job.todo \ {r} \in SUBSET (Objects \cup {"link"})
        /\ (IF ok THEN job.held ELSE job.held \cup {r}) \in SUBSET (Objects \cup {"link"})
    BY <1>0, RemovingFacts DEF Jobs
  <2>2. [job EXCEPT !.todo = job.todo \ {r}, !.held = IF ok THEN job.held ELSE job.held \cup {r}] \in Jobs
    BY <1>0, <2>1, RemovingFacts, JobTypes
  <2> QED BY <1>0, <2>2, RemovingFacts DEF Jobs
<1>2. /\ net' \subseteq net /\ net \ {r} \subseteq net'
      /\ rule' = rule \/ (r = "rule" /\ rule = "ours" /\ rule' = "absent")
      /\ ok => r \notin Installed'
  BY <1>0, RemovingFacts DEF RemoveItem, Installed, OnLink
<1> USE <1>0, <1>1, RemovingFacts
<1>3. Installed' \subseteq job'.todo \cup job'.held /\ Installed' \subseteq disk.res
  BY <1>2 DEF Installed
<1>4. Shapes'
  BY <1>2 DEF TunnelInv, Shapes
<1>5. Progress'
  BY DEF TunnelInv, Progress, Creating, Stepping
<1>6. Flags'
  BY DEF TunnelInv, Flags, Creating
<1>7. LinkNames' /\ LinksOnDisk'
  BY KeepsNames
<1>8. Coverage'
  BY <1>2, <1>3 DEF Coverage
<1> QED BY <1>4, <1>5, <1>6, <1>7, <1>8 DEF TunnelInv

\* The link goes last: when it is deleted nothing of the tunnel is left, and a
\* link that is not the daemon's stays.
LEMMA RemoveLinkFacts ==
    ASSUME TunnelInv, NEW ok \in BOOLEAN, RemoveLink(ok)
    PROVE  /\ pc = "removing" /\ pc' = "finish" /\ UNCHANGED <<disk, rule, job, lost>>
           /\ job.todo = {"link"} /\ Installed \subseteq job.held
           /\ \/ links' = links /\ net' = net
              \/ /\ links' = [links EXCEPT ![entry.name] = "none"] /\ links[entry.name] = "ours"
                 /\ net' = {} /\ net = {} /\ rule # "ours"
           /\ \/ /\ entry' = NoEntry /\ job.held = {} /\ links'[entry.name] \notin Own
              \/ /\ entry' = [entry EXCEPT !.state = "stale", !.res = job.held \cup {"link"}]
<1>1. /\ pc = "removing" /\ pc' = "finish" /\ UNCHANGED <<disk, rule, job, lost>> /\ job.todo = {"link"}
  BY DEF RemoveLink
<1>2. Installed \subseteq job.held
  BY <1>1, RemovingFacts DEF Installed, OnLink
<1>3. \/ links' = links /\ net' = net
      \/ /\ links' = [links EXCEPT ![entry.name] = "none"] /\ links[entry.name] = "ours"
         /\ net' = {} /\ job.held = {}
  BY <1>1, RemovingFacts DEF RemoveLink, LastIsLink, Deleted, Deletable
<1>4. \/ entry' = NoEntry /\ job.held = {} /\ ok
      \/ entry' = [entry EXCEPT !.state = "stale", !.res = job.held \cup {"link"}]
  BY DEF RemoveLink, After
<1>5. ok /\ job.held = {} => links'[entry.name] \notin Own
  BY <1>1, RemovingFacts DEF RemoveLink, LastIsLink, Deleted, Deletable, Own
<1> QED BY <1>1, <1>2, <1>3, <1>4, <1>5 DEF Installed

\* With the link goes everything on it; what is not ours stays.
LEMMA RemoveLinkInv ==
    ASSUME TunnelInv, NEW ok \in BOOLEAN, RemoveLink(ok)
    PROVE  TunnelInv'
<1> USE RemoveLinkFacts, RemovingFacts
<1>1. /\ links' \in [Names -> Kinds] /\ net' \subseteq OnLink /\ Installed' \subseteq Installed
      /\ \A n \in Names : links'[n] = links[n] \/ (n = entry.name /\ links'[n] = "none")
      /\ net' # {} => net' = net /\ links' = links
  BY DEF Kinds, Installed
<1>2. CASE entry' = NoEntry
  <2>0. /\ entry'.state = "none" /\ entry'.name = "want" /\ ~entry'.known
        /\ Installed' = {} /\ net' = {} /\ links'[entry.name] \notin Own
    <3>1. Installed' = {} /\ links'[entry.name] \notin Own
      BY <1>1, <1>2 DEF Entry, NoEntry
    <3> QED BY <1>2, <3>1 DEF NoEntry, Installed
  <2>1. \A n \in Names : links'[n] \in Own => n \in lost
    <3> SUFFICES ASSUME NEW n \in Names, links'[n] \in Own PROVE n \in lost
      OBVIOUS
    <3>1. n # entry.name /\ links[n] \in Own
      BY <1>1, <2>0 DEF Own
    <3> QED BY <3>1 DEF TunnelInv, LinksOnDisk, LinkNames, Names, Creating
  <2>2. \A n \in lost : links'[n] \in Own /\ n # "want" /\ n # disk.name
    BY <1>1 DEF TunnelInv, LinkNames, Names
  <2>3. disk.known => links'[disk.name] # "bare"
    BY <1>1 DEF TunnelInv, LinkNames, Shapes, Sound, Entry
  <2>4. Shapes'
    BY <1>1, <1>2, SoundEntries DEF TunnelInv, Shapes
  <2>5. Progress'
    BY <1>2, <2>0 DEF Progress, Creating, Stepping
  <2>6. Flags'
    BY <1>2, <2>0 DEF Flags, Creating
  <2>7. LinkNames'
    BY <1>2, <2>0, <2>1, <2>2, <2>3 DEF TunnelInv, LinkNames, Creating
  <2>8. LinksOnDisk'
    BY <2>1 DEF LinksOnDisk, TunnelInv, LinkNames
  <2>9. Coverage'
    BY <2>0 DEF Coverage
  <2> QED BY <2>4, <2>5, <2>6, <2>7, <2>8, <2>9 DEF TunnelInv
<1>3. CASE entry' = [entry EXCEPT !.state = "stale", !.res = job.held \cup {"link"}]
  <2>0. /\ entry'.state = "stale" /\ entry'.name = entry.name /\ entry'.known = entry.known
        /\ entry'.res = job.held \cup {"link"} /\ entry' # NoEntry
    BY <1>3 DEF Entry, NoEntry
  <2>1. Sound(entry')
    <3>1. job.held \cup {"link"} \in SUBSET entry.res
      OBVIOUS
    <3> QED BY <1>3, <3>1, SoundEntries
  <2>2. \A n \in Names : links'[n] \in Own => links[n] \in Own
    BY <1>1 DEF Own
  <2>4. Shapes'
    BY <1>1, <2>1 DEF TunnelInv, Shapes
  <2>5. Progress'
    BY <2>0 DEF Progress, Creating, Stepping
  <2>6. Flags'
    BY <2>0 DEF Flags, Creating
  <2>7. LinkNames'
    <3>1. \A n \in lost : links'[n] \in Own
      BY <1>1 DEF TunnelInv, LinkNames, Names
    <3>2. \A e \in {entry', disk'} : e.known => links'[e.name] # "bare"
      BY <1>1, <2>0 DEF TunnelInv, LinkNames, Shapes, Sound, Entry
    <3> QED BY <2>0, <2>2, <3>1, <3>2 DEF TunnelInv, LinkNames, Creating, Names
  <2>8. LinksOnDisk'
    BY <2>0, <2>2 DEF LinksOnDisk, TunnelInv, LinkNames
  <2>9. Coverage'
    BY <1>1, <2>0 DEF Coverage
  <2> QED BY <2>4, <2>5, <2>6, <2>7, <2>8, <2>9 DEF TunnelInv
<1> QED BY <1>2, <1>3

\* The claims leave the disk only after the last removal.
LEMMA FinishInv ==
    ASSUME TunnelInv, NEW ok \in BOOLEAN, Finish(ok)
    PROVE  TunnelInv'
<1>0. /\ pc = "finish" /\ pc' = "idle" /\ job' = Rest /\ disk' \in {disk, entry}
      /\ entry.state \in {"none", "stale"}
      /\ UNCHANGED <<entry, links, net, rule, lost>>
  BY DEF Finish, Save, kernel, TunnelInv, Progress
<1>1. Shapes'
  BY <1>0, JobTypes DEF TunnelInv, Shapes
<1>2. Progress'
  BY <1>0 DEF TunnelInv, Progress, Creating, Stepping
<1>3. Flags'
  BY <1>0 DEF TunnelInv, Flags, Creating
<1>4. LinkNames' /\ LinksOnDisk'
  <2>1. CASE entry.state # "none"
    BY <1>0, <2>1, KeepsNames DEF Creating
  <2>2. CASE entry.state = "none"
    <3>1. entry = NoEntry /\ entry.name = "want" /\ ~entry.known
      BY <2>2 DEF TunnelInv, Shapes, Sound, NoEntry
    <3>2. \A n \in Names : links[n] \in Own => n \in lost
      BY <1>0, <3>1 DEF TunnelInv, LinkNames
    <3> QED BY <1>0, <2>2, <3>1, <3>2 DEF TunnelInv, LinkNames, LinksOnDisk, Creating
  <2> QED BY <2>1, <2>2
<1>5. Coverage'
  BY <1>0 DEF TunnelInv, Coverage, Installed
<1> QED BY <1>1, <1>2, <1>3, <1>4, <1>5 DEF TunnelInv

-----------------------------------------------------------------------------
(* Crashes, restarts and everybody else.                                   *)

\* A crash loses the memory and leaves the disk to cover the kernel.
LEMMA CrashInv ==
    ASSUME TunnelInv, Crash
    PROVE  TunnelInv'
<1>0. /\ pc' = "down" /\ job' = Rest /\ entry' = NoEntry
      /\ lost' = lost \cup {n \in Names : links[n] \in Own /\ disk.name # n}
      /\ UNCHANGED <<disk, links, net, rule>>
      /\ entry'.state = "none" /\ entry'.name = "want" /\ ~entry'.known
  BY DEF Crash, kernel, Strays, NoEntry
<1>1. /\ links["want"] \in Own => disk.state # "none" /\ disk.name = "want"
      /\ \A n \in Names : links[n] \in Own => (disk.state # "none" /\ disk.name = n) \/ n \in lost'
  <2>1. disk.state = "none" => disk.name = "want"
    BY DEF TunnelInv, Shapes, Sound, NoEntry
  <2> QED BY <1>0, <2>1 DEF TunnelInv, LinksOnDisk, Names
<1>2. Shapes'
  BY <1>0, SoundEntries, JobTypes DEF TunnelInv, Shapes
<1>3. Progress' /\ Flags'
  BY <1>0 DEF Progress, Flags, Creating, Stepping
<1>4. LinkNames'
  BY <1>0, <1>1 DEF TunnelInv, LinkNames, Creating, Names
<1>5. LinksOnDisk'
  BY <1>0, <1>1 DEF LinksOnDisk, Names
<1>6. Coverage'
  BY <1>0 DEF TunnelInv, Coverage, Installed
<1> QED BY <1>2, <1>3, <1>4, <1>5, <1>6 DEF TunnelInv

\* A restart takes the entry of the file for its own.
LEMMA RestartInv ==
    ASSUME TunnelInv, Restart
    PROVE  TunnelInv'
<1>0. /\ pc = "down" /\ entry' = disk /\ UNCHANGED <<disk, links, net, rule, lost>>
      /\ \/ disk = NoEntry /\ pc' = "idle" /\ job' = job
         \/ disk # NoEntry /\ pc' = "teardown" /\ job' = [Rest EXCEPT !.name = disk.name]
      /\ entry = NoEntry /\ entry.name = "want" /\ entry.state = "none"
  BY DEF Restart, GiveUp, kernel, TunnelInv, Progress, NoEntry
<1>1. job' \in Jobs /\ (disk # NoEntry => disk.state # "none") /\ (disk = NoEntry => disk.state = "none")
  <2>1. disk.name \in Names
    BY DEF TunnelInv, Shapes, Sound, Entry
  <2>2. [Rest EXCEPT !.name = disk.name] \in Jobs
    BY <2>1, JobTypes
  <2> QED BY <1>0, <2>2 DEF TunnelInv, Shapes, Sound, NoEntry
<1>2. Shapes'
  BY <1>0, <1>1 DEF TunnelInv, Shapes
<1>3. Progress'
  BY <1>0, <1>1 DEF Progress, Creating, Stepping
<1>4. Flags'
  BY <1>0, <1>1 DEF Flags, Creating
<1>5. LinkNames'
  <2>1. disk.name = "spare" => links["want"] \notin Own
    BY <1>0 DEF TunnelInv, LinksOnDisk, Names
  <2>2. disk = NoEntry => \A n \in Names : links[n] \in Own => n \in lost
    BY <1>0, <1>1 DEF TunnelInv, LinksOnDisk
  <2> QED BY <1>0, <1>1, <2>1, <2>2 DEF TunnelInv, LinkNames, Creating
<1>6. LinksOnDisk'
  BY <1>0 DEF TunnelInv, LinksOnDisk
<1>7. Coverage'
  BY <1>0, <1>1 DEF TunnelInv, Coverage, Installed
<1> QED BY <1>2, <1>3, <1>4, <1>5, <1>6, <1>7 DEF TunnelInv

\* Somebody else's link under the name is never taken for the daemon's.
LEMMA LinkEditedInv ==
    ASSUME TunnelInv, NEW n \in Names, NEW k \in Kinds, LinkEdited(n, k)
    PROVE  TunnelInv'
<1>0. /\ links' = [links EXCEPT ![n] = k] /\ k \in {"none", "foreign", "alien"}
      /\ lost' = lost \ {n}
      /\ net' = IF links[n] = "ours" /\ n \notin lost THEN {} ELSE net
      /\ UNCHANGED <<entry, disk, rule, pc, job>>
      /\ links \in [Names -> Kinds]
  BY DEF LinkEdited, journals, core, TunnelInv, Shapes
<1>1. /\ links' \in [Names -> Kinds] /\ links'[n] \notin Own /\ links'[n] # "bare"
      /\ \A m \in Names \ {n} : links'[m] = links[m]
  BY <1>0 DEF Own
<1>2. /\ Sound(disk) /\ Sound(entry) /\ job \in Jobs /\ entry.name \in Names /\ disk.name \in Names
      /\ job.name \in Names
  BY DEF TunnelInv, Shapes, Sound, Entry, Jobs
<1>3. Shapes'
  BY <1>0, <1>1 DEF TunnelInv, Shapes
<1>4. Progress'
  <2>1. Now' = Now
    BY <1>0 DEF Now
  <2> QED BY <1>0, <2>1 DEF TunnelInv, Progress, Creating, Stepping
<1>5. Flags'
  BY <1>0 DEF TunnelInv, Flags, Creating
<1>6. LinkNames'
  BY <1>0, <1>1, <1>2 DEF TunnelInv, LinkNames, Creating, Names, Own
<1>7. LinksOnDisk'
  BY <1>0, <1>1, <1>2 DEF TunnelInv, LinksOnDisk
<1>8. Coverage'
  <2>1. net' # {} => net' = net /\ links'[disk.name] = "ours"
    BY <1>0, <1>1, <1>2 DEF TunnelInv, Coverage, LinkNames
  <2>2. Installed' \subseteq Installed /\ net' \subseteq net
    BY <1>0 DEF Installed
  <2> QED BY <1>0, <2>1, <2>2 DEF TunnelInv, Coverage
<1> QED BY <1>3, <1>4, <1>5, <1>6, <1>7, <1>8 DEF TunnelInv

\* Somebody else's edits only take the daemon's objects away.
LEMMA NetEditedInv ==
    ASSUME TunnelInv, NetEdited \/ UNCHANGED vars
    PROVE  TunnelInv'
<1>0. /\ UNCHANGED <<entry, disk, links, pc, job, lost>>
      /\ net' \subseteq net /\ rule' \in {rule, "absent", "foreign"}
  BY DEF NetEdited, journals, core, kernel, vars
<1>1. Shapes'
  BY <1>0 DEF TunnelInv, Shapes
<1>2. Progress'
  <2>1. Now' = Now
    BY <1>0 DEF Now
  <2> QED BY <1>0, <2>1 DEF TunnelInv, Progress, Creating, Stepping
<1>3. Flags'
  BY <1>0 DEF TunnelInv, Flags, Creating
<1>4. LinkNames' /\ LinksOnDisk'
  BY <1>0 DEF TunnelInv, LinkNames, LinksOnDisk, Creating
<1>5. Coverage'
  <2>1. Installed' \subseteq Installed
    BY <1>0 DEF Installed
  <2> QED BY <1>0, <2>1 DEF TunnelInv, Coverage
<1> QED BY <1>1, <1>2, <1>3, <1>4, <1>5 DEF TunnelInv

-----------------------------------------------------------------------------
(* The theorems.                                                           *)

\* Every step of the tunnel, the daemon and the outside keeps the invariant.
LEMMA TunnelStep == TunnelInv /\ [Next]_vars => TunnelInv'
<1> SUFFICES ASSUME TunnelInv, [Next]_vars PROVE TunnelInv'
  OBVIOUS
<1>1. CASE CoreStep
  BY <1>1, CreateLinkInv, NameTakenInv, MarkLinkInv, TakeIndexInv, JournalStepInv, KernelStepInv,
     DnsStepInv, SaveFlagInv, CommitInv, RestoreInv, TeardownBeginInv, RemoveItemInv, RemoveLinkInv,
     FinishInv DEF CoreStep
<1>2. CASE Resolve
  BY <1>2, PassInv DEF Resolve
<1>3. CASE Entering
  BY <1>3, ConnectInv, ReapplyDnsInv, DisconnectInv, RestartInv DEF Entering
<1>4. CASE World \/ UNCHANGED vars
  BY <1>4, CrashInv, LinkEditedInv, NetEditedInv DEF World
<1> QED BY <1>1, <1>2, <1>3, <1>4 DEF Next

\* The inductive invariant of the tunnel.
THEOREM TunnelInvariant == Spec => []TunnelInv
BY InitTunnel, TunnelStep, PTL DEF Spec

\* connect_wireguard, teardown_wireguard_entry and the recovery: however many saves
\* and kernel calls fail and wherever the daemon dies, between requests the file
\* knows every link, a forgotten tunnel has left nothing, and the status is true.
THEOREM TunnelRecordsAgree == Spec => []RecordsAgree
<1>1. TunnelInv => RecordsAgree
  <2> SUFFICES ASSUME TunnelInv PROVE RecordsAgree
    OBVIOUS
  <2>1. TypeOK
    BY ShapesAreTypes DEF TunnelInv
  <2>2. ForgottenIsClean
    BY DEF TunnelInv, Shapes, Coverage, LinkNames, Installed, ForgottenIsClean, AtRest, NoEntry, OnLink
  <2>3. DnsApplies
    BY DEF TunnelInv, Flags, DnsApplies, AtRest
  <2> QED BY <2>1, <2>2, <2>3 DEF TunnelInv, RecordsAgree
<1> QED BY <1>1, TunnelInvariant, PTL

\* delete_link, create_link and the rules: the daemon never touches the links and
\* policy rules of others.
THEOREM OthersAreLeft == Spec => LeavesOthers
<1> DEFINE Kept ==
        /\ \A n \in Names : links[n] \in {"foreign", "alien"} => links'[n] = links[n]
        /\ rule = "foreign" => rule' = "foreign" \/ Connect(TRUE)
<1>1. ASSUME TunnelInv, [Next]_vars PROVE [~World => Kept]_vars
  <2>0. links \in [Names -> Kinds] /\ job.name \in Names /\ entry.name \in Names
    BY <1>1 DEF TunnelInv, Shapes, Jobs, Sound, Entry
  <2>1. ASSUME NEW ok \in BOOLEAN, CreateLink(ok) \/ MarkLink(ok) PROVE Kept
    BY <2>0, <2>1 DEF CreateLink, MarkLink
  <2>2. ASSUME NEW ok \in BOOLEAN, RemoveLink(ok) PROVE Kept
    BY <1>1, <2>0, <2>2, RemoveLinkFacts
  <2>3. ASSUME NEW ok \in BOOLEAN,
               \/ TakeIndex(ok) \/ JournalStep(ok) \/ SaveFlag(ok) \/ Commit(ok)
               \/ TeardownBegin(ok) \/ Finish(ok) \/ (\E applied \in BOOLEAN : ReapplyDns(applied, ok))
        PROVE  Kept
    BY <2>3 DEF TakeIndex, JournalStep, SaveFlag, Commit, TeardownBegin, Finish, ReapplyDns, kernel
  <2>4. ASSUME NEW ok \in BOOLEAN,
               \/ KernelStep(ok) \/ RestoreRoute(ok) \/ RestoreRule(ok) \/ (\E r \in Objects : RemoveItem(r, ok))
        PROVE  Kept
    BY <2>4 DEF KernelStep, RestoreRoute, RestoreRule, RemoveItem
  <2>5. ASSUME NEW ok \in BOOLEAN, Connect(ok) PROVE Kept
    BY <2>5 DEF Connect
  <2>6. CASE \/ NameTaken \/ Pass \/ Disconnect \/ Restart
             \/ \E how \in {"applied", "unavailable", "skipped", "failed"} : DnsStep(how)
    BY <2>6 DEF NameTaken, Pass, Disconnect, Restart, DnsStep, kernel
  <2> HIDE DEF Kept
  <2> QED BY <1>1, <2>1, <2>2, <2>3, <2>4, <2>5, <2>6 DEF Next, CoreStep, Resolve, Entering
<1> QED BY <1>1, TunnelInvariant, PTL DEF Spec, LeavesOthers

\* teardown_wireguard_entry deletes the link last, when no rule and nothing on the
\* link is left.
THEOREM LinkIsLast == Spec => LinkGoesLast
<1> DEFINE Bare == \A n \in Names : links[n] = "ours" /\ links'[n] = "none" => rule # "ours" /\ net = {}
<1>1. ASSUME TunnelInv, [Next]_vars PROVE [~World => Bare]_vars
  <2>0. links \in [Names -> Kinds] /\ job.name \in Names /\ entry.name \in Names
    BY <1>1 DEF TunnelInv, Shapes, Jobs, Sound, Entry
  <2>1. ASSUME NEW ok \in BOOLEAN, CreateLink(ok) \/ MarkLink(ok) PROVE Bare
    BY <2>0, <2>1 DEF CreateLink, MarkLink
  <2>2. ASSUME NEW ok \in BOOLEAN, RemoveLink(ok) PROVE Bare
    BY <1>1, <2>0, <2>2, RemoveLinkFacts
  <2>3. CASE links' = links
    BY <2>3
  <2>4. ASSUME NEW ok \in BOOLEAN,
               \/ TakeIndex(ok) \/ JournalStep(ok) \/ SaveFlag(ok) \/ Commit(ok)
               \/ TeardownBegin(ok) \/ Finish(ok) \/ (\E applied \in BOOLEAN : ReapplyDns(applied, ok))
               \/ KernelStep(ok) \/ RestoreRoute(ok) \/ RestoreRule(ok)
               \/ (\E r \in Objects : RemoveItem(r, ok)) \/ Connect(ok)
        PROVE  links' = links
    BY <2>4 DEF TakeIndex, JournalStep, SaveFlag, Commit, TeardownBegin, Finish, ReapplyDns, kernel,
       KernelStep, RestoreRoute, RestoreRule, RemoveItem, Connect
  <2>5. ASSUME \/ NameTaken \/ Pass \/ Disconnect \/ Restart
               \/ \E how \in {"applied", "unavailable", "skipped", "failed"} : DnsStep(how)
        PROVE  links' = links
    BY <2>5 DEF NameTaken, Pass, Disconnect, Restart, DnsStep, kernel
  <2> HIDE DEF Bare
  <2> QED BY <1>1, <2>1, <2>2, <2>3, <2>4, <2>5 DEF Next, CoreStep, Resolve, Entering
<1> QED BY <1>1, TunnelInvariant, PTL DEF Spec, LinkGoesLast

\* The claims of the file and what is installed, as the ledger sees them.
Claims == [o \in {"wg"} |-> disk.res \cap Objects]
Holds  == [o \in {"wg"} |-> net \cup (IF rule = "ours" THEN {"rule"} ELSE {})]

\* Saving what covers the network, withdrawing, and adding one object that is
\* claimed are the steps of the ledger.
LEMMA LedgerStep ==
    ASSUME TunnelInv, TunnelInv',
           disk'.res \cap Objects = disk.res \cap Objects \/ Installed' = Installed,
           Installed' \subseteq Installed \/ \E r \in Objects : Installed' = Installed \cup {r}
    PROVE  Ledger!Next \/ UNCHANGED <<Claims, Holds>>
<1>1. /\ Claims \in [{"wg"} -> SUBSET Objects] /\ Claims' \in [{"wg"} -> SUBSET Objects]
      /\ Holds' \in [{"wg"} -> SUBSET Objects] /\ Claims["wg"] = disk.res \cap Objects
      /\ Claims'["wg"] = disk'.res \cap Objects /\ Holds["wg"] = Installed /\ Holds'["wg"] = Installed'
      /\ Installed \subseteq Objects /\ Installed' \subseteq Objects
  BY DEF Claims, Holds, Installed, TunnelInv, Shapes, Objects
<1>2. Installed' \subseteq disk'.res /\ Installed \subseteq disk.res
  BY DEF TunnelInv, Coverage
<1>3. CASE Installed' = Installed
  <2>1. Holds' = Holds
    BY <1>3 DEF Holds, Installed
  <2>2. \A o \in {"wg"} : Holds[o] \subseteq Claims'[o]
    BY <1>1, <1>2, <1>3
  <2>3. Ledger!Rewrite(Claims')
    BY <2>1, <2>2 DEF Ledger!Rewrite, Claims, Holds
  <2> QED BY <1>1, <2>3 DEF Ledger!Next
<1>4. CASE disk'.res \cap Objects = disk.res \cap Objects /\ Installed' \subseteq Installed
  <2>1. Claims' = Claims
    BY <1>4 DEF Claims
  <2>2. \A o \in {"wg"} : Holds'[o] \subseteq Holds[o]
    BY <1>1, <1>4
  <2>3. Ledger!Withdraw(Holds')
    BY <2>1, <2>2 DEF Ledger!Withdraw, Claims, Holds
  <2> QED BY <1>1, <2>3 DEF Ledger!Next
<1>5. ASSUME NEW r \in Objects, r \notin Installed, Installed' = Installed \cup {r},
             disk'.res \cap Objects = disk.res \cap Objects
      PROVE  Ledger!Next
  <2>1. Claims' = Claims
    BY <1>5 DEF Claims
  <2>2. r \in Claims["wg"] /\ r \notin Holds["wg"]
    BY <1>1, <1>2, <1>5
  <2>3. Holds' = [Holds EXCEPT !["wg"] = @ \cup {r}]
    BY <1>5 DEF Holds, Installed
  <2>4. Ledger!Install("wg", r)
    BY <2>1, <2>2, <2>3 DEF Ledger!Install, Claims, Holds
  <2> QED BY <2>4 DEF Ledger!Next
<1>6. ASSUME NEW r \in Objects, r \in Installed, Installed' = Installed \cup {r}
      PROVE  Installed' = Installed
  BY <1>6
<1> QED BY <1>3, <1>4, <1>5, <1>6

\* No address, route, rule or DNS setting goes in before its claim is on disk, and
\* no claim is dropped while it is in: every step of the tunnel, with its failures,
\* crashes and outside edits, is a step of the ledger.
THEOREM TunnelImplementsLedger == Spec => ImplementsLedger
<1>1. Init => Ledger!Init
  BY DEF Init, Ledger!Init, Ledger!Nothing, NoEntry
<1>2. TunnelInv /\ TunnelInv' /\ [Next]_vars => [Ledger!Next]_<<Claims, Holds>>
  <2> SUFFICES ASSUME TunnelInv, TunnelInv', [Next]_vars
               PROVE  Ledger!Next \/ UNCHANGED <<Claims, Holds>>
    OBVIOUS
  <2>0. CASE UNCHANGED <<net, rule>>
    BY <2>0, LedgerStep DEF Installed
  <2>1. ASSUME NEW ok \in BOOLEAN,
               \/ CreateLink(ok) \/ MarkLink(ok) \/ TakeIndex(ok) \/ JournalStep(ok) \/ SaveFlag(ok)
               \/ Commit(ok) \/ TeardownBegin(ok) \/ Finish(ok)
        PROVE  UNCHANGED <<net, rule>>
    BY <2>1 DEF CreateLink, MarkLink, TakeIndex, JournalStep, SaveFlag, Commit, TeardownBegin, Finish, kernel
  <2>2. CASE NameTaken \/ Pass \/ Disconnect \/ Restart \/ Crash \/ UNCHANGED vars
    BY <2>0, <2>2 DEF NameTaken, Pass, Disconnect, Restart, Crash, vars, kernel
  <2>3. ASSUME NEW ok \in BOOLEAN, Connect(ok) PROVE Ledger!Next \/ UNCHANGED <<Claims, Holds>>
    <3>1. net = {} /\ rule # "ours"
      BY <2>3 DEF Connect, TunnelInv, Shapes, Coverage, Installed, NoEntry
    <3>2. Installed' = Installed
      BY <2>3, <3>1 DEF Connect, Installed
    <3> QED BY <3>2, LedgerStep
  <2>4. CASE \E ok \in BOOLEAN : RestoreRoute(ok) \/ RestoreRule(ok)
    <3>1. \/ net' = net /\ rule' \in {rule, "ours"}
          \/ net' = net \cup {"route"} /\ rule' = rule
      BY <2>4 DEF RestoreRoute, RestoreRule
    <3>2. Installed' = Installed \/ \E r \in {"route", "rule"} : Installed' = Installed \cup {r}
      BY <3>1 DEF Installed
    <3> QED BY <2>4, <3>2, LedgerStep DEF RestoreRoute, RestoreRule, journals, Objects, OnLink
  <2>5. CASE \E ok \in BOOLEAN : KernelStep(ok)
    <3>1. /\ net' \in {net, net \cup ({Now} \cap OnLink)}
          /\ rule' = rule \/ (Now = "rule" /\ rule' = "ours")
          /\ disk' = disk
      BY <2>5 DEF KernelStep, journals
    <3>2. Installed' = Installed \/ (Now \in Objects /\ Installed' = Installed \cup {Now})
      BY <3>1 DEF Installed, Objects, OnLink
    <3> QED BY <3>1, <3>2, LedgerStep
  <2>6. CASE \E how \in {"applied", "unavailable", "skipped", "failed"} : DnsStep(how)
    <3>1. net' \in {net, net \cup {"dns"}} /\ UNCHANGED <<rule, disk>>
      BY <2>6 DEF DnsStep
    <3>2. Installed' = Installed \/ Installed' = Installed \cup {"dns"}
      BY <3>1 DEF Installed
    <3> QED BY <3>1, <3>2, LedgerStep DEF Objects, OnLink
  <2>7. ASSUME NEW ok \in BOOLEAN, NEW r \in Objects, RemoveItem(r, ok)
        PROVE  Ledger!Next \/ UNCHANGED <<Claims, Holds>>
    <3>1. net' \subseteq net /\ rule' \in {rule, "absent"} /\ disk' = disk
      BY <2>7 DEF RemoveItem, journals
    <3>2. Installed' \subseteq Installed
      BY <3>1 DEF Installed
    <3> QED BY <3>1, <3>2, LedgerStep
  <2>8. CASE (\E ok \in BOOLEAN : RemoveLink(ok)) \/ NetEdited \/ \E n \in Names, k \in Kinds : LinkEdited(n, k)
    <3>1. net' \subseteq net /\ rule' \in {rule, "absent", "foreign"} /\ disk' = disk
      BY <2>8 DEF RemoveLink, NetEdited, LinkEdited, journals
    <3>2. Installed' \subseteq Installed
      BY <3>1 DEF Installed
    <3> QED BY <3>1, <3>2, LedgerStep
  <2>9. ASSUME NEW ok \in BOOLEAN, NEW applied \in BOOLEAN, ReapplyDns(applied, ok)
        PROVE  Ledger!Next \/ UNCHANGED <<Claims, Holds>>
    <3>1. /\ pc = "idle" /\ entry.state = "applied" /\ net' \in {net \cup {"dns"}, net \ {"dns"}}
          /\ rule' = rule /\ disk' \in {disk, Noted(entry, applied)}
      BY <2>9 DEF ReapplyDns, Save
    <3>2. disk'.res = disk.res
      BY <3>1, AppliedFacts DEF Noted, Entry
    <3>3. Installed' \subseteq Installed \/ Installed' = Installed \cup {"dns"}
      BY <3>1 DEF Installed
    <3> QED BY <3>2, <3>3, LedgerStep DEF Objects, OnLink
  <2> HIDE DEF TunnelInv
  <2> QED BY <2>0, <2>1, <2>2, <2>3, <2>4, <2>5, <2>6, <2>7, <2>8, <2>9
          DEF Next, CoreStep, Resolve, Entering, World
<1> QED BY <1>1, <1>2, TunnelInvariant, PTL DEF Spec, ImplementsLedger, Ledger!Spec, Claims, Holds
=============================================================================
