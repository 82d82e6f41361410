--------------------------- MODULE FailoverProofs ---------------------------
(***************************************************************************)
(* Proofs about multinode failover, for every list of candidates and any   *)
(* number of replacements of Xray.                                         *)
(***************************************************************************)
EXTENDS Failover, WellFoundedInduction, TLAPS

\* The core always has a supervisor to stop, and one that never ran to start
\* for each it stopped.
InTurn ==
    /\ cur \in Sups
    /\ core # "idle" => cur < MaxSups
    /\ \A s \in Sups : s > cur => pc[s] = "none"

\* The slot's lock: a supervisor that was told to stop has no command under
\* way, for the flag is raised before the command in the slot is killed and
\* read before one is spawned.
SentIsLive == \A s \in Sups : child[s] = "sent" => s \notin stopped

\* TrackedNode.observe: a streak is the last sample, against the verdict.
StreakIsLast ==
    \A n \in Nodes :
        /\ committed[n] = "unprobed" => streak[n] = 0
        /\ streak[n] > 0 => committed[n] = "down" /\ last[n] = "up"
        /\ streak[n] < 0 => committed[n] = "up" /\ last[n] = "down"

FailoverInv == TypeOK /\ InTurn /\ SentIsLive /\ StreakIsLast

\* A set of positions has a first one.
LEMMA FirstPosition ==
    ASSUME NEW up \in SUBSET (1..Len(Candidates)), up # {}
    PROVE  \E i \in up : \A j \in up : i <= j
<1>1. up \subseteq Nat
  BY FailoverAssumption
<1>2. \E i \in up : \A j \in up : ~ (<<j, i>> \in OpToRel(<, Nat))
  BY <1>1, NatLessThanWellFounded, WFMin
<1>3. \E i \in up : \A j \in up : ~ (<<j, i>> \in {p \in Nat \X Nat : p[1] < p[2]})
  BY <1>2, Zenon DEF OpToRel
<1>4. PICK i \in up : \A j \in up : ~ (<<j, i>> \in {p \in Nat \X Nat : p[1] < p[2]})
  BY <1>3
<1>5. ASSUME NEW j \in up PROVE i <= j
  <2>1. i \in Nat /\ j \in Nat
    BY <1>1
  <2>2. ~ (<<j, i>> \in {p \in Nat \X Nat : p[1] < p[2]})
    BY <1>4
  <2> QED BY <2>1, <2>2
<1> QED BY <1>5

\* select_tag picks a candidate or the blackhole, never anything else.
LEMMA SelectTagType ==
    ASSUME TypeOK, NEW verdict
    PROVE  SelectTag(verdict) \in Tags
<1> DEFINE up == {i \in 1..Len(Candidates) : verdict[Candidates[i]] = "up"}
           first == CHOOSE i \in up : \A j \in up : i <= j
<1>1. CASE up = {}
  BY <1>1 DEF SelectTag, Tags
<1>2. CASE up # {}
  <2>1. first \in up
    BY <1>2, FirstPosition
  <2>2. Candidates[first] \in Nodes
    BY <2>1 DEF Nodes
  <2>3. ASSUME NEW i \in up PROVE Candidates[i] \in Nodes
    BY DEF Nodes
  <2> QED BY <1>2, <2>2, <2>3 DEF SelectTag, Tags
<1> QED BY <1>1, <1>2

\* A fresh supervisor, with nothing probed and no command sent.
LEMMA InitFailover == Init => FailoverInv
<1> SUFFICES ASSUME Init PROVE FailoverInv
  OBVIOUS
<1>1. TypeOK
  <2>1. /\ committed \in [Nodes -> {"unprobed", "up", "down"}]
        /\ streak \in [Nodes -> (1 - STREAK_REQUIRED)..(STREAK_REQUIRED - 1)]
        /\ last \in [Nodes -> {"unprobed", "up", "down"}]
    BY DEF Init, Unprobed, Zero, STREAK_REQUIRED
  <2>2. /\ pc \in [Sups -> {"none", "idle", "spawn", "wait", "done"}]
        /\ wanted \in [Sups -> Tags \cup {"none"}]
        /\ child \in [Sups -> {"none", "sent", "killed", "landed", "failed"}]
        /\ \A s \in Sups : child[s] # "none" => pc[s] = "wait"
        /\ cur \in 0..MaxSups
    BY FailoverAssumption DEF Init
  <2>3. /\ autoReturn \in BOOLEAN /\ xrayUp \in BOOLEAN /\ torn \in BOOLEAN /\ calm \in BOOLEAN
        /\ real \in [Nodes -> BOOLEAN]
    BY DEF Init
  <2> QED BY <2>1, <2>2, <2>3 DEF Init, TypeOK
<1>2. InTurn /\ SentIsLive
  BY FailoverAssumption DEF Init, InTurn, SentIsLive, Sups
<1>3. StreakIsLast
  BY DEF Init, StreakIsLast, Unprobed, Zero
<1> QED BY <1>1, <1>2, <1>3 DEF FailoverInv

\* A round of the worker keeps it: a sample extends the streak, ends it or
\* flips the verdict.
LEMMA RoundInv ==
    ASSUME FailoverInv, NEW s \in Sups, Round(s)
    PROVE  FailoverInv'
<1> DEFINE verdict == [n \in Nodes |-> IF Flips(n) THEN Sample(n) ELSE committed[n]]
           tag == SelectTag(verdict)
<1> USE DEF FailoverInv, TypeOK, STREAK_REQUIRED
<1>1. tag \in Tags
  BY SelectTagType
<1>2. \A n \in Nodes : Sample(n) \in {"up", "down"}
  BY DEF Sample
<1>3. ASSUME NEW n \in Nodes
      PROVE  /\ committed'[n] \in {"up", "down"}
             /\ streak'[n] \in -1..1
             /\ last'[n] \in {"up", "down"}
             /\ streak'[n] > 0 => committed'[n] = "down" /\ last'[n] = "up"
             /\ streak'[n] < 0 => committed'[n] = "up" /\ last'[n] = "down"
  BY <1>2 DEF Round, Flips, Streak, StreakIsLast
<1>4. /\ committed' = [n \in Nodes |-> committed'[n]]
      /\ streak' = [n \in Nodes |-> streak'[n]]
      /\ last' = [n \in Nodes |-> last'[n]]
  BY DEF Round
<1>5. /\ committed' \in [Nodes -> {"unprobed", "up", "down"}]
      /\ streak' \in [Nodes -> -1..1]
      /\ last' \in [Nodes -> {"unprobed", "up", "down"}]
  BY <1>3, <1>4
<1>6. /\ pc' \in [Sups -> {"none", "idle", "spawn", "wait", "done"}]
      /\ wanted' \in [Sups -> Tags \cup {"none"}]
      /\ \A q \in Sups : child[q] # "none" => pc'[q] = "wait"
  <2> HIDE DEF tag
  <2>1. \/ UNCHANGED <<pc, wanted>>
        \/ pc' = [pc EXCEPT ![s] = "spawn"] /\ wanted' = [wanted EXCEPT ![s] = tag]
    BY DEF Round, tag
  <2>2. pc[s] = "idle"
    BY DEF Round
  <2> QED BY <1>1, <2>1, <2>2
<1>7. UNCHANGED <<applied, child, cur, stopped, core, real, torn, calm, autoReturn, balancer, xrayUp>>
  BY DEF Round, life, env
<1>8. TypeOK'
  BY <1>5, <1>6, <1>7
<1>9. InTurn' /\ SentIsLive'
  BY <1>7 DEF InTurn, SentIsLive, Round
<1>10. StreakIsLast'
  BY <1>3 DEF StreakIsLast
<1> QED BY <1>8, <1>9, <1>10

\* Everything a worker does with a command keeps it.
LEMMA CommandInv ==
    ASSUME FailoverInv, NEW s \in Sups,
           \/ WorkerEnds(s) \/ SpawnCommand(s) \/ Land(s) \/ LandFails(s)
           \/ \E ok \in BOOLEAN : Finish(s, ok)
    PROVE  FailoverInv'
<1> USE DEF FailoverInv, TypeOK, InTurn, SentIsLive, StreakIsLast, STREAK_REQUIRED, work, life, env
<1>1. CASE WorkerEnds(s)
  BY <1>1 DEF WorkerEnds
<1>2. CASE SpawnCommand(s)
  BY <1>2 DEF SpawnCommand
<1>3. CASE Land(s)
  BY <1>3 DEF Land
<1>4. CASE LandFails(s)
  BY <1>4 DEF LandFails
<1>5. ASSUME NEW ok \in BOOLEAN, Finish(s, ok) PROVE FailoverInv'
  <2>1. /\ applied' \in {applied, wanted[s]} /\ torn' \in BOOLEAN
        /\ pc' = [pc EXCEPT ![s] = "idle"]
        /\ wanted' = [wanted EXCEPT ![s] = "none"]
        /\ child' = [child EXCEPT ![s] = "none"]
        /\ pc[s] = "wait"
        /\ UNCHANGED <<committed, streak, last, cur, stopped, core, real, calm, autoReturn,
                       balancer, xrayUp>>
    BY <1>5 DEF Finish
  <2> QED BY <2>1
<1> QED BY <1>1, <1>2, <1>3, <1>4, <1>5

\* So do the steps of the core that replace Xray, and the network's.
LEMMA CoreInv ==
    ASSUME FailoverInv,
           XrayDies \/ Replace \/ CalmDown \/ \E n \in Nodes : Flip(n)
    PROVE  FailoverInv'
<1> USE FailoverAssumption DEF FailoverInv, TypeOK, InTurn, SentIsLive, StreakIsLast,
    STREAK_REQUIRED, work, life, env, cmd, Sups
<1>1. CASE XrayDies
  BY <1>1 DEF XrayDies
<1>2. CASE StopSupervisor
  <2>1. /\ committed' \in [Nodes -> {"unprobed", "up", "down"}]
        /\ streak' \in [Nodes -> -1..1]
        /\ last' \in [Nodes -> {"unprobed", "up", "down"}]
        /\ \A n \in Nodes : streak'[n] = 0
    BY <1>2 DEF StopSupervisor, Unprobed, Zero
  <2>2. /\ child' \in [Sups -> {"none", "sent", "killed", "landed", "failed"}]
        /\ \A s \in Sups : child'[s] # "none" => child[s] # "none"
        /\ \A s \in Sups : child'[s] = "sent" => child[s] = "sent" /\ s # cur
    BY <1>2 DEF StopSupervisor
  <2>3. /\ core' = "stopped" /\ cur < MaxSups /\ stopped' = stopped \cup {cur}
        /\ applied' = "none" /\ torn' = FALSE
        /\ UNCHANGED <<pc, wanted, cur, real, calm, autoReturn, balancer, xrayUp>>
    BY <1>2 DEF StopSupervisor
  <2>4. TypeOK'
    <3>1. stopped' \in SUBSET Sups /\ cur' \in 0..MaxSups /\ torn' \in BOOLEAN
      BY <2>3
    <3>2. /\ \A s \in Sups : child'[s] # "none" => pc'[s] = "wait"
          /\ applied' \in Tags \cup {"none"} /\ core' \in {"idle", "stopped", "replaced"}
      BY <2>2, <2>3
    <3> QED BY <2>1, <2>2, <2>3, <3>1, <3>2
  <2>5. InTurn' /\ SentIsLive' /\ StreakIsLast'
    BY <2>1, <2>2, <2>3
  <2> QED BY <2>4, <2>5
<1>3. CASE ReplaceXray
  BY <1>3 DEF ReplaceXray
<1>4. CASE ReplaceFails
  BY <1>4 DEF ReplaceFails
<1>5. CASE StartSupervisor
  BY <1>5 DEF StartSupervisor
<1>6. CASE CalmDown
  BY <1>6 DEF CalmDown
<1>7. ASSUME NEW n \in Nodes, Flip(n) PROVE FailoverInv'
  BY <1>7 DEF Flip
<1> QED BY <1>1, <1>2, <1>3, <1>4, <1>5, <1>6, <1>7 DEF Replace

\* Every step keeps the invariant.
LEMMA FailoverStep == FailoverInv /\ [Next]_vars => FailoverInv'
<1> SUFFICES ASSUME FailoverInv, [Next]_vars PROVE FailoverInv'
  OBVIOUS
<1>1. ASSUME NEW s \in Sups, Worker(s) PROVE FailoverInv'
  BY <1>1, RoundInv, CommandInv DEF Worker
<1>2. CASE XrayDies \/ Replace \/ CalmDown \/ \E n \in Nodes : Flip(n)
  BY <1>2, CoreInv
<1>3. CASE UNCHANGED vars
  BY <1>3 DEF vars, work, cmd, life, env, FailoverInv, TypeOK, InTurn, SentIsLive, StreakIsLast
<1> QED BY <1>1, <1>2, <1>3 DEF Next

\* The inductive invariant, for any candidates and any number of replacements.
THEOREM FailoverInvariant == Spec => []FailoverInv
BY InitFailover, FailoverStep, PTL DEF Spec

\* TrackedNode and run_api_command keep to their shapes: a streak never
\* outlives the flip it leads to, and a command is at hand only while its worker
\* waits for it.
THEOREM FailoverTypes == Spec => []TypeOK
<1>1. FailoverInv => TypeOK
  BY DEF FailoverInv
<1> QED BY <1>1, FailoverInvariant, PTL

\* FailoverSupervisor::drop: a command of a supervisor that was told to stop
\* never reaches an Xray started after it.
THEOREM StaleCommandsDie == Spec => StaleNeverLands
<1>1. ASSUME FailoverInv, Next, NEW s \in Sups, child[s] # "landed", child'[s] = "landed"
      PROVE  s \notin stopped \/ core = "stopped"
  <2>1. child'[s] # child[s] /\ Land(s)
    <3> USE DEF FailoverInv, TypeOK, InTurn
    <3>1. ASSUME NEW q \in Sups, Worker(q) PROVE Land(s)
      BY <1>1, <3>1 DEF Worker, Round, WorkerEnds, SpawnCommand, Land, LandFails, Finish
    <3>2. CASE XrayDies \/ Replace \/ CalmDown \/ \E n \in Nodes : Flip(n)
      BY <1>1, <3>2 DEF XrayDies, Replace, StopSupervisor, ReplaceXray, ReplaceFails,
         StartSupervisor, CalmDown, Flip, cmd
    <3> QED BY <1>1, <3>1, <3>2 DEF Next
  <2> QED BY <1>1, <2>1 DEF Land, FailoverInv, SentIsLive
<1>2. FailoverInv /\ [Next]_vars
      => [\A s \in Sups : child[s] # "landed" /\ child'[s] = "landed" =>
            s \notin stopped \/ core = "stopped"]_vars
  BY <1>1 DEF vars
<1> QED BY <1>2, FailoverInvariant, PTL DEF Spec, StaleNeverLands

\* TrackedNode.observe: a verdict flips only on two samples in a row.
THEOREM FlipsAreEarned == Spec => FlipsNeedTwo
<1>1. ASSUME FailoverInv, Next, NEW n \in Nodes, committed[n] # "unprobed",
             committed'[n] \notin {"unprobed", committed[n]}
      PROVE  last[n] = committed'[n] /\ last'[n] = committed'[n]
  <2>1. PICK s \in Sups : Round(s)
    <3>1. ASSUME ~ \E s \in Sups : Round(s)
          PROVE  committed' = committed \/ committed' = Unprobed
      BY <1>1, <3>1 DEF Next, Worker, WorkerEnds, SpawnCommand, Land, LandFails, Finish, XrayDies,
         Replace, StopSupervisor, ReplaceXray, ReplaceFails, StartSupervisor, CalmDown, Flip, work
    <3> QED BY <1>1, <3>1 DEF Unprobed
  <2>2. Flips(n) /\ committed'[n] = Sample(n) /\ last'[n] = Sample(n)
    BY <1>1, <2>1 DEF Round
  <2>3. Sample(n) \in {"up", "down"}
    BY DEF Sample
  <2> QED BY <1>1, <2>2, <2>3 DEF Flips, Streak, FailoverInv, TypeOK, StreakIsLast, STREAK_REQUIRED
<1>2. FailoverInv /\ [Next]_vars
      => [\A n \in Nodes :
            /\ committed[n] # "unprobed"
            /\ committed'[n] \notin {"unprobed", committed[n]}
            => last[n] = committed'[n] /\ last'[n] = committed'[n]]_vars
  BY <1>1 DEF vars
<1> QED BY <1>2, FailoverInvariant, PTL DEF Spec, FlipsNeedTwo
=============================================================================
