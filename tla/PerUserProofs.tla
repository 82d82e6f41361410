--------------------------- MODULE PerUserProofs ---------------------------
(***************************************************************************)
(* What the daemon keeps for each user apart from the tunnels themselves:  *)
(* theorems about the always-on enrolment (AlwaysOn), the sessions         *)
(* (ClientSessions) and the conditional rules (ConditionalRules).  The     *)
(* three modules share no state; each part is about one of them.           *)
(***************************************************************************)
EXTENDS AlwaysOn, ClientSessions, ConditionalRules, WellFoundedInduction, TLAPS

-----------------------------------------------------------------------------
(* Always-on.  What the user has put down stays down, for every set of     *)
(* connections and definitions: handlers, closures that outlive a timeout, *)
(* replay, session cleanup, shutdown and restart leave a paused document   *)
(* and a removed definition alone.                                         *)

\* A removal of d between its first and its last store closure, and one that
\* has torn the owner down.
Removes(r, d)  == r.op = "remove" /\ r.d = d /\ r.step \in {"core", "final"}
Finishes(r, d) == r.op = "remove" /\ r.d = d /\ r.step = "final"
Finishing(d)   == \E c \in Clients : Finishes(req[c], d) \/ Finishes(late[c], d)

\* A pause whose cleanup is still to come.
CleanupPending == \E c \in Clients : req[c].op = "cleanup" /\ req[c].step = "core"

\* While paused: an apply in flight was crossed, and so was what is up, unless
\* the cleanup is still to come or was cut off.
PauseInv ==
    paused => \A d \in Defs :
                 /\ ApplyInFlight(d) => d \in crossed
                 /\ Up(d) => d \in crossed \/ cut \/ CleanupPending

\* A definition that is not stored is neither up nor being applied; one being
\* removed is neither enrolled nor being applied; and one torn down by its
\* removal is not up; but for the crossed ones.
RemovedInv ==
    \A d \in Defs :
        /\ stored[d] = "absent" /\ (Up(d) \/ ApplyInFlight(d)) => d \in crossed
        /\ RemoveInFlight(d) /\ (stored[d] = "enabled" \/ ApplyInFlight(d)) => d \in crossed
        /\ Finishing(d) /\ Up(d) => d \in crossed

AlwaysOnInv == TypeOK /\ PauseInv /\ RemovedInv

-----------------------------------------------------------------------------
(* Requests.                                                               *)

\* The idle request does nothing.
LEMMA IdleRequest ==
    /\ NoReq \in Requests
    /\ NoReq.step = "idle" /\ NoReq.op = "set" /\ ~NoReq.queued
    /\ \A d \in Defs : ~Applies(NoReq, d) /\ ~Removes(NoReq, d) /\ ~Finishes(NoReq, d)
<1>1. NoDef \in Defs
  BY DefsAssumption DEF NoDef
<1> QED BY <1>1 DEF NoReq, Requests, Ops, Steps, Applies, Removes, Finishes

\* A removal in flight is that of some connection's request or late closure.
LEMMA InFlightRemoval ==
    ASSUME NEW d \in Defs
    PROVE  /\ RemoveInFlight(d) <=> \E c \in Clients : Removes(req[c], d) \/ Removes(late[c], d)
           /\ Finishing(d) => RemoveInFlight(d)
BY DEF RemoveInFlight, Removes, Finishing, Finishes

\* When only connection c moves, to request n and late closure l, nothing is
\* in flight after it that was not before or is not of n or l.
LEMMA OnlyOneMoves ==
    ASSUME NEW c \in Clients, NEW n, NEW l,
           req'[c] = n, late'[c] = l,
           \A b \in Clients \ {c} : req'[b] = req[b] /\ late'[b] = late[b]
    PROVE  \A d \in Defs :
             /\ ApplyInFlight(d)' => ApplyInFlight(d) \/ Applies(n, d) \/ Applies(l, d)
             /\ RemoveInFlight(d)' => RemoveInFlight(d) \/ Removes(n, d) \/ Removes(l, d)
             /\ Finishing(d)' => Finishing(d) \/ Finishes(n, d) \/ Finishes(l, d)
<1> SUFFICES ASSUME NEW d \in Defs
             PROVE  /\ ApplyInFlight(d)' => ApplyInFlight(d) \/ Applies(n, d) \/ Applies(l, d)
                    /\ RemoveInFlight(d)' => RemoveInFlight(d) \/ Removes(n, d) \/ Removes(l, d)
                    /\ Finishing(d)' => Finishing(d) \/ Finishes(n, d) \/ Finishes(l, d)
  OBVIOUS
<1>1. ApplyInFlight(d)' => ApplyInFlight(d) \/ Applies(n, d) \/ Applies(l, d)
  BY DEF ApplyInFlight, Applies
<1>2. RemoveInFlight(d)' => RemoveInFlight(d) \/ Removes(n, d) \/ Removes(l, d)
  BY DEF RemoveInFlight, Removes
<1>3. Finishing(d)' => Finishing(d) \/ Finishes(n, d) \/ Finishes(l, d)
  BY DEF Finishing, Finishes
<1> QED BY <1>1, <1>2, <1>3

\* A step that leaves the document alone keeps what is down down: it brings up
\* only what an apply in flight or replay may bring up, puts nothing new in
\* flight, and forgets a crossing, or that a cleanup is due, only of what is
\* down.
LEMMA DocumentKept ==
    ASSUME PauseInv, RemovedInv,
           UNCHANGED <<stored, paused>>,
           \A d \in Defs :
              /\ ApplyInFlight(d)' => ApplyInFlight(d)
              /\ RemoveInFlight(d)' => RemoveInFlight(d)
              /\ Finishing(d)' => Finishing(d) \/ ~Up(d)'
              /\ Up(d)' => Up(d) \/ ApplyInFlight(d) \/ d \in Replayable
              /\ d \in crossed => \/ d \in crossed'
                                  \/ ~Up(d)' /\ ~ApplyInFlight(d) /\ ~RemoveInFlight(d),
           (cut \/ CleanupPending) => \/ cut' \/ CleanupPending'
                                      \/ \A d \in Defs : ~Up(d)'
    PROVE  PauseInv' /\ RemovedInv'
<1>1. PauseInv'
  <2> SUFFICES ASSUME paused, NEW d \in Defs
               PROVE  /\ ApplyInFlight(d)' => d \in crossed'
                      /\ Up(d)' => d \in crossed' \/ cut' \/ CleanupPending'
    BY DEF PauseInv
  <2>1. d \notin Replayable
    BY DEF Replayable
  <2> QED BY <2>1 DEF PauseInv
<1>2. RemovedInv'
  <2> SUFFICES ASSUME NEW d \in Defs
               PROVE  /\ stored[d] = "absent" /\ (Up(d)' \/ ApplyInFlight(d)') => d \in crossed'
                      /\ RemoveInFlight(d)' /\ (stored[d] = "enabled" \/ ApplyInFlight(d)')
                            => d \in crossed'
                      /\ Finishing(d)' /\ Up(d)' => d \in crossed'
    BY DEF RemovedInv
  <2>1. d \in Replayable => stored[d] = "enabled"
    BY DEF Replayable
  <2> QED BY <2>1, InFlightRemoval DEF RemovedInv
<1> QED BY <1>1, <1>2

-----------------------------------------------------------------------------
(* The store closures.                                                     *)

\* Where a handler goes after a store closure: a request of the right shape,
\* not another store closure, that applies only what is enabled, or its own
\* definition unless paused, and a removal only of a stored definition.
LEMMA NextRequest ==
    ASSUME TypeOK, NEW r \in Requests, r.step \in {"store", "final"}
    PROVE  /\ AfterStore(r) \in Requests
           /\ r.op = "cleanup" => AfterStore(r).op = "cleanup" /\ AfterStore(r).step = "core"
           /\ \A d \in Defs :
                /\ Applies(AfterStore(r), d) => \/ r.op = "set" /\ r.d = d /\ ~paused
                                                \/ r.op = "resume" /\ stored[d] = "enabled"
                /\ Removes(AfterStore(r), d) => /\ r.op = "remove" /\ r.d = d /\ r.step = "store"
                                                /\ stored[d] # "absent"
                /\ ~Finishes(AfterStore(r), d)
<1>0. r.op \in Ops
  BY DEF Requests
<1>1. CASE r.op = "set"
  BY <1>1, IdleRequest DEF AfterStore, Requests, Ops, Steps, Applies, Removes, Finishes
<1>2. CASE r.op = "remove"
  BY <1>2, IdleRequest DEF AfterStore, Requests, Ops, Steps, Applies, Removes, Finishes
<1>3. CASE r.op = "resume"
  <2> DEFINE enabled == {d \in Defs : stored[d] = "enabled"}
  <2>1. enabled \in SUBSET Defs
    OBVIOUS
  <2>2. AfterStore(r) = IF enabled = {} THEN NoReq
                        ELSE [r EXCEPT !.step = "core", !.queued = FALSE, !.todo = enabled]
    BY <1>3 DEF AfterStore
  <2>3. \A d \in Defs : d \in enabled => stored[d] = "enabled"
    OBVIOUS
  <2> HIDE DEF enabled
  <2> QED BY <2>1, <2>2, <2>3, <1>3, IdleRequest
          DEF Requests, Ops, Steps, Applies, Removes, Finishes
<1>4. CASE r.op = "cleanup"
  BY <1>4, IdleRequest DEF AfterStore, Requests, Ops, Steps, Applies, Removes, Finishes
<1> QED BY <1>0, <1>1, <1>2, <1>3, <1>4 DEF Ops

\* What a store closure writes has the right shape.
LEMMA StoreTypes ==
    ASSUME TypeOK, NEW r \in Requests, r.step \in {"store", "final"},
           NEW ends \in BOOLEAN, StoreEffect(r, ends)
    PROVE  /\ stored' \in [Defs -> {"absent", "disabled", "enabled"}]
           /\ paused' \in BOOLEAN
           /\ crossed' \in SUBSET Defs
           /\ cut' \in BOOLEAN
<1>0. r.op \in Ops /\ r.d \in Defs
  BY DEF Requests
<1>1. CASE r.op = "set"
  BY <1>0, <1>1 DEF StoreEffect, TypeOK
<1>2. CASE r.op = "remove"
  BY <1>0, <1>2 DEF StoreEffect, TypeOK
<1>3. CASE r.op = "resume"
  <2>1. paused' = FALSE /\ UNCHANGED <<stored, crossed, cut>>
    BY <1>3 DEF StoreEffect
  <2> QED BY <2>1, Zenon DEF TypeOK
<1>4. CASE r.op = "cleanup"
  <2>1. /\ paused' = TRUE /\ cut' = ends /\ UNCHANGED stored
        /\ crossed' = crossed \cup {d \in Defs : ApplyInFlight(d)}
    BY <1>4 DEF StoreEffect
  <2>2. crossed' \in SUBSET Defs
    BY <2>1 DEF TypeOK
  <2> QED BY <2>1, <2>2, Zenon DEF TypeOK
<1> QED BY <1>0, <1>1, <1>2, <1>3, <1>4 DEF Ops

\* A store closure keeps what is down down, whether its handler goes on (to n)
\* or ends: a pause and a removal note the applies they cross, an enrolment the
\* removals, and the last closure of a removal finds the owner torn down.
LEMMA StoreKeeps ==
    ASSUME TypeOK, PauseInv, RemovedInv, NEW c \in Clients,
           NEW r \in {req[c], late[c]}, r.step \in {"store", "final"},
           NEW ends \in BOOLEAN, StoreEffect(r, ends),
           NEW n, n = IF ends THEN NoReq ELSE AfterStore(r),
           UNCHANGED live,
           \A d \in Defs :
              /\ ApplyInFlight(d)' => ApplyInFlight(d) \/ Applies(n, d)
              /\ RemoveInFlight(d)' => RemoveInFlight(d) \/ Removes(n, d)
              /\ Finishing(d)' => Finishing(d) \/ Finishes(n, d),
           CleanupPending => CleanupPending',
           n.op = "cleanup" /\ n.step = "core" => CleanupPending'
    PROVE  PauseInv' /\ RemovedInv'
<1>0. /\ r \in Requests /\ r.op \in Ops /\ r.d \in Defs
      /\ \A d \in Defs : r.op = "remove" /\ r.d = d /\ r.step = "final" => Finishing(d)
      /\ \A d \in Defs : Up(d)' = Up(d)
      /\ \A d \in Defs : stored[d] \in {"absent", "disabled", "enabled"}
      /\ stored \in [Defs -> {"absent", "disabled", "enabled"}]
  BY DEF TypeOK, Requests, Finishing, Finishes, Up
<1>1. /\ r.op = "cleanup" /\ ~ends => CleanupPending'
      /\ \A d \in Defs :
           /\ Applies(n, d) => \/ r.op = "set" /\ r.d = d /\ ~paused
                               \/ r.op = "resume" /\ stored[d] = "enabled"
           /\ Removes(n, d) => /\ r.op = "remove" /\ r.d = d /\ r.step = "store"
                               /\ stored[d] # "absent"
           /\ ~Finishes(n, d)
  BY <1>0, NextRequest, IdleRequest
<1>2. \A d \in Defs : Finishing(d) => RemoveInFlight(d)
  BY InFlightRemoval
<1>3. CASE r.op = "set"
  <2>1. /\ stored' = [stored EXCEPT ![r.d] = "enabled"]
        /\ UNCHANGED <<paused, cut>>
        /\ crossed' = IF RemoveInFlight(r.d) THEN crossed \cup {r.d} ELSE crossed
    BY <1>3 DEF StoreEffect
  <2>2. PauseInv'
    BY <1>0, <1>1, <1>3, <2>1 DEF PauseInv
  <2>3. RemovedInv'
    BY <1>0, <1>1, <1>2, <1>3, <2>1 DEF RemovedInv
  <2> QED BY <2>2, <2>3
<1>4. CASE r.op = "remove" /\ stored[r.d] = "absent"
  <2>1. UNCHANGED <<stored, paused, crossed, cut>>
    BY <1>4 DEF StoreEffect
  <2>2. PauseInv'
    BY <1>0, <1>1, <1>4, <2>1 DEF PauseInv
  <2>3. RemovedInv'
    BY <1>0, <1>1, <1>2, <1>4, <2>1 DEF RemovedInv
  <2> QED BY <2>2, <2>3
<1>5. CASE r.op = "remove" /\ stored[r.d] # "absent" /\ r.step = "store"
  <2>1. /\ stored' = [stored EXCEPT ![r.d] = "disabled"]
        /\ UNCHANGED <<paused, cut>>
        /\ crossed' = IF ApplyInFlight(r.d) THEN crossed \cup {r.d} ELSE crossed
    BY <1>5 DEF StoreEffect
  <2>2. PauseInv'
    BY <1>0, <1>1, <1>5, <2>1 DEF PauseInv
  <2>3. RemovedInv'
    BY <1>0, <1>1, <1>2, <1>5, <2>1 DEF RemovedInv
  <2> QED BY <2>2, <2>3
<1>6. CASE r.op = "remove" /\ stored[r.d] # "absent" /\ r.step = "final"
  <2>1. stored' = [stored EXCEPT ![r.d] = "absent"] /\ UNCHANGED <<paused, crossed, cut>>
    BY <1>6 DEF StoreEffect
  <2>2. PauseInv'
    BY <1>0, <1>1, <1>6, <2>1 DEF PauseInv
  <2>3. RemovedInv'
    BY <1>0, <1>1, <1>2, <1>6, <2>1 DEF RemovedInv
  <2> QED BY <2>2, <2>3
<1>7. CASE r.op = "resume"
  <2>1. paused' = FALSE /\ UNCHANGED <<stored, crossed, cut>>
    BY <1>7 DEF StoreEffect
  <2>2. PauseInv'
    BY <2>1 DEF PauseInv
  <2>3. RemovedInv'
    BY <1>0, <1>1, <1>2, <1>7, <2>1 DEF RemovedInv
  <2> QED BY <2>2, <2>3
<1>8. CASE r.op = "cleanup"
  <2>1. /\ paused' = TRUE /\ cut' = ends /\ UNCHANGED stored
        /\ crossed' = crossed \cup {d \in Defs : ApplyInFlight(d)}
    BY <1>8 DEF StoreEffect
  <2>2. PauseInv'
    BY <1>0, <1>1, <1>8, <2>1 DEF PauseInv
  <2>3. RemovedInv'
    BY <1>0, <1>1, <1>2, <1>8, <2>1 DEF RemovedInv
  <2> QED BY <2>2, <2>3
<1> QED BY <1>0, <1>3, <1>4, <1>5, <1>6, <1>7, <1>8 DEF Ops

-----------------------------------------------------------------------------
(* The steps.                                                              *)

\* A connection that moves keeps the shapes of all of them; nothing is left
\* of an exited process to move.
LEMMA MoveTypes ==
    ASSUME TypeOK, NEW c \in Clients, Busy(c) \/ late[c] # NoReq \/ phase # "exited",
           NEW n \in Requests, NEW l \in Requests,
           req' = [req EXCEPT ![c] = n], late' = [late EXCEPT ![c] = l],
           UNCHANGED <<replay, session, keep, phase>>,
           stored' \in [Defs -> {"absent", "disabled", "enabled"}],
           paused' \in BOOLEAN, crossed' \in SUBSET Defs, cut' \in BOOLEAN,
           live' \in [Defs -> {"no", "up", "lost", "stale"}]
    PROVE  /\ TypeOK'
           /\ req'[c] = n /\ late'[c] = l
           /\ \A b \in Clients \ {c} : req'[b] = req[b] /\ late'[b] = late[b]
<1>1. phase # "exited"
  BY DEF TypeOK
<1>2. req' \in [Clients -> Requests] /\ late' \in [Clients -> Requests]
  BY DEF TypeOK
<1>3. TypeOK'
  BY <1>1, <1>2 DEF TypeOK
<1>4. /\ req'[c] = n /\ late'[c] = l
      /\ \A b \in Clients \ {c} : req'[b] = req[b] /\ late'[b] = late[b]
  BY DEF TypeOK
<1> QED BY <1>3, <1>4

\* A store closure of a handler or a late one keeps the invariant.
LEMMA StoreInv ==
    ASSUME AlwaysOnInv, NEW c \in Clients, StoreStep(c) \/ StoreFails(c) \/ LateStore(c)
    PROVE  AlwaysOnInv'
<1> USE DEF AlwaysOnInv
<1>0. /\ req[c] \in Requests /\ late[c] \in Requests
      /\ req \in [Clients -> Requests] /\ late \in [Clients -> Requests]
      /\ stored \in [Defs -> {"absent", "disabled", "enabled"}]
      /\ paused \in BOOLEAN /\ crossed \in SUBSET Defs /\ cut \in BOOLEAN
      /\ live \in [Defs -> {"no", "up", "lost", "stale"}]
  BY DEF TypeOK
<1>1. req = [req EXCEPT ![c] = req[c]] /\ late = [late EXCEPT ![c] = late[c]]
  BY <1>0
<1>2. TRUE \in BOOLEAN /\ FALSE \in BOOLEAN
  OBVIOUS
<1>3. CASE StoreStep(c)
  <2> DEFINE n == AfterStore(req[c])
  <2>1. /\ req[c].step \in {"store", "final"} /\ Busy(c)
        /\ StoreEffect(req[c], FALSE)
        /\ req' = [req EXCEPT ![c] = n] /\ late' = late
        /\ UNCHANGED <<live, replay, session, keep, phase>>
    BY <1>3 DEF StoreStep, Busy
  <2>2. /\ n \in Requests
        /\ \A d \in Defs : Applies(late[c], d) => ApplyInFlight(d)
        /\ \A d \in Defs : Removes(late[c], d) => RemoveInFlight(d)
        /\ \A d \in Defs : Finishes(late[c], d) => Finishing(d)
    BY <1>0, <2>1, NextRequest DEF ApplyInFlight, RemoveInFlight, Removes, Finishing
  <2>3. /\ stored' \in [Defs -> {"absent", "disabled", "enabled"}]
        /\ paused' \in BOOLEAN /\ crossed' \in SUBSET Defs /\ cut' \in BOOLEAN
    BY <1>0, <1>2, <2>1, StoreTypes
  <2> HIDE DEF n
  <2>4. /\ TypeOK'
        /\ req'[c] = n /\ late'[c] = late[c]
        /\ \A b \in Clients \ {c} : req'[b] = req[b] /\ late'[b] = late[b]
    BY <1>0, <1>1, <2>1, <2>2, <2>3, MoveTypes
  <2>5. \A d \in Defs :
          /\ ApplyInFlight(d)' => ApplyInFlight(d) \/ Applies(n, d)
          /\ RemoveInFlight(d)' => RemoveInFlight(d) \/ Removes(n, d)
          /\ Finishing(d)' => Finishing(d) \/ Finishes(n, d)
    BY <2>2, <2>4, OnlyOneMoves
  <2>6. /\ CleanupPending => CleanupPending'
        /\ n.op = "cleanup" /\ n.step = "core" => CleanupPending'
    BY <2>1, <2>4 DEF CleanupPending
  <2>7. n = IF FALSE THEN NoReq ELSE AfterStore(req[c])
    BY DEF n
  <2>8. PauseInv' /\ RemovedInv'
    BY <1>2, <2>1, <2>5, <2>6, <2>7, StoreKeeps
  <2> QED BY <2>4, <2>8
<1>4. ASSUME NEW r \in {req[c], late[c]}, r.step \in {"store", "final"},
             NEW n \in Requests, NEW l \in Requests,
             req' = [req EXCEPT ![c] = n], late' = [late EXCEPT ![c] = l],
             \/ r = req[c] /\ n = NoReq /\ l = late[c]
             \/ r = late[c] /\ n = req[c] /\ l = NoReq,
             StoreEffect(r, TRUE) \/ UNCHANGED <<stored, paused, crossed, cut>>,
             UNCHANGED <<live, replay, session, keep, phase>>
      PROVE  AlwaysOnInv'
  <2>1. /\ Busy(c) \/ late[c] # NoReq
        /\ \A d \in Defs : Applies(n, d) \/ Applies(l, d) => ApplyInFlight(d)
        /\ \A d \in Defs : Removes(n, d) \/ Removes(l, d) => RemoveInFlight(d)
        /\ \A d \in Defs : Finishes(n, d) \/ Finishes(l, d) => Finishing(d)
    BY <1>4, IdleRequest DEF ApplyInFlight, RemoveInFlight, Removes, Finishing, Busy
  <2>2. r \in Requests
    BY <1>0
  <2>3. /\ stored' \in [Defs -> {"absent", "disabled", "enabled"}]
        /\ paused' \in BOOLEAN /\ crossed' \in SUBSET Defs /\ cut' \in BOOLEAN
    <3>1. CASE StoreEffect(r, TRUE)
      BY <1>2, <1>4, <2>2, <3>1, StoreTypes
    <3>2. CASE UNCHANGED <<stored, paused, crossed, cut>>
      BY <1>0, <3>2
    <3> QED BY <1>4, <3>1, <3>2
  <2>4. live' \in [Defs -> {"no", "up", "lost", "stale"}]
    BY <1>0, <1>4
  <2>5. /\ TypeOK'
        /\ req'[c] = n /\ late'[c] = l
        /\ \A b \in Clients \ {c} : req'[b] = req[b] /\ late'[b] = late[b]
    BY <1>4, <2>1, <2>3, <2>4, MoveTypes
  <2>6. \A d \in Defs : /\ ApplyInFlight(d)' => ApplyInFlight(d)
                        /\ RemoveInFlight(d)' => RemoveInFlight(d)
                        /\ Finishing(d)' => Finishing(d)
                        /\ Up(d)' = Up(d)
    <3>1. \A d \in Defs : Up(d)' = Up(d)
      BY <1>4 DEF Up
    <3> QED BY <2>1, <2>5, <3>1, OnlyOneMoves
  <2>7. CleanupPending => CleanupPending'
    BY <1>4, <2>5 DEF CleanupPending
  <2>8. PauseInv' /\ RemovedInv'
    <3>1. CASE StoreEffect(r, TRUE)
      <4>1. NoReq = IF TRUE THEN NoReq ELSE AfterStore(r)
        OBVIOUS
      <4>2. \A d \in Defs :
              /\ ApplyInFlight(d)' => ApplyInFlight(d) \/ Applies(NoReq, d)
              /\ RemoveInFlight(d)' => RemoveInFlight(d) \/ Removes(NoReq, d)
              /\ Finishing(d)' => Finishing(d) \/ Finishes(NoReq, d)
        BY <2>6
      <4>3. ~(NoReq.op = "cleanup" /\ NoReq.step = "core")
        BY IdleRequest
      <4> QED BY <1>2, <1>4, <2>7, <3>1, <4>1, <4>2, <4>3, StoreKeeps
    <3>2. CASE UNCHANGED <<stored, paused, crossed, cut>>
      BY <2>6, <2>7, <3>2, DocumentKept
    <3> QED BY <1>4, <3>1, <3>2
  <2> QED BY <2>5, <2>8
<1>5. CASE StoreFails(c)
  BY <1>0, <1>1, <1>4, <1>5, IdleRequest DEF StoreFails
<1>6. CASE LateStore(c)
  BY <1>0, <1>1, <1>4, <1>6, IdleRequest DEF LateStore
<1> QED BY <1>3, <1>5, <1>6

\* What one connection and the core do together: a step that leaves the
\* document alone, with the connection going to n and its late closure to l,
\* neither of which is new in flight.
LEMMA ConnectionMoves ==
    ASSUME AlwaysOnInv, NEW c \in Clients, Busy(c) \/ late[c] # NoReq \/ phase # "exited",
           NEW n \in Requests, NEW l \in Requests,
           req' = [req EXCEPT ![c] = n], late' = [late EXCEPT ![c] = l],
           UNCHANGED <<stored, paused, replay, session, keep, phase>>,
           crossed' \in SUBSET Defs, cut' \in BOOLEAN,
           live' \in [Defs -> {"no", "up", "lost", "stale"}],
           \A d \in Defs :
              /\ Applies(n, d) \/ Applies(l, d) => ApplyInFlight(d)
              /\ Removes(n, d) \/ Removes(l, d) => RemoveInFlight(d)
              /\ Finishes(n, d) \/ Finishes(l, d) => Finishing(d) \/ ~Up(d)'
              /\ Up(d)' => Up(d) \/ ApplyInFlight(d)
              /\ d \in crossed => \/ d \in crossed'
                                  \/ ~Up(d)' /\ ~ApplyInFlight(d) /\ ~RemoveInFlight(d),
           cut => cut',
           req[c].op = "cleanup" /\ req[c].step = "core"
              => \/ n.op = "cleanup" /\ n.step = "core"
                 \/ cut' \/ \A d \in Defs : ~Up(d)'
    PROVE  AlwaysOnInv'
<1>1. /\ stored' \in [Defs -> {"absent", "disabled", "enabled"}]
      /\ paused' \in BOOLEAN
  BY DEF AlwaysOnInv, TypeOK
<1>2. /\ TypeOK'
      /\ req'[c] = n /\ late'[c] = l
      /\ \A b \in Clients \ {c} : req'[b] = req[b] /\ late'[b] = late[b]
  BY <1>1, MoveTypes DEF AlwaysOnInv
<1>3. \A d \in Defs :
        /\ ApplyInFlight(d)' => ApplyInFlight(d)
        /\ RemoveInFlight(d)' => RemoveInFlight(d)
        /\ Finishing(d)' => Finishing(d) \/ ~Up(d)'
  BY <1>2, OnlyOneMoves
<1>4. (cut \/ CleanupPending) => cut' \/ CleanupPending' \/ \A d \in Defs : ~Up(d)'
  BY <1>2 DEF CleanupPending
<1>5. PauseInv' /\ RemovedInv'
  BY <1>3, <1>4, DocumentKept DEF AlwaysOnInv
<1> QED BY <1>2, <1>5 DEF AlwaysOnInv

\* What a step that leaves the connections alone keeps: it brings up only what
\* replay may bring up.
LEMMA DaemonMoves ==
    ASSUME AlwaysOnInv, TypeOK',
           UNCHANGED <<stored, paused, req, late, crossed, cut>>,
           \A d \in Defs : Up(d)' => Up(d) \/ d \in Replayable
    PROVE  AlwaysOnInv'
<1>1. \A d \in Defs :
        /\ ApplyInFlight(d)' => ApplyInFlight(d)
        /\ RemoveInFlight(d)' => RemoveInFlight(d)
        /\ Finishing(d)' => Finishing(d)
  BY DEF ApplyInFlight, Applies, RemoveInFlight, Finishing, Finishes
<1>2. CleanupPending => CleanupPending'
  BY DEF CleanupPending
<1>3. PauseInv' /\ RemovedInv'
  BY <1>1, <1>2, DocumentKept DEF AlwaysOnInv
<1> QED BY <1>3 DEF AlwaysOnInv

\* The facts about connection c that the steps below take from the invariant.
LEMMA Connection ==
    ASSUME AlwaysOnInv, NEW c \in Clients
    PROVE  /\ req[c] \in Requests /\ late[c] \in Requests
           /\ req = [req EXCEPT ![c] = req[c]] /\ late = [late EXCEPT ![c] = late[c]]
           /\ crossed \in SUBSET Defs /\ cut \in BOOLEAN
           /\ live \in [Defs -> {"no", "up", "lost", "stale"}]
           /\ \A d \in Defs : \A r \in {req[c], late[c]} :
                /\ Applies(r, d) => ApplyInFlight(d)
                /\ Removes(r, d) => RemoveInFlight(d)
                /\ Finishes(r, d) => Finishing(d)
<1>1. /\ req[c] \in Requests /\ late[c] \in Requests
      /\ req = [req EXCEPT ![c] = req[c]] /\ late = [late EXCEPT ![c] = late[c]]
      /\ crossed \in SUBSET Defs /\ cut \in BOOLEAN
      /\ live \in [Defs -> {"no", "up", "lost", "stale"}]
  BY DEF AlwaysOnInv, TypeOK
<1>2. \A d \in Defs : \A r \in {req[c], late[c]} :
        /\ Applies(r, d) => ApplyInFlight(d)
        /\ Removes(r, d) => RemoveInFlight(d)
        /\ Finishes(r, d) => Finishing(d)
  BY DEF ApplyInFlight, RemoveInFlight, Removes, Finishing
<1> QED BY <1>1, <1>2

\* A teardown leaves the shape and brings nothing up; of the owners it takes,
\* none is up after it.
LEMMA TornDown ==
    ASSUME TypeOK, NEW owners \in SUBSET Defs, NEW stuck \in SUBSET Defs,
           live' = Torn(owners, stuck)
    PROVE  /\ live' \in [Defs -> {"no", "up", "lost", "stale"}]
           /\ \A d \in Defs : Up(d)' => Up(d) /\ d \notin owners
BY DEF TypeOK, Torn, Up

\* An apply leaves the shape and brings up nothing else.
LEMMA AppliedOne ==
    ASSUME TypeOK, NEW d \in Defs, Apply(d)
    PROVE  /\ live' \in [Defs -> {"no", "up", "lost", "stale"}]
           /\ \A e \in Defs : Up(e)' => Up(e) \/ e = d
BY DEF TypeOK, Apply, Up

\* A request that starts, goes on to its next closure or is dropped by the
\* shut-down runtime keeps the invariant.
LEMMA HandlerInv ==
    ASSUME AlwaysOnInv, NEW c \in Clients,
           \/ \E op \in Ops, d \in Defs : Start(c, op, d)
           \/ Spawn(c) \/ DropHandler(c)
    PROVE  AlwaysOnInv'
<1>0. \A d \in Defs : live' = live => Up(d)' = Up(d)
  BY DEF Up
<1>1. ASSUME NEW op \in Ops, NEW d \in Defs, Start(c, op, d) PROVE AlwaysOnInv'
  <2> DEFINE n == [NoReq EXCEPT !.op = op, !.d = d, !.step = "store", !.queued = TRUE]
  <2>1. /\ n \in Requests
        /\ \A e \in Defs : ~Applies(n, e) /\ ~Removes(n, e) /\ ~Finishes(n, e)
    BY IdleRequest DEF Requests, Ops, Steps, Applies, Removes, Finishes
  <2>2. /\ req' = [req EXCEPT ![c] = n] /\ phase # "exited" /\ req[c].step = "idle"
        /\ UNCHANGED <<stored, paused, live, late, replay, session, keep, phase, crossed, cut>>
    BY <1>1 DEF Start, Busy
  <2> HIDE DEF n
  <2> QED BY <1>0, <2>1, <2>2, ConnectionMoves, Connection
<1>2. CASE Spawn(c)
  <2> DEFINE n == [req[c] EXCEPT !.queued = TRUE]
  <2>1. /\ n \in Requests /\ n.op = req[c].op /\ n.step = req[c].step
        /\ \A e \in Defs : /\ Applies(n, e) => Applies(req[c], e)
                           /\ Removes(n, e) => Removes(req[c], e)
                           /\ Finishes(n, e) => Finishes(req[c], e)
    BY Connection DEF Requests, Applies, Removes, Finishes
  <2>2. /\ req' = [req EXCEPT ![c] = n] /\ Busy(c)
        /\ UNCHANGED <<stored, paused, live, late, replay, session, keep, phase, crossed, cut>>
    BY <1>2 DEF Spawn
  <2> HIDE DEF n
  <2> QED BY <1>0, <2>1, <2>2, ConnectionMoves, Connection
<1>3. CASE DropHandler(c)
  <2>1. /\ req' = [req EXCEPT ![c] = NoReq] /\ Busy(c)
        /\ cut' = (cut \/ (req[c].op = "cleanup" /\ req[c].step = "core"))
        /\ UNCHANGED <<stored, paused, live, late, replay, session, keep, phase, crossed>>
    BY <1>3 DEF DropHandler, CutsOff
  <2>2. cut' \in BOOLEAN
    BY <2>1, Zenon
  <2>3. /\ cut => cut'
        /\ req[c].op = "cleanup" /\ req[c].step = "core" => cut'
    BY <2>1
  <2> QED BY <1>0, <2>1, <2>2, <2>3, ConnectionMoves, Connection, IdleRequest
<1> QED BY <1>1, <1>2, <1>3

\* The core closure of an enrolment or of one definition of a resume keeps it:
\* what it brings up was in flight.
LEMMA ApplyInv ==
    ASSUME AlwaysOnInv, NEW c \in Clients, NEW d \in Defs, ApplyStep(c, d)
    PROVE  AlwaysOnInv'
<1> DEFINE n == IF req[c].op = "resume" /\ req[c].todo # {d}
                THEN [req[c] EXCEPT !.todo = @ \ {d}, !.queued = FALSE] ELSE NoReq
<1>1. /\ n \in Requests /\ req[c].op # "cleanup"
      /\ \A e \in Defs : /\ Applies(n, e) => Applies(req[c], e)
                         /\ ~Removes(n, e) /\ ~Finishes(n, e)
  BY Connection, IdleRequest DEF ApplyStep, Requests, Applies, Removes, Finishes
<1>2. /\ req' = [req EXCEPT ![c] = n] /\ Busy(c) /\ Applies(req[c], d) /\ Apply(d)
      /\ UNCHANGED <<stored, paused, late, replay, session, keep, phase, crossed, cut>>
  BY DEF ApplyStep, Busy, Applies
<1> HIDE DEF n
<1>3. /\ live' \in [Defs -> {"no", "up", "lost", "stale"}]
      /\ \A e \in Defs : Up(e)' => Up(e) \/ e = d
  BY <1>2, AppliedOne DEF AlwaysOnInv
<1>4. \A e \in Defs : Up(e)' => Up(e) \/ ApplyInFlight(e)
  BY <1>2, <1>3, Connection
<1> QED BY <1>1, <1>2, <1>3, <1>4, ConnectionMoves, Connection

\* The core closure of a removal keeps it: when it goes on to drop the entry,
\* the owner is down.
LEMMA RemoveInv ==
    ASSUME AlwaysOnInv, NEW c \in Clients, RemoveStep(c)
    PROVE  AlwaysOnInv'
<1>0. /\ req[c] \in Requests /\ req[c].d \in Defs /\ req[c].op = "remove" /\ Busy(c)
      /\ Removes(req[c], req[c].d)
  BY Connection DEF RemoveStep, Requests, Busy, Removes
<1>1. UNCHANGED <<stored, paused, late, replay, session, keep, phase, crossed, cut>>
  BY DEF RemoveStep
<1>2. CASE /\ live' = [live EXCEPT ![req[c].d] = "no"]
           /\ req' = [req EXCEPT ![c].step = "final", ![c].queued = FALSE]
  <2> DEFINE n == [req[c] EXCEPT !.step = "final", !.queued = FALSE]
  <2>1. req' = [req EXCEPT ![c] = n]
    BY <1>2 DEF AlwaysOnInv, TypeOK
  <2>2. /\ n \in Requests
        /\ \A e \in Defs : /\ ~Applies(n, e)
                           /\ Removes(n, e) => e = req[c].d
                           /\ Finishes(n, e) => e = req[c].d
    BY <1>0 DEF Requests, Steps, Applies, Removes, Finishes
  <2> HIDE DEF n
  <2>3. /\ live' \in [Defs -> {"no", "up", "lost", "stale"}]
        /\ \A e \in Defs : Up(e)' => Up(e) /\ e # req[c].d
    BY <1>0, <1>2, Connection DEF Up
  <2>4. \A e \in Defs : Removes(n, e) => RemoveInFlight(e)
    BY <1>0, <2>2, Connection
  <2> QED BY <1>0, <1>1, <2>1, <2>2, <2>3, <2>4, ConnectionMoves, Connection
<1>3. CASE /\ live' = [live EXCEPT ![req[c].d] = "stale"]
           /\ req' = [req EXCEPT ![c] = NoReq]
  <2>1. /\ live' \in [Defs -> {"no", "up", "lost", "stale"}]
        /\ \A e \in Defs : Up(e)' => Up(e)
    BY <1>0, <1>3, Connection DEF Up
  <2> QED BY <1>0, <1>1, <1>3, <2>1, ConnectionMoves, Connection, IdleRequest
<1> QED BY <1>2, <1>3 DEF RemoveStep

\* The cleanup of "disconnect all" keeps it: nothing is up after it, so that
\* only crossings of what is still in flight matter on.
LEMMA CleanupInv ==
    ASSUME AlwaysOnInv, NEW c \in Clients, CleanupStep(c)
    PROVE  AlwaysOnInv'
<1>1. /\ req' = [req EXCEPT ![c] = NoReq] /\ Busy(c)
      /\ crossed' = {d \in crossed : ApplyInFlight(d) \/ RemoveInFlight(d)}
      /\ UNCHANGED <<stored, paused, late, replay, session, keep, phase, cut>>
      /\ \E stuck \in SUBSET Defs : live' = Torn(Defs, stuck)
  BY DEF CleanupStep, Busy
<1>2. /\ live' \in [Defs -> {"no", "up", "lost", "stale"}]
      /\ \A d \in Defs : ~Up(d)'
  BY <1>1, TornDown DEF AlwaysOnInv
<1>3. /\ crossed' \in SUBSET Defs
      /\ \A d \in crossed : d \in crossed' \/ (~ApplyInFlight(d) /\ ~RemoveInFlight(d))
  BY <1>1, Connection
<1> QED BY <1>1, <1>2, <1>3, ConnectionMoves, Connection, IdleRequest

\* The dispatch timeout keeps it: a pause that loses its cleanup is noted, and
\* a closure that lingers was in flight before.
LEMMA TimeoutInv ==
    ASSUME AlwaysOnInv, NEW c \in Clients, Timeout(c)
    PROVE  AlwaysOnInv'
<1> DEFINE l == IF req[c].queued THEN req[c] ELSE NoReq
<1>1. /\ req' = [req EXCEPT ![c] = NoReq] /\ late' = [late EXCEPT ![c] = l] /\ Busy(c)
      /\ cut' = (cut \/ req[c].op = "cleanup")
      /\ UNCHANGED <<stored, paused, live, replay, session, keep, phase, crossed>>
  BY DEF Timeout
<1>2. /\ l \in Requests
      /\ \A d \in Defs : /\ Applies(l, d) => ApplyInFlight(d)
                         /\ Removes(l, d) => RemoveInFlight(d)
                         /\ Finishes(l, d) => Finishing(d)
  BY Connection, IdleRequest
<1> HIDE DEF l
<1>3. cut' \in BOOLEAN
  BY <1>1, Zenon
<1>4. \A d \in Defs : Up(d)' = Up(d)
  BY <1>1 DEF Up
<1>5. /\ cut => cut'
      /\ req[c].op = "cleanup" => cut'
  BY <1>1
<1> QED BY <1>1, <1>2, <1>3, <1>4, <1>5, ConnectionMoves, Connection, IdleRequest

\* A core closure that outlived its handler keeps it: it tears down, or brings
\* up what was in flight.
LEMMA LateInv ==
    ASSUME AlwaysOnInv, NEW c \in Clients, LateCore(c)
    PROVE  AlwaysOnInv'
<1>0. /\ late[c] \in Requests /\ late[c].op \in Ops /\ late[c].d \in Defs
      /\ late[c].todo \in SUBSET Defs /\ late[c] # NoReq /\ late[c].step = "core"
  BY Connection, IdleRequest DEF LateCore, Requests
<1>1. /\ late' = [late EXCEPT ![c] = NoReq]
      /\ UNCHANGED <<stored, paused, req, replay, session, keep, phase, crossed, cut>>
  BY DEF LateCore
<1>2. /\ live' \in [Defs -> {"no", "up", "lost", "stale"}]
      /\ \A d \in Defs : Up(d)' => Up(d) \/ ApplyInFlight(d)
  <2>1. CASE late[c].op = "cleanup"
    <3>1. \E stuck \in SUBSET Defs : live' = Torn(Defs, stuck)
      BY <2>1 DEF LateCore
    <3> QED BY <3>1, TornDown DEF AlwaysOnInv
  <2>2. CASE late[c].op = "remove"
    <3>1. \E stuck \in SUBSET Defs : live' = Torn({late[c].d}, stuck)
      BY <2>2 DEF LateCore
    <3> QED BY <1>0, <3>1, TornDown DEF AlwaysOnInv
  <2>3. CASE late[c].op = "set"
    <3>1. Apply(late[c].d)
      BY <2>3 DEF LateCore
    <3>2. Applies(late[c], late[c].d)
      BY <1>0, <2>3 DEF Applies
    <3> QED BY <1>0, <3>1, <3>2, AppliedOne, Connection DEF AlwaysOnInv
  <2>4. CASE late[c].op = "resume"
    <3>1. PICK d \in late[c].todo : Apply(d)
      BY <2>4 DEF LateCore
    <3>2. Applies(late[c], d) /\ d \in Defs
      BY <1>0, <2>4 DEF Applies
    <3> QED BY <3>1, <3>2, AppliedOne, Connection DEF AlwaysOnInv
  <2> QED BY <1>0, <2>1, <2>2, <2>3, <2>4 DEF Ops
<1> QED BY <1>0, <1>1, <1>2, ConnectionMoves, Connection, IdleRequest

-----------------------------------------------------------------------------
(* Replay, the session watcher and the process.                            *)

\* Replay, flaps and the session cleanup keep the invariant: they bring up
\* only what is replayable.
LEMMA BackgroundInv ==
    ASSUME AlwaysOnInv,
           \/ ReplayTick \/ ReplayWork \/ \E d \in Defs : Flap(d)
           \/ SessionExpires \/ SessionRun
    PROVE  AlwaysOnInv'
<1>0. TypeOK /\ live \in [Defs -> {"no", "up", "lost", "stale"}]
  BY DEF AlwaysOnInv, TypeOK
<1>1. CASE ReplayTick \/ ReplayLockStore \/ ReplaySkips
  <2>1. /\ UNCHANGED <<stored, paused, live, req, late, session, keep, phase, crossed, cut>>
        /\ replay' \in {"off", "queued", "store"}
        /\ phase # "exited"
    BY <1>0, <1>1 DEF ReplayTick, ReplayLockStore, ReplaySkips, TypeOK
  <2>2. TypeOK'
    BY <1>0, <2>1 DEF TypeOK
  <2>3. \A d \in Defs : Up(d)' = Up(d)
    BY <2>1 DEF Up
  <2> QED BY <2>1, <2>2, <2>3, DaemonMoves
<1>2. ASSUME NEW works \in SUBSET Defs, NEW stuck \in SUBSET Defs, ReplayRun(works, stuck)
      PROVE  AlwaysOnInv'
  <2> DEFINE lost == {d \in Replayable : live[d] = "lost"}
             left == Torn(lost, stuck)
  <2>1. /\ UNCHANGED <<stored, paused, req, late, session, keep, phase, crossed, cut>>
        /\ replay' = "off" /\ phase # "exited"
        /\ live' = IF lost \cap stuck # {} THEN left
                   ELSE [d \in Defs |-> IF d \in Replayable \cap works /\ left[d] = "no"
                                        THEN "up" ELSE left[d]]
    BY <1>0, <1>2 DEF ReplayRun, TypeOK
  <2>2. /\ left \in [Defs -> {"no", "up", "lost", "stale"}]
        /\ \A d \in Defs : left[d] \in {"up", "lost"} => live[d] \in {"up", "lost"}
    BY <1>0 DEF Torn
  <2> HIDE DEF left, lost
  <2>3. /\ live' \in [Defs -> {"no", "up", "lost", "stale"}]
        /\ \A d \in Defs : Up(d)' => Up(d) \/ d \in Replayable
    BY <2>1, <2>2 DEF Up
  <2>4. TypeOK'
    BY <1>0, <2>1, <2>3 DEF TypeOK
  <2> QED BY <2>1, <2>3, <2>4, DaemonMoves
<1>3. ASSUME NEW d \in Defs, Flap(d) PROVE AlwaysOnInv'
  <2>1. /\ UNCHANGED <<stored, paused, req, late, replay, session, keep, phase, crossed, cut>>
        /\ live[d] = "up" /\ live' = [live EXCEPT ![d] = "lost"]
    BY <1>3 DEF Flap
  <2>2. /\ live' \in [Defs -> {"no", "up", "lost", "stale"}]
        /\ \A e \in Defs : Up(e)' => Up(e)
    BY <1>0, <2>1 DEF Up
  <2>3. TypeOK'
    BY <1>0, <2>1, <2>2 DEF TypeOK, Busy
  <2> QED BY <2>1, <2>2, <2>3, DaemonMoves
<1>4. CASE SessionExpires
  <2>1. /\ UNCHANGED <<stored, paused, live, req, late, replay, phase, crossed, cut>>
        /\ session' = "queued" /\ keep' \in SUBSET Defs /\ phase = "serving"
    BY <1>4 DEF SessionExpires, Replayable
  <2>2. TypeOK'
    BY <1>0, <2>1 DEF TypeOK
  <2>3. \A d \in Defs : Up(d)' = Up(d)
    BY <2>1 DEF Up
  <2> QED BY <2>1, <2>2, <2>3, DaemonMoves
<1>5. CASE SessionRun
  <2>1. /\ UNCHANGED <<stored, paused, req, late, replay, phase, crossed, cut>>
        /\ session' = "off" /\ keep' = {}
        /\ \E stuck \in SUBSET Defs : live' = Torn(Defs \ keep, stuck)
    BY <1>5 DEF SessionRun
  <2>2. /\ live' \in [Defs -> {"no", "up", "lost", "stale"}]
        /\ \A d \in Defs : Up(d)' => Up(d)
    BY <1>0, <2>1, TornDown
  <2>3. TypeOK'
    BY <1>0, <2>1, <2>2 DEF TypeOK, Busy
  <2> QED BY <2>1, <2>2, <2>3, DaemonMoves
<1> QED BY <1>1, <1>2, <1>3, <1>4, <1>5 DEF ReplayWork

\* Stopping and starting keep it: a handler that has paused the document and
\* is dropped with the runtime is noted, and a restart replays only what is
\* replayable.
LEMMA ProcessInv ==
    ASSUME AlwaysOnInv,
           \/ Sigterm \/ Stop
           \/ \E works, stuck \in SUBSET Defs : Restart(works, stuck)
    PROVE  AlwaysOnInv'
<1>0. /\ TypeOK /\ live \in [Defs -> {"no", "up", "lost", "stale"}]
      /\ req \in [Clients -> Requests] /\ cut \in BOOLEAN
  BY DEF AlwaysOnInv, TypeOK
<1>1. CASE Sigterm \/ Exit
  <2>1. /\ UNCHANGED <<stored, paused, live, req, late, replay, session, keep, crossed, cut>>
        /\ \/ phase' = "stopping"
           \/ /\ phase' = "exited" /\ replay = "off" /\ session = "off"
              /\ \A c \in Clients : ~Busy(c) /\ late[c] = NoReq
    BY <1>1 DEF Sigterm, Exit
  <2>2. TypeOK'
    BY <1>0, <2>1 DEF TypeOK, Busy
  <2>3. \A d \in Defs : Up(d)' = Up(d)
    BY <2>1 DEF Up
  <2> QED BY <2>1, <2>2, <2>3, DaemonMoves
<1>2. CASE Shutdown
  <2>1. /\ UNCHANGED <<stored, paused, req, late, replay, session, keep, crossed, cut>>
        /\ phase' = "swept"
        /\ \E stuck \in SUBSET Defs : live' = Torn(Defs, stuck)
    BY <1>2 DEF Shutdown
  <2>2. /\ live' \in [Defs -> {"no", "up", "lost", "stale"}]
        /\ \A d \in Defs : Up(d)' => Up(d)
    BY <1>0, <2>1, TornDown
  <2>3. TypeOK'
    BY <1>0, <2>1, <2>2 DEF TypeOK
  <2> QED BY <2>1, <2>2, <2>3, DaemonMoves
<1>3. CASE RunReturns
  <2>1. /\ UNCHANGED <<stored, paused, live, late, replay, session, keep, crossed>>
        /\ phase' = "returned"
        /\ req' = [c \in Clients |-> IF req[c].queued THEN req[c] ELSE NoReq]
        /\ cut' = (cut \/ \E c \in Clients : CutsOff(c))
    BY <1>3 DEF RunReturns
  <2>2. /\ req' \in [Clients -> Requests]
        /\ \A c \in Clients : req'[c] \in {req[c], NoReq}
        /\ \A c \in Clients : req[c].queued => req'[c] = req[c]
    BY <1>0, <2>1, IdleRequest
  <2>3. cut' \in BOOLEAN
    BY <1>0, <2>1, Zenon
  <2>4. TypeOK'
    BY <1>0, <2>1, <2>2, <2>3 DEF TypeOK
  <2>5. \A d \in Defs :
          /\ ApplyInFlight(d)' => ApplyInFlight(d)
          /\ RemoveInFlight(d)' => RemoveInFlight(d)
          /\ Finishing(d)' => Finishing(d)
          /\ Up(d)' = Up(d)
    <3>1. ASSUME NEW d \in Defs PROVE ApplyInFlight(d)' => ApplyInFlight(d)
      BY <2>1, <2>2, IdleRequest DEF ApplyInFlight, Applies
    <3>2. ASSUME NEW d \in Defs PROVE RemoveInFlight(d)' => RemoveInFlight(d)
      BY <2>1, <2>2, IdleRequest DEF RemoveInFlight
    <3>3. ASSUME NEW d \in Defs PROVE Finishing(d)' => Finishing(d)
      BY <2>1, <2>2, IdleRequest DEF Finishing, Finishes
    <3>4. \A d \in Defs : Up(d)' = Up(d)
      BY <2>1 DEF Up
    <3> QED BY <3>1, <3>2, <3>3, <3>4
  <2>6. cut \/ CleanupPending => cut' \/ CleanupPending'
    BY <2>1, <2>2 DEF CleanupPending, CutsOff
  <2>7. PauseInv' /\ RemovedInv'
    BY <2>1, <2>5, <2>6, DocumentKept DEF AlwaysOnInv
  <2> QED BY <2>4, <2>7 DEF AlwaysOnInv
<1>4. ASSUME NEW works \in SUBSET Defs, NEW stuck \in SUBSET Defs, Restart(works, stuck)
      PROVE  AlwaysOnInv'
  <2> DEFINE left == Torn(Defs, stuck)
  <2>1. /\ UNCHANGED <<stored, paused, req, late, replay, session, keep, crossed, cut>>
        /\ phase' = "serving"
        /\ live' = [d \in Defs |-> IF d \in Replayable \cap works /\ left[d] = "no"
                                   THEN "up" ELSE left[d]]
    BY <1>4 DEF Restart
  <2>2. /\ left \in [Defs -> {"no", "up", "lost", "stale"}]
        /\ \A d \in Defs : left[d] \notin {"up", "lost"}
    BY <1>0 DEF Torn
  <2> HIDE DEF left
  <2>3. /\ live' \in [Defs -> {"no", "up", "lost", "stale"}]
        /\ \A d \in Defs : Up(d)' => d \in Replayable
    BY <2>1, <2>2 DEF Up
  <2>4. TypeOK'
    BY <1>0, <2>1, <2>3 DEF TypeOK
  <2> QED BY <2>1, <2>3, <2>4, DaemonMoves
<1> QED BY <1>1, <1>2, <1>3, <1>4 DEF Stop

-----------------------------------------------------------------------------
\* Before the first request nothing is up and nothing in flight.
LEMMA InitialInv == Init => AlwaysOnInv
<1> SUFFICES ASSUME Init PROVE AlwaysOnInv
  OBVIOUS
<1>1. \A d \in Defs : ~Up(d) /\ ~ApplyInFlight(d) /\ ~RemoveInFlight(d) /\ ~Finishing(d)
  BY IdleRequest DEF Init, Up, ApplyInFlight, RemoveInFlight, Removes, Finishing
<1>2. TypeOK
  BY IdleRequest DEF Init, TypeOK
<1>3. PauseInv /\ RemovedInv
  BY <1>1 DEF Init, PauseInv, RemovedInv
<1> QED BY <1>2, <1>3 DEF AlwaysOnInv

\* The requests, the closures that outlive them, the daemon's own loops, its
\* shutdown and its restarts keep the invariant.
THEOREM AlwaysOnInvariant == Spec => []AlwaysOnInv
<1>1. Init => AlwaysOnInv
  BY InitialInv
<1>2. AlwaysOnInv /\ [Next]_vars => AlwaysOnInv'
  <2> SUFFICES ASSUME AlwaysOnInv, [Next]_vars PROVE AlwaysOnInv'
    OBVIOUS
  <2>1. CASE \E c \in Clients, op \in Ops, d \in Defs : Start(c, op, d)
    BY <2>1, HandlerInv
  <2>2. ASSUME NEW c \in Clients, Handler(c) PROVE AlwaysOnInv'
    BY <2>2, HandlerInv, StoreInv, ApplyInv, RemoveInv, CleanupInv, LateInv DEF Handler
  <2>3. CASE \E c \in Clients : Timeout(c)
    BY <2>3, TimeoutInv
  <2>4. CASE \/ ReplayTick \/ ReplayWork \/ \E d \in Defs : Flap(d)
             \/ SessionExpires \/ SessionRun
    BY <2>4, BackgroundInv
  <2>5. CASE \/ Sigterm \/ Stop
             \/ \E works, stuck \in SUBSET Defs : Restart(works, stuck)
    BY <2>5, ProcessInv
  <2>6. CASE UNCHANGED vars
    <3>1. UNCHANGED <<stored, paused, live, req, late, replay, session, keep, phase, crossed, cut>>
      BY <2>6 DEF vars
    <3>2. TypeOK'
      BY <3>1 DEF AlwaysOnInv, TypeOK, Busy
    <3>3. \A d \in Defs : Up(d)' = Up(d)
      BY <3>1 DEF Up
    <3> QED BY <3>1, <3>2, <3>3, DaemonMoves
  <2> QED BY <2>1, <2>2, <2>3, <2>4, <2>5, <2>6 DEF Next
<1> QED BY <1>1, <1>2, PTL DEF Spec

\* With nothing in flight a paused document has no owner up and a removed
\* definition is down, but for what a stop crossed or a cleanup that was cut
\* off: for any number of connections, slow or not, and of definitions, where
\* the run has one of each.
THEOREM PutDownStaysDown == Spec => []StaysDown
<1>1. AlwaysOnInv => StaysDown
  <2> SUFFICES ASSUME AlwaysOnInv PROVE StaysDown
    OBVIOUS
  <2>1. Quiet => ~CleanupPending
    BY DEF Quiet, CleanupPending, Busy
  <2>2. PauseHolds
    BY <2>1 DEF AlwaysOnInv, PauseInv, PauseHolds
  <2>3. RemovedStaysDown
    BY DEF AlwaysOnInv, RemovedInv, RemovedStaysDown
  <2> QED BY <2>2, <2>3 DEF StaysDown, AlwaysOnInv
<1> QED BY <1>1, AlwaysOnInvariant, PTL

-----------------------------------------------------------------------------
(* Sessions.  The tracker loses sight of a running client only when that   *)
(* got the number of a dead one not yet reaped, and a session expires only *)
(* after its full grace.  Neither is inductive by itself: that nobody else *)
(* is alive while the grace runs follows from the empty list of handles,   *)
(* that the list is complete from no process connecting before it is born, *)
(* and that the grace is full from the history counter never falling       *)
(* behind the armed one.                                                   *)

\* A fresh daemon tracks nobody and nobody is running unseen.
LEMMA InitSession == SessionInit => SessionInv
<1> SUFFICES ASSUME SessionInit PROVE SessionInv
  OBVIOUS
<1>1. Never \in 0..Never /\ Grace \in 0..Grace
  BY SessionAssumption DEF Never
<1>2. SessionTypeOK
  BY <1>1 DEF SessionInit, SessionTypeOK
<1>3. LiveTracked /\ Armed
  BY DEF SessionInit, LiveTracked, Armed, Alive, Running
<1> QED BY <1>2, <1>3 DEF SessionInv

\* Processes are born and die.
LEMMA LifeInv ==
  ASSUME SessionInv, NEW p \in Procs, Launch(p) \/ Die(p)
  PROVE  SessionInv'
<1> USE SessionAssumption DEF SessionInv, SessionTypeOK, Armed, Never
<1>1. SessionTypeOK'
  BY DEF Launch, Die
<1>2. LiveTracked'
  BY DEF Launch, Die, LiveTracked, Alive, Running
<1>3. Armed'
  BY DEF Launch, Die, Running
<1> QED BY <1>1, <1>2, <1>3

\* A connection: a handle with the same number is the handle of that process,
\* or of one that has to be gone.
LEMMA ConnectInv ==
  ASSUME SessionInv, NEW p \in Procs, Connect(p)
  PROVE  SessionInv'
<1> USE SessionAssumption DEF SessionInv, SessionTypeOK, Armed, Never
<1>1. p \in pidfds' \cup missed' /\ pidfds \subseteq pidfds' /\ missed \subseteq missed' \cup {p}
  BY DEF Connect, Track
<1>6. \A q \in pidfds \ {p} : PidOf[q] = PidOf[p] => life[q] = "gone"
  BY DEF Connect, Running
<1>2. pidfds' \subseteq met'
  BY DEF Connect, Track
<1>3. SessionTypeOK'
  BY <1>2 DEF Connect, Track, Running
<1>4. LiveTracked'
  <2>1. (Alive \subseteq pidfds \cup missed)'
    BY <1>1 DEF Connect, LiveTracked, Alive, Running
  <2>2. ASSUME NEW a \in missed'
        PROVE  \E q \in met' \ {a} : life[q] = "gone" /\ PidOf[q] = PidOf[a]
    <3>1. CASE a \in missed
      BY <3>1 DEF Connect, LiveTracked
    <3>2. CASE a \notin missed
      BY <1>6, <2>2, <3>2 DEF Connect
    <3> QED BY <3>1, <3>2
  <2> QED BY <2>1, <2>2 DEF Connect, LiveTracked
<1>5. Armed'
  BY DEF Connect, Track, Running
<1> QED BY <1>3, <1>4, <1>5

\* Requests, and the cleanup.
LEMMA TunnelInv ==
  ASSUME SessionInv, (\E p \in Procs : Ask(p) \/ Serve(p)) \/ Cleanup
  PROVE  SessionInv'
  BY SessionAssumption
     DEF SessionInv, SessionTypeOK, LiveTracked, Armed, Alive, Running, Never, Ask, Serve, Cleanup

\* Time passes: while a grace is armed nobody tracked is alive, so both
\* counters move.
LEMMA TickInv ==
  ASSUME SessionInv, Tick
  PROVE  SessionInv'
<1> USE SessionAssumption DEF SessionInv, SessionTypeOK, Never
<1>1. deadFor # Never => Alive \subseteq missed
  BY DEF Armed, LiveTracked
<1>2. SessionTypeOK'
  BY DEF Tick
<1>3. LiveTracked'
  BY DEF Tick, LiveTracked, Alive, Running
<1>4. Armed'
  BY <1>1 DEF Tick, Armed, Running
<1> QED BY <1>2, <1>3, <1>4

\* The watcher looks: only dead processes are dropped.
LEMMA ExpiredInv ==
  ASSUME SessionInv, Expired
  PROVE  SessionInv'
<1> USE SessionAssumption DEF SessionInv, SessionTypeOK, Never
<1>1. SessionTypeOK'
  <2>1. known' \in BOOLEAN /\ cleanup' \in BOOLEAN
    BY Zenon DEF Expired
  <2>2. pidfds' \in SUBSET met'
    BY DEF Expired
  <2>3. deadFor' \in 0..Never
    BY DEF Expired
  <2>4. ~known' => pidfds' = {} /\ deadFor' = Never
    BY DEF Expired
  <2> QED BY <2>1, <2>2, <2>3, <2>4 DEF Expired
<1>2. LiveTracked'
  BY DEF Expired, LiveTracked, Alive, Running
<1>3. Armed'
  BY DEF Expired, Armed, Running
<1> QED BY <1>1, <1>2, <1>3

\* Every step of the clients, the requests and the watcher keeps the invariant.
LEMMA SessionStep == SessionInv /\ [SessionNext]_sessionVars => SessionInv'
<1> SUFFICES ASSUME SessionInv, [SessionNext]_sessionVars
             PROVE  SessionInv'
  OBVIOUS
<1>1. ASSUME NEW p \in Procs, Launch(p) \/ Die(p) PROVE SessionInv'
  BY <1>1, LifeInv
<1>2. ASSUME NEW p \in Procs, Connect(p) PROVE SessionInv'
  BY <1>2, ConnectInv
<1>3. ASSUME NEW p \in Procs, Ask(p) \/ Serve(p) PROVE SessionInv'
  BY <1>3, TunnelInv
<1>4. CASE Tick
  BY <1>4, TickInv
<1>5. CASE Expired
  BY <1>5, ExpiredInv
<1>6. CASE Cleanup
  BY <1>6, TunnelInv
<1>7. CASE UNCHANGED sessionVars
  BY <1>7 DEF sessionVars, SessionInv, SessionTypeOK, LiveTracked, Armed, Alive, Running, Never
<1> QED BY <1>1, <1>2, <1>3, <1>4, <1>5, <1>6, <1>7 DEF SessionNext

\* The inductive invariant, for any processes and any grace.
THEOREM SessionInvariant == SessionSpec => []SessionInv
BY InitSession, SessionStep, PTL DEF SessionSpec

\* ClientTracker::track: the tracker holds the handle of every running client,
\* but for one that has the number of a dead client not reaped when it connected.
THEOREM NoClientOverlooked == SessionSpec => []LiveTracked
<1>1. SessionInv => LiveTracked
  BY DEF SessionInv
<1> QED BY <1>1, SessionInvariant, PTL

\* ClientTracker::expired: a session expires only when nobody has been alive
\* for the whole grace, but for the clients a recycled number hides.
THEOREM GraceIsFull == SessionSpec => FullGrace
<1>1. ASSUME SessionInv, SessionNext, ~cleanup, cleanup'
      PROVE  Alive \subseteq missed /\ silent >= Grace
  <2> USE SessionAssumption, <1>1 DEF SessionInv, SessionTypeOK, Never
  <2>1. Expired
    BY DEF SessionNext, Launch, Die, Connect, Ask, Serve, Tick, Cleanup
  <2>2. pidfds \cap Running = {} /\ (deadFor = Never => Grace = 0) /\ (deadFor # Never => deadFor >= Grace)
    BY <2>1 DEF Expired
  <2>3. Alive \subseteq missed
    BY <2>2 DEF LiveTracked, Alive
  <2>4. silent >= Grace
    BY <2>2 DEF Armed
  <2> QED BY <2>3, <2>4
<1>2. SessionInv /\ [SessionNext]_sessionVars =>
         [~cleanup /\ cleanup' => Alive \subseteq missed /\ silent >= Grace]_sessionVars
  BY <1>1 DEF sessionVars
<1> QED BY <1>2, SessionInvariant, PTL DEF SessionSpec, FullGrace

-----------------------------------------------------------------------------
(* Conditional rules.  Each file is one somebody has created.  When no     *)
(* saves overlap there is one at most, whose step tells what the temporary *)
(* file is; when they do, every document in play differs from the stored   *)
(* one in the rules that the overlapping requests change and in no others. *)

Labels  == Saving \cup {"idle", "rules", "addrs", "seen", "core", "inside"}
Files   == [doc : Documents, writer : Editors \cup {NoOne, Loop}]
Owned   == [state : {"applied", "stale"}, route : Routes]
Carried == [doc : Documents, rule : Rules \cup {NoOne}, addrs : SUBSET Links, seen : SUBSET Routes]

\* The store: no file of rules is one that was never written.
StoreShapes ==
    /\ file \in Files /\ file.writer # Loop
    /\ temp \in Files /\ (temp.writer = Loop => temp = NoFile)
    /\ acked \in [Rules -> SUBSET (Specs \cup {NoRule})]

\* The evaluators: the core is held by the one inside.
EvalShapes ==
    /\ pc \in [Evaluators -> Labels] /\ my \in [Evaluators -> Carried]
    /\ holder \in Evaluators \cup {NoOne} /\ todo \subseteq Rules
    /\ \A e \in Evaluators : (holder = e) <=> (pc[e] = "inside")
    /\ todo # {} <=> holder # NoOne

NetShapes ==
    /\ entries \in [Rules -> {NoEntry} \cup Owned]
    /\ kernel \in [Dests -> Links \cup {0, -1}] /\ addrs \subseteq Links

CondInv == StoreShapes /\ EvalShapes /\ NetShapes

\* A save that overlaps no other: its step tells what the temporary file is,
\* and the document it carries differs from the file in its own rule alone.
Alone(c) ==
    /\ pc[c] = "create" => temp = NoFile
    /\ pc[c] = "write"  => temp = File(my[c].doc, c)
    /\ pc[c] = "rename" => temp = File(my[c].doc, NoOne)
    /\ \A r \in Rules \ {my[c].rule} : my[c].doc[r] = file.doc[r]

\* Saves that overlap.
Overlapping ==
    /\ \A c \in Savers : /\ my[c].rule \in mixed
                         /\ \A r \in Rules \ mixed : my[c].doc[r] = file.doc[r]
    /\ temp # NoFile /\ (\E c \in Savers : pc[c] # "unlink") =>
          \A r \in Rules \ mixed : temp.doc[r] = file.doc[r]

SaveInv ==
    /\ \A r \in Rules : acked[r] \subseteq {file.doc[r]}
    /\ mixed = {} => /\ file.writer = NoOne
                     /\ \A c, d \in Savers : c = d
                     /\ \A c \in Savers : Alone(c)
    /\ mixed # {} => Overlapping

\* The lowest of some interface indices is one of them.
LEMMA LowestLink ==
    ASSUME NEW S \in SUBSET Links, S # {}
    PROVE  Min(S) \in Links
<1>1. S \subseteq Nat
    BY CondAssumption
<1>2. \E i \in S : \A j \in S : ~ (<<j, i>> \in OpToRel(<, Nat))
    BY <1>1, NatLessThanWellFounded, WFMin
<1>3. \E i \in S : \A j \in S : ~ (<<j, i>> \in {p \in Nat \X Nat : p[1] < p[2]})
    BY <1>2, Zenon DEF OpToRel
<1>4. PICK i \in S : \A j \in S : ~ (<<j, i>> \in {p \in Nat \X Nat : p[1] < p[2]})
    BY <1>3
<1>5. ASSUME NEW j \in S PROVE i <= j
    <2>1. i \in Nat /\ j \in Nat BY <1>1
    <2>2. ~ (<<j, i>> \in {p \in Nat \X Nat : p[1] < p[2]}) BY <1>4
    <2> QED BY <2>1, <2>2
<1>6. Min(S) \in S BY <1>5 DEF Min
<1> QED BY <1>6

\* What an evaluator at rest carries, and the shapes of the documents.
LEMMA RestShapes ==
    /\ Empty \in Documents /\ Rest \in Carried /\ NoFile \in Files
    /\ NoFile.writer = Loop /\ NoFile.doc = Empty
    /\ \A d \in Documents, w \in Editors \cup {NoOne, Loop} :
          File(d, w) \in Files /\ File(d, w).writer = w /\ File(d, w).doc = d
<1>1. Empty \in Documents BY DEF Empty, Documents
<1>2. Rest \in Carried BY <1>1 DEF Rest, Carried
<1>3. \A d \in Documents, w \in Editors \cup {NoOne, Loop} :
          File(d, w) \in Files /\ File(d, w).writer = w /\ File(d, w).doc = d
    BY DEF File, Files
<1> QED BY <1>1, <1>2, <1>3 DEF NoFile

\* An evaluator outside the core moves to another place outside it.
LEMMA EvaluatorMoves ==
    ASSUME EvalShapes, NEW e \in Evaluators, NEW l \in Labels \ {"inside"}, NEW x \in Carried,
           pc[e] # "inside", pc' = [pc EXCEPT ![e] = l], my' = [my EXCEPT ![e] = x],
           UNCHANGED <<holder, todo>>
    PROVE  EvalShapes'
<1>1. pc' \in [Evaluators -> Labels] /\ my' \in [Evaluators -> Carried] BY DEF EvalShapes
<1>2. \A f \in Evaluators : (holder = f) <=> (pc'[f] = "inside") BY DEF EvalShapes
<1> QED BY <1>1, <1>2 DEF EvalShapes

\* Leaving what it carries as it is.
LEMMA Unmoved ==
    ASSUME EvalShapes, NEW e \in Evaluators
    PROVE  my[e] \in Carried /\ my = [my EXCEPT ![e] = my[e]]
BY DEF EvalShapes

\* The start.
LEMMA CondStart == CondInit => CondInv /\ SaveInv
<1> SUFFICES ASSUME CondInit PROVE CondInv /\ SaveInv OBVIOUS
<1> USE DEF CondInit
<1>1. StoreShapes
    <2>1. NoOne # Loop BY CondAssumption
    <2> QED BY <2>1, RestShapes DEF StoreShapes
<1>2. EvalShapes
    <2>1. pc \in [Evaluators -> Labels] /\ my \in [Evaluators -> Carried]
        BY RestShapes DEF Labels
    <2>2. \A e \in Evaluators : pc[e] = "idle" /\ e # NoOne
        BY CondAssumption DEF Evaluators
    <2> QED BY <2>1, <2>2 DEF EvalShapes
<1>3. NetShapes BY DEF NetShapes
<1>4. SaveInv
    <2>1. \A c \in Editors : pc[c] = "idle" BY DEF Evaluators
    <2> QED BY <2>1, RestShapes DEF SaveInv, Savers, Saving
<1> QED BY <1>1, <1>2, <1>3, <1>4 DEF CondInv

\* A document with one rule changed.
LEMMA ChangedDocument ==
    ASSUME NEW d \in Documents, NEW r \in Rules, NEW s \in Specs \cup {NoRule}
    PROVE  /\ [d EXCEPT ![r] = s] \in Documents
           /\ [Rest EXCEPT !.doc = [d EXCEPT ![r] = s], !.rule = r] \in Carried
           /\ [Rest EXCEPT !.doc = [d EXCEPT ![r] = s], !.rule = r].rule = r
           /\ [Rest EXCEPT !.doc = [d EXCEPT ![r] = s], !.rule = r].doc = [d EXCEPT ![r] = s]
<1> DEFINE n == [d EXCEPT ![r] = s]
           x == [Rest EXCEPT !.doc = n, !.rule = r]
<1>1. n \in Documents BY DEF Documents
<1> HIDE DEF n
<1>2. x \in Carried /\ x.rule = r /\ x.doc = n BY <1>1, RestShapes DEF Carried
<1> QED BY <1>1, <1>2 DEF n

\* A step that leaves the store and every save under way alone.
LEMMA SaveUntouched ==
    ASSUME SaveInv, UNCHANGED <<file, temp, acked, mixed>>,
           \A c \in Editors : pc'[c] \in Saving => pc'[c] = pc[c] /\ my'[c] = my[c]
    PROVE  SaveInv'
<1>1. Savers' \subseteq Savers /\ \A c \in Savers' : pc'[c] = pc[c] /\ my'[c] = my[c] BY DEF Savers
<1>2. \A c \in Savers' : Alone(c) => Alone(c)' BY <1>1 DEF Alone, File
<1>3. Overlapping => Overlapping' BY <1>1 DEF Overlapping, NoFile, File, Empty
<1> QED BY <1>1, <1>2, <1>3 DEF SaveInv

\* A request reads the document and works on a copy of it.
LEMMA RequestInv ==
    ASSUME CondInv, NEW c \in Editors, NEW r \in Rules, NEW s \in Specs \cup {NoRule}, Request(c, r, s)
    PROVE  CondInv' /\ (SaveInv => SaveInv')
<1> DEFINE d == [file.doc EXCEPT ![r] = s]
           x == [Rest EXCEPT !.doc = d, !.rule = r]
<1>0. /\ pc[c] = "idle"
      /\ \/ pc' = [pc EXCEPT ![c] = "rules"] /\ my' = my /\ mixed' = mixed
         \/ /\ pc' = [pc EXCEPT ![c] = "unlink"] /\ my' = [my EXCEPT ![c] = x]
            /\ Whole
            /\ mixed' = IF Savers = {} THEN {}
                        ELSE mixed \cup {r} \cup {my[a].rule : a \in Savers}
      /\ UNCHANGED <<file, temp, entries, kernel, addrs, holder, todo, acked>>
    BY DEF Request, store, net, Goto
<1>1. file.doc \in Documents /\ c \in Evaluators BY DEF CondInv, StoreShapes, Files, Evaluators
<1>2. d \in Documents /\ x \in Carried /\ x.rule = r /\ x.doc = d BY <1>1, ChangedDocument
<1>3. \A q \in Rules \ {r} : d[q] = file.doc[q] BY <1>1 DEF Documents
<1> HIDE DEF d, x
<1>4. StoreShapes' BY <1>0 DEF CondInv, StoreShapes
<1>5. NetShapes' BY <1>0 DEF CondInv, NetShapes
<1>6. EvalShapes'
    <2>1. "rules" \in Labels \ {"inside"} /\ "unlink" \in Labels \ {"inside"} BY DEF Labels, Saving
    <2>2. EvalShapes /\ my[c] \in Carried /\ my = [my EXCEPT ![c] = my[c]]
        BY <1>1, Unmoved DEF CondInv
    <2>3. CASE pc' = [pc EXCEPT ![c] = "rules"] /\ my' = my
        BY <1>0, <1>1, <2>1, <2>2, <2>3, EvaluatorMoves
    <2>4. CASE pc' = [pc EXCEPT ![c] = "unlink"] /\ my' = [my EXCEPT ![c] = x]
        BY <1>0, <1>1, <1>2, <2>1, <2>2, <2>4, EvaluatorMoves
    <2> QED BY <1>0, <2>3, <2>4
<1>7. ASSUME SaveInv PROVE SaveInv'
    <2>1. /\ pc \in [Evaluators -> Labels] /\ my \in [Evaluators -> Carried] BY DEF CondInv, EvalShapes
    <2>2. \A a \in Editors : a # c => pc'[a] = pc[a] /\ my'[a] = my[a]
        BY <1>0, <2>1 DEF Evaluators
    <2>3. c \notin Savers BY <1>0 DEF Savers, Saving
    <2>4. CASE pc' = [pc EXCEPT ![c] = "rules"] /\ mixed' = mixed
        <3>1. pc'[c] = "rules" BY <1>1, <2>1, <2>4
        <3>2. \A a \in Editors : pc'[a] \in Saving => pc'[a] = pc[a] /\ my'[a] = my[a]
            BY <2>2, <3>1 DEF Saving
        <3> QED BY <1>0, <1>7, <2>4, <3>2, SaveUntouched
    <2>5. CASE /\ pc' = [pc EXCEPT ![c] = "unlink"] /\ my' = [my EXCEPT ![c] = x]
               /\ Whole
               /\ mixed' = IF Savers = {} THEN {}
                           ELSE mixed \cup {r} \cup {my[a].rule : a \in Savers}
        <3>1. pc'[c] = "unlink" /\ my'[c].rule = r /\ my'[c].doc = d BY <1>1, <1>2, <2>1, <2>5
        <3>2. Savers' = Savers \cup {c} BY <2>2, <3>1 DEF Savers, Saving
        <3>3. \A a \in Savers : a # c /\ pc'[a] = pc[a] /\ my'[a] = my[a] BY <2>2, <2>3 DEF Savers
        <3>4. CASE Savers = {}
            <4>1. mixed' = {} /\ file'.writer = NoOne /\ Savers' = {c}
                BY <1>0, <2>5, <3>2, <3>4 DEF Whole
            <4>2. Alone(c)' BY <1>0, <1>3, <3>1 DEF Alone, File
            <4> QED BY <1>0, <1>7, <4>1, <4>2 DEF SaveInv
        <3>5. CASE Savers # {}
            <4>1. mixed' = mixed \cup {r} \cup {my[a].rule : a \in Savers} BY <2>5, <3>5
            <4>2. /\ mixed' # {} /\ mixed \subseteq mixed' /\ r \in mixed'
                  /\ \A a \in Savers : my[a].rule \in mixed'
                BY <4>1
            <4>3. ASSUME NEW a \in Savers
                  PROVE  \A q \in Rules \ mixed' : my[a].doc[q] = file.doc[q]
                BY <1>7, <4>2 DEF SaveInv, Alone, Overlapping
            <4>4. \A q \in Rules \ mixed' : d[q] = file.doc[q] BY <1>3, <4>2
            <4>5. ASSUME temp # NoFile, NEW a \in Savers, pc[a] # "unlink"
                  PROVE  \A q \in Rules \ mixed' : temp.doc[q] = file.doc[q]
                <5>1. CASE mixed = {}
                    <6>1. temp.doc = my[a].doc
                        BY <1>7, <4>5, <5>1 DEF SaveInv, Alone, Savers, Saving, File
                    <6> QED BY <4>3, <6>1
                <5>2. CASE mixed # {} BY <1>7, <4>2, <4>5, <5>2 DEF SaveInv, Overlapping
                <5> QED BY <5>1, <5>2
            <4>6. Overlapping'
                <5>1. ASSUME NEW a \in Savers'
                      PROVE  /\ my'[a].rule \in mixed'
                             /\ \A q \in Rules \ mixed' : my'[a].doc[q] = file'.doc[q]
                    <6>1. CASE a = c BY <1>0, <3>1, <4>2, <4>4, <6>1
                    <6>2. CASE a # c BY <1>0, <3>2, <3>3, <4>2, <4>3, <5>1, <6>2
                    <6> QED BY <6>1, <6>2
                <5>2. ASSUME temp' # NoFile, NEW a \in Savers', pc'[a] # "unlink"
                      PROVE  \A q \in Rules \ mixed' : temp'.doc[q] = file'.doc[q]
                    BY <1>0, <3>1, <3>2, <3>3, <4>5, <5>2
                <5> QED BY <5>1, <5>2 DEF Overlapping, NoFile, File, Empty
            <4> QED BY <1>0, <1>7, <4>2, <4>6 DEF SaveInv
        <3> QED BY <3>4, <3>5
    <2> QED BY <1>0, <2>4, <2>5
<1> QED BY <1>4, <1>5, <1>6, <1>7 DEF CondInv

\* The steps of a save and how each may end, with everything they change.
Moved(c) ==
    \/ /\ pc[c] = "unlink" /\ pc' = [pc EXCEPT ![c] = "create"]
       /\ temp' = NoFile /\ UNCHANGED <<file, my, acked>>
    \/ /\ pc[c] = "create" /\ temp = NoFile /\ pc' = [pc EXCEPT ![c] = "write"]
       /\ temp' = File(my[c].doc, c) /\ UNCHANGED <<file, my, acked>>
    \/ /\ pc[c] = "write" /\ pc' = [pc EXCEPT ![c] = "rename"]
       /\ temp' = Written(temp, c) /\ file' = Written(file, c) /\ UNCHANGED <<my, acked>>
    \/ /\ pc[c] = "rename" /\ temp # NoFile /\ pc' = [pc EXCEPT ![c] = "rules"]
       /\ my' = [my EXCEPT ![c] = Rest] /\ file' = temp /\ temp' = NoFile
       /\ acked' = [r \in Rules |-> IF r \in mixed THEN {}
                                    ELSE IF r # my[c].rule THEN acked[r] ELSE {my[c].doc[r]}]
    \/ /\ pc[c] = "rename" /\ temp # NoFile
       /\ pc' = [pc EXCEPT ![c] = "idle"] /\ my' = [my EXCEPT ![c] = Rest]
       /\ file' = temp /\ temp' = NoFile
       /\ acked' = [r \in Rules |-> IF r \in mixed THEN {}
                                    ELSE IF r # my[c].rule THEN acked[r] ELSE {}]
    \/ /\ pc[c] \in Saving /\ pc' = [pc EXCEPT ![c] = "idle"] /\ my' = [my EXCEPT ![c] = Rest]
       /\ UNCHANGED <<file, temp, acked>>

\* There is no other.
LEMMA SaveMoves ==
    ASSUME NEW c \in Editors, SaveStep(c)
    PROVE  UNCHANGED <<entries, kernel, addrs, holder, todo>> /\ Moved(c)
<1>1. UNCHANGED <<entries, kernel, addrs, holder, todo>> BY DEF SaveStep, net
<1>2. ASSUME Unlink(c) PROVE Moved(c) BY <1>2 DEF Unlink, Goto, Moved
<1>3. ASSUME Create(c) PROVE Moved(c) BY <1>3 DEF Create, Goto, Quit, Saving, Moved
<1>4. ASSUME NEW ok \in BOOLEAN, Write(c, ok) PROVE Moved(c)
    BY <1>1, <1>4 DEF Write, Goto, Quit, store, Saving, Moved
<1>5. ASSUME NEW ok \in BOOLEAN, Rename(c, ok) PROVE Moved(c)
    BY <1>1, <1>5 DEF Rename, Goto, Quit, store, Saving, Moved
<1> QED BY <1>1, <1>2, <1>3, <1>4, <1>5 DEF SaveStep

\* A save keeps the shapes, with any number of editors at work.
LEMMA SaveShapesInv ==
    ASSUME CondInv, NEW c \in Editors, SaveStep(c)
    PROVE  CondInv'
<1>1. UNCHANGED <<entries, kernel, addrs, holder, todo>> /\ Moved(c) BY SaveMoves
<1>2. c \in Evaluators BY DEF Evaluators
<1>3. /\ EvalShapes /\ my[c] \in Carried /\ my = [my EXCEPT ![c] = my[c]]
    BY <1>2, Unmoved DEF CondInv
<1>4. my[c].doc \in Documents BY <1>3 DEF Carried
<1>5. NetShapes' BY <1>1 DEF CondInv, NetShapes
<1>6. EvalShapes'
    <2>1. PICK l \in Labels \ {"inside"}, x \in Carried :
             pc[c] # "inside" /\ pc' = [pc EXCEPT ![c] = l] /\ my' = [my EXCEPT ![c] = x]
        <3>1. {"create", "write", "rename", "rules", "idle"} \subseteq Labels \ {"inside"}
            BY DEF Labels, Saving
        <3>2. "inside" \notin Saving BY DEF Saving
        <3> QED BY <1>1, <1>3, <3>1, <3>2, RestShapes DEF Moved
    <2> QED BY <1>1, <1>2, <1>3, <2>1, EvaluatorMoves
<1>7. /\ file \in Files /\ file.writer # Loop
      /\ temp \in Files /\ (temp.writer = Loop => temp = NoFile)
      /\ acked \in [Rules -> SUBSET (Specs \cup {NoRule})]
    BY DEF CondInv, StoreShapes
<1>8. c # Loop /\ NoOne # Loop BY CondAssumption
<1>9. ASSUME NEW f \in Files, f.writer = Loop => f = NoFile
      PROVE  /\ Written(f, c) \in Files
             /\ Written(f, c).writer = Loop => f.writer = Loop /\ Written(f, c) = f
    <2>1. f.doc \in Documents BY DEF Files
    <2> QED BY <1>8, <1>9, <2>1, RestShapes DEF Written
<1>10. acked' \in [Rules -> SUBSET (Specs \cup {NoRule})]
    <2>1. my[c].rule \in Rules => my[c].doc[my[c].rule] \in Specs \cup {NoRule}
        BY <1>4 DEF Documents
    <2> QED BY <1>1, <1>7, <2>1 DEF Moved
<1>11. StoreShapes'
    <2>1. File(my[c].doc, c) \in Files /\ File(my[c].doc, c).writer = c BY <1>4, RestShapes
    <2>2. NoFile \in Files BY RestShapes
    <2>3. /\ Written(file, c) \in Files /\ Written(file, c).writer # Loop
        BY <1>7, <1>9
    <2>4. /\ Written(temp, c) \in Files /\ (Written(temp, c).writer = Loop => Written(temp, c) = NoFile)
        BY <1>7, <1>9
    <2>5. file' \in {file, Written(file, c)} \/ (file' = temp /\ temp # NoFile)
        BY <1>1 DEF Moved
    <2>6. temp' \in {temp, NoFile, File(my[c].doc, c), Written(temp, c)} BY <1>1 DEF Moved
    <2>7. file' \in Files /\ file'.writer # Loop BY <1>7, <2>3, <2>5
    <2>8. temp' \in Files /\ (temp'.writer = Loop => temp' = NoFile) BY <1>7, <1>8, <2>1, <2>2, <2>4, <2>6
    <2> QED BY <1>10, <2>7, <2>8 DEF StoreShapes
<1> QED BY <1>5, <1>6, <1>11 DEF CondInv

\* A step of a save puts a document in the file's place that agrees with it
\* but for the rule saved, or the rules that are mixed, and loses no
\* acknowledged change of another.
LEMMA SaveKeeps ==
    ASSUME CondInv, SaveInv, NEW c \in Editors, SaveStep(c)
    PROVE  SaveInv'
<1>1. Moved(c) /\ mixed' = IF Savers' = {} /\ Whole' THEN {} ELSE mixed
    BY SaveMoves DEF SaveStep, Overlap
<1>2. c \in Evaluators BY DEF Evaluators
<1>3. /\ pc \in [Evaluators -> Labels] /\ my \in [Evaluators -> Carried]
      /\ acked \in [Rules -> SUBSET (Specs \cup {NoRule})]
      /\ c # NoOne /\ c # Loop
    BY CondAssumption DEF CondInv, EvalShapes, StoreShapes
<1>4. c \in Savers BY <1>1 DEF Moved, Savers, Saving
<1>5. \A a \in Editors \ {c} : pc'[a] = pc[a] /\ my'[a] = my[a]
    BY <1>1, <1>2, <1>3 DEF Moved, Evaluators
<1>6. pc'[c] \in Saving => my'[c] = my[c]
    BY <1>1, <1>2, <1>3 DEF Moved, Saving
<1>7. Savers' \subseteq Savers /\ \A a \in Savers' : my'[a] = my[a]
    BY <1>4, <1>5, <1>6 DEF Savers
<1>8. \/ file'.doc = file.doc /\ acked' = acked
      \/ /\ pc[c] = "rename" /\ temp # NoFile /\ file' = temp
         /\ \A r \in Rules : /\ r \in mixed => acked'[r] = {}
                             /\ r \notin mixed /\ r # my[c].rule => acked'[r] = acked[r]
                             /\ r = my[c].rule => acked'[r] \subseteq {my[c].doc[r]}
    BY <1>1 DEF Moved, Written, File
<1>9. CASE mixed = {}
    <2>1. /\ file.writer = NoOne
          /\ \A a \in Savers : a = c
          /\ Alone(c)
        BY <1>4, <1>9 DEF SaveInv
    <2>2. File(my[c].doc, NoOne).doc = my[c].doc /\ File(my[c].doc, NoOne).writer = NoOne
        BY DEF File
    <2>3. \A r \in Rules : acked'[r] \subseteq {file'.doc[r]}
        BY <1>8, <1>9, <2>1, <2>2 DEF SaveInv, Alone
    <2>4. file'.writer = NoOne
        BY <1>1, <1>3, <2>1, <2>2 DEF Moved, Written, Alone
    <2>5. ASSUME NEW a \in Savers' PROVE Alone(a)'
        <3>1. a = c /\ my'[c] = my[c] BY <1>7, <2>1
        <3>2. pc'[c] \in Saving BY <3>1 DEF Savers
        <3>3. /\ pc'[c] = "create" => temp' = NoFile
              /\ pc'[c] = "write"  => temp' = File(my[c].doc, c)
              /\ pc'[c] = "rename" => temp' = File(my[c].doc, NoOne)
            BY <1>1, <1>2, <1>3, <2>1, <3>2 DEF Moved, Alone, Written, File, Saving
        <3>4. file' = file
            BY <1>1, <1>2, <1>3, <2>1, <3>2 DEF Moved, Written, Saving
        <3> QED BY <2>1, <3>1, <3>3, <3>4 DEF Alone, File
    <2>6. \A a, b \in Savers' : a = b BY <1>7, <2>1
    <2>7. mixed' = {} BY <1>1, <1>9
    <2> QED BY <2>3, <2>4, <2>5, <2>6, <2>7 DEF SaveInv
<1>10. CASE mixed # {}
    <2>1. Overlapping BY <1>10 DEF SaveInv
    <2>2. my[c].rule \in mixed BY <1>4, <2>1 DEF Overlapping
    <2>3. \A r \in Rules \ mixed : file'.doc[r] = file.doc[r]
        BY <1>4, <1>8, <2>1 DEF Overlapping
    <2>4. \A r \in Rules : acked'[r] \subseteq {file'.doc[r]}
        <3>1. ASSUME NEW r \in Rules PROVE acked'[r] \subseteq {file'.doc[r]}
            <4>1. acked[r] \subseteq {file.doc[r]} BY DEF SaveInv
            <4>2. CASE file'.doc = file.doc /\ acked' = acked BY <4>1, <4>2
            <4>3. CASE acked'[r] = {} BY <4>3
            <4>4. CASE r \notin mixed /\ acked'[r] = acked[r] BY <2>3, <4>1, <4>4
            <4> QED BY <1>8, <2>2, <4>2, <4>3, <4>4
        <3> QED BY <3>1
    <2>5. CASE mixed' = mixed
        <3>1. ASSUME NEW a \in Savers'
              PROVE  /\ my'[a].rule \in mixed'
                     /\ \A r \in Rules \ mixed' : my'[a].doc[r] = file'.doc[r]
            BY <1>7, <2>1, <2>3, <2>5 DEF Overlapping
        <3>2. ASSUME temp' # NoFile, NEW a \in Savers', pc'[a] # "unlink", NEW r \in Rules \ mixed
              PROVE  temp'.doc[r] = file'.doc[r]
            <4>1. CASE temp' = File(my[c].doc, c)
                BY <1>4, <2>1, <2>3, <4>1 DEF Overlapping, File
            <4>2. CASE temp' = Written(temp, c) /\ pc[c] = "write"
                <5>1. temp # NoFile /\ temp'.doc = temp.doc
                    BY <1>3, <3>2, <4>2 DEF Written, File, NoFile
                <5> QED BY <1>4, <2>1, <2>3, <4>2, <5>1 DEF Overlapping
            <4>3. CASE temp' = temp /\ pc'[c] = "idle"
                <5>1. a # c BY <3>2, <4>3 DEF Savers, Saving
                <5>2. a \in Savers /\ pc[a] # "unlink" BY <1>5, <1>7, <3>2, <5>1 DEF Savers
                <5> QED BY <2>1, <2>3, <3>2, <4>3, <5>2 DEF Overlapping
            <4> QED BY <1>1, <1>2, <1>3, <3>2, <4>1, <4>2, <4>3 DEF Moved
        <3>3. Overlapping' BY <2>5, <3>1, <3>2 DEF Overlapping, NoFile, File, Empty
        <3> QED BY <1>10, <2>4, <2>5, <3>3 DEF SaveInv
    <2>6. CASE mixed' = {} /\ Savers' = {} /\ Whole' BY <2>4, <2>6 DEF SaveInv, Whole
    <2> QED BY <1>1, <2>5, <2>6
<1> QED BY <1>9, <1>10

\* One evaluator moves to a place outside a save.
LEMMA SaveAside ==
    ASSUME CondInv, SaveInv, UNCHANGED <<file, temp, acked, mixed>>, NEW e \in Evaluators,
           NEW l, l \notin Saving, pc' = [pc EXCEPT ![e] = l],
           \A a \in Evaluators \ {e} : my'[a] = my[a]
    PROVE  SaveInv'
<1>1. pc \in [Evaluators -> Labels] BY DEF CondInv, EvalShapes
<1>2. \A c \in Editors : c \in Evaluators BY DEF Evaluators
<1>3. \A c \in Editors : pc'[c] \in Saving => pc'[c] = pc[c] /\ my'[c] = my[c] BY <1>1, <1>2
<1> QED BY <1>3, SaveUntouched

\* The three readings of an evaluation, or its end when one fails.
LEMMA ReadInv ==
    ASSUME CondInv, NEW e \in Evaluators, NEW ok \in BOOLEAN, Read(e, ok),
           UNCHANGED <<file, temp, addrs, acked, mixed>>
    PROVE  CondInv' /\ (SaveInv => SaveInv')
<1>1. my[e] \in Carried /\ EvalShapes /\ addrs \subseteq Links /\ file.doc \in Documents
    BY Unmoved DEF CondInv, NetShapes, StoreShapes, Files
<1>2. PICK l \in {"addrs", "seen", "core", "idle"}, x \in Carried :
         /\ pc[e] # "inside"
         /\ pc' = [pc EXCEPT ![e] = l] /\ my' = [my EXCEPT ![e] = x]
    <2>1. CASE ReadRules(e)
        <3> DEFINE d == IF Whole THEN file.doc ELSE Empty
                   x == [Rest EXCEPT !.doc = d]
        <3>1. d \in Documents BY <1>1, RestShapes
        <3>2. pc[e] # "inside" /\ pc' = [pc EXCEPT ![e] = "addrs"] /\ my' = [my EXCEPT ![e] = x]
            BY <2>1 DEF ReadRules, Begins, Goto
        <3> HIDE DEF d
        <3>3. x \in Carried BY <3>1, RestShapes DEF Carried
        <3> HIDE DEF x
        <3> QED BY <3>2, <3>3
    <2>2. CASE ReadAddrs(e)
        <3> DEFINE x == [my[e] EXCEPT !.addrs = addrs]
        <3>1. pc[e] = "addrs" /\ pc' = [pc EXCEPT ![e] = "seen"] /\ my' = [my EXCEPT ![e] = x]
            BY <2>2 DEF ReadAddrs, Goto
        <3>2. x \in Carried BY <1>1 DEF Carried
        <3> HIDE DEF x
        <3> QED BY <3>1, <3>2
    <2>3. CASE ReadRoutes(e)
        <3> DEFINE W == {w \in Routes : kernel[w.dest] = w.link}
                   x == [my[e] EXCEPT !.seen = W]
        <3>1. pc[e] = "seen" /\ pc' = [pc EXCEPT ![e] = "core"] /\ my' = [my EXCEPT ![e] = x]
            BY <2>3 DEF ReadRoutes, Goto
        <3>2. W \subseteq Routes OBVIOUS
        <3> HIDE DEF W
        <3>3. x \in Carried BY <1>1, <3>2 DEF Carried
        <3> HIDE DEF x
        <3> QED BY <3>1, <3>3
    <2>4. CASE (Begins(e) \/ pc[e] \in {"addrs", "seen"}) /\ Quit(e)
        BY <2>4, RestShapes DEF Begins, Quit, Goto
    <2> QED BY <2>1, <2>2, <2>3, <2>4 DEF Read
<1>3. UNCHANGED <<entries, kernel, holder, todo>> BY DEF Read, net
<1>4. l \in Labels \ {"inside"} /\ l \notin Saving BY DEF Labels, Saving
<1>5. EvalShapes' BY <1>1, <1>2, <1>3, <1>4, EvaluatorMoves
<1>6. StoreShapes' BY DEF CondInv, StoreShapes
<1>7. NetShapes' BY <1>3 DEF CondInv, NetShapes
<1>8. SaveInv => SaveInv'
    <2>1. my \in [Evaluators -> Carried] BY <1>1 DEF EvalShapes
    <2>2. \A a \in Evaluators \ {e} : my'[a] = my[a] BY <1>2, <2>1
    <2> QED BY <1>2, <1>4, <2>2, SaveAside
<1> QED BY <1>5, <1>6, <1>7, <1>8 DEF CondInv

\* The core is taken, kept, or given back when nothing is left to do.
LEMMA HoldInv ==
    ASSUME CondInv, NEW e \in Evaluators, Hold(e), todo' \subseteq Rules, holder \in {NoOne, e},
           UNCHANGED <<file, temp, addrs, acked, mixed>>
    PROVE  EvalShapes' /\ (SaveInv => SaveInv')
<1>1. EvalShapes /\ \A f \in Evaluators : f # NoOne BY CondAssumption DEF CondInv, Evaluators
<1>2. "inside" \in Labels /\ "idle" \in Labels /\ "inside" \notin Saving /\ "idle" \notin Saving
    BY DEF Labels, Saving
<1>3. PICK l \in {"inside", "idle"}, x \in Carried :
         /\ pc' = [pc EXCEPT ![e] = l] /\ my' = [my EXCEPT ![e] = x]
         /\ holder' = IF l = "inside" THEN e ELSE NoOne
         /\ l = "inside" <=> todo' # {}
    <2>1. CASE todo' = {} BY <2>1, RestShapes DEF Hold, Quit, Goto
    <2>2. CASE todo' # {} BY <1>1, <2>2, Unmoved DEF Hold, Goto
    <2> QED BY <2>1, <2>2
<1>4. pc' \in [Evaluators -> Labels] /\ my' \in [Evaluators -> Carried]
    BY <1>1, <1>2, <1>3 DEF EvalShapes
<1>5. \A f \in Evaluators : (holder' = f) <=> (pc'[f] = "inside")
    BY <1>1, <1>3 DEF EvalShapes
<1>6. EvalShapes' BY <1>1, <1>3, <1>4, <1>5 DEF EvalShapes
<1>7. \A a \in Evaluators \ {e} : my'[a] = my[a] BY <1>1, <1>3 DEF EvalShapes
<1>8. SaveInv => SaveInv' BY <1>2, <1>3, <1>7, SaveAside
<1> QED BY <1>6, <1>8

\* The evaluation begins its work in the core.
LEMMA CoreInv ==
    ASSUME CondInv, NEW e \in Evaluators, Enter(e), UNCHANGED <<file, temp, addrs, acked, mixed>>
    PROVE  CondInv' /\ (SaveInv => SaveInv')
<1>1. StoreShapes' BY DEF CondInv, StoreShapes
<1>2. NetShapes' BY DEF CondInv, NetShapes, Enter, net
<1>3. todo' \subseteq Rules /\ holder = NoOne /\ Hold(e) BY DEF Enter, Orphans
<1> QED BY <1>1, <1>2, <1>3, HoldInv DEF CondInv

\* The table without the route of an entry.
LEMMA WithoutShapes ==
    ASSUME NetShapes, NEW r \in Rules
    PROVE  /\ Without(r) \in [Dests -> Links \cup {0, -1}]
           /\ entries[r] # NoEntry => entries[r] \in Owned
BY DEF NetShapes, Without

\* Withdrawing an owner keeps the shapes; only one that has an entry fails.
LEMMA WithdrawnShapes ==
    ASSUME NetShapes, NEW r \in Rules, NEW ok \in BOOLEAN, Withdrawn(r, ok),
           ok \/ entries[r] # NoEntry, addrs' = addrs
    PROVE  NetShapes'
<1>1. CASE ok
    <2>1. kernel' = Without(r) /\ entries' = [entries EXCEPT ![r] = NoEntry]
        BY <1>1 DEF Withdrawn
    <2> QED BY <2>1, WithoutShapes DEF NetShapes
<1>2. CASE ~ok
    <2>1. entries' = [entries EXCEPT ![r] = [entries[r] EXCEPT !.state = "stale"]] /\ kernel' = kernel
        BY <1>2 DEF Withdrawn
    <2>2. [entries[r] EXCEPT !.state = "stale"] \in Owned BY <1>2, WithoutShapes DEF Owned
    <2> QED BY <2>1, <2>2 DEF NetShapes
<1> QED BY <1>1, <1>2

\* Installing a route keeps them.
LEMMA InstalledShapes ==
    ASSUME NetShapes, NEW r \in Rules, NEW w \in Routes, NEW how, Installed(r, w, how), addrs' = addrs
    PROVE  NetShapes'
<1>1. CASE how = "kept"
    <2>1. entries[r] # NoEntry /\ Withdrawn(r, FALSE) BY <1>1 DEF Installed
    <2> QED BY <2>1, WithdrawnShapes
<1>2. CASE how # "kept"
    <2> DEFINE free == Without(r)[w.dest] = 0 /\ how = "done"
               e == [state |-> "applied", route |-> w]
    <2>1. /\ kernel' = IF free THEN [Without(r) EXCEPT ![w.dest] = w.link] ELSE Without(r)
          /\ entries' = [entries EXCEPT ![r] = IF free THEN e ELSE NoEntry]
        BY <1>2 DEF Installed
    <2>2. e \in Owned BY DEF Owned
    <2>3. w.dest \in Dests /\ w.link \in Links BY DEF Routes
    <2>4. Without(r) \in [Dests -> Links \cup {0, -1}] BY WithoutShapes
    <2> HIDE DEF free, e
    <2>5. kernel' \in [Dests -> Links \cup {0, -1}] BY <2>1, <2>3, <2>4
    <2>6. entries' \in [Rules -> {NoEntry} \cup Owned] BY <2>1, <2>2 DEF NetShapes
    <2> QED BY <2>5, <2>6 DEF NetShapes
<1> QED BY <1>1, <1>2

\* What a rule wants is a route over a link that meets its condition.
LEMMA DesiredRoutes ==
    ASSUME EvalShapes, NEW e \in Evaluators, NEW r \in Rules
    PROVE  Desired(e, r) \subseteq Routes
<1>1. my[e].doc \in Documents /\ my[e].addrs \in SUBSET Links BY DEF EvalShapes, Carried
<1>2. CASE my[e].doc[r].on /\ my[e].addrs # {}
    <2>1. my[e].doc[r] \in Specs BY <1>1, <1>2 DEF Documents, NoRule
    <2>2. my[e].doc[r].dest \in Dests BY <2>1 DEF Specs
    <2>3. Min(my[e].addrs) \in Links BY <1>1, <1>2, LowestLink
    <2> QED BY <1>2, <2>2, <2>3 DEF Desired, Routes
<1>3. CASE ~(my[e].doc[r].on /\ my[e].addrs # {}) BY <1>3 DEF Desired
<1> QED BY <1>2, <1>3

\* One rule is looked at.
LEMMA ItemInv ==
    ASSUME CondInv, NEW e \in Evaluators, NEW r \in Rules, NEW how, Item(e, r, how),
           UNCHANGED <<file, temp, addrs, acked, mixed>>
    PROVE  CondInv' /\ (SaveInv => SaveInv')
<1>0. holder = e /\ todo' = todo \ {r} /\ Hold(e) BY DEF Item
<1>1. StoreShapes' BY DEF CondInv, StoreShapes
<1>2. todo' \subseteq Rules BY <1>0 DEF CondInv, EvalShapes
<1>3. EvalShapes' /\ (SaveInv => SaveInv') BY <1>0, <1>2, HoldInv
<1>4. NetShapes /\ EvalShapes BY DEF CondInv
<1>5. NetShapes'
    <2>1. CASE Desired(e, r) = {} /\ entries[r] # NoEntry /\ Withdrawn(r, how = "done")
        <3> DEFINE ok == how = "done"
        <3>1. ok \in BOOLEAN OBVIOUS
        <3>2. Withdrawn(r, ok) BY <2>1
        <3> HIDE DEF ok
        <3> QED BY <1>4, <2>1, <3>1, <3>2, WithdrawnShapes
    <2>2. CASE \E w \in Desired(e, r) : Installed(r, w, how)
        <3>1. PICK w \in Routes : Installed(r, w, how) BY <1>4, <2>2, DesiredRoutes
        <3> QED BY <1>4, <3>1, InstalledShapes
    <2>3. CASE UNCHANGED <<entries, kernel>> BY <1>4, <2>3 DEF NetShapes
    <2> QED BY <2>1, <2>2, <2>3 DEF Item, net
<1> QED BY <1>1, <1>3, <1>5 DEF CondInv

\* One step of an evaluation.
LEMMA EvalStepInv ==
    ASSUME CondInv, NEW e \in Evaluators, EvalStep(e)
    PROVE  CondInv' /\ (SaveInv => SaveInv')
<1>1. UNCHANGED <<file, temp, addrs, acked, mixed>> BY DEF EvalStep, store
<1>2. CASE Enter(e) BY <1>1, <1>2, CoreInv
<1>3. CASE \E ok \in BOOLEAN : Read(e, ok) BY <1>1, <1>3, ReadInv
<1>4. CASE \E r \in Rules, how \in {"done", "kept", "refused"} : Item(e, r, how)
    BY <1>1, <1>4, ItemInv
<1> QED BY <1>2, <1>3, <1>4 DEF EvalStep

\* A teardown of every owner keeps the shapes.
LEMMA TeardownShapes ==
    ASSUME NetShapes, NEW left, Teardown(left), addrs' = addrs
    PROVE  NetShapes'
<1>1. \A r \in left : r \in Rules /\ entries[r] # NoEntry BY DEF Teardown
<1>2. \A r \in left : [entries[r] EXCEPT !.state = "stale"] \in Owned
    BY <1>1, WithoutShapes DEF Owned
<1>3. entries' \in [Rules -> {NoEntry} \cup Owned]
    BY <1>2 DEF Teardown
<1>4. kernel' \in [Dests -> Links \cup {0, -1}]
    <2>1. kernel \in [Dests -> Links \cup {0, -1}] BY DEF NetShapes
    <2> QED BY <2>1 DEF Teardown
<1> QED BY <1>3, <1>4 DEF NetShapes

\* Cleanup, a crash, and changes of the network.
LEMMA WorldInv ==
    ASSUME CondInv, World
    PROVE  CondInv' /\ (SaveInv => SaveInv')
<1>1. ASSUME NEW left, CleanupUid(left) PROVE CondInv' /\ (SaveInv => SaveInv')
    <2>1. Teardown(left) /\ UNCHANGED <<file, temp, addrs, pc, my, holder, todo, acked, mixed>>
        BY <1>1 DEF CleanupUid, store
    <2>2. NetShapes' BY <2>1, TeardownShapes DEF CondInv
    <2>3. StoreShapes' /\ EvalShapes' BY <2>1 DEF CondInv, StoreShapes, EvalShapes
    <2>4. SaveInv => SaveInv' BY <2>1, SaveUntouched
    <2> QED BY <2>2, <2>3, <2>4 DEF CondInv
<1>2. ASSUME NEW left, Crash(left) PROVE CondInv' /\ (SaveInv => SaveInv')
    <2>1. /\ Teardown(left) /\ UNCHANGED <<file, temp, addrs, acked>>
          /\ mixed' = IF Savers' = {} /\ Whole' THEN {} ELSE mixed
          /\ pc' = [e \in Evaluators |-> "idle"] /\ my' = [e \in Evaluators |-> Rest]
          /\ holder' = NoOne /\ todo' = {}
        BY <1>2 DEF Crash, store, Overlap
    <2>2. NetShapes' BY <2>1, TeardownShapes DEF CondInv
    <2>3. StoreShapes' BY <2>1 DEF CondInv, StoreShapes
    <2>4. \A e \in Evaluators : e # NoOne /\ pc'[e] = "idle" BY <2>1, CondAssumption DEF Evaluators
    <2>5. pc' \in [Evaluators -> Labels] /\ my' \in [Evaluators -> Carried]
        BY <2>1, RestShapes DEF Labels
    <2>6. EvalShapes' BY <2>1, <2>4, <2>5 DEF EvalShapes
    <2>7. ASSUME SaveInv PROVE SaveInv'
        <3>1. Savers' = {} BY <2>4 DEF Evaluators, Savers, Saving
        <3>2. mixed = {} => file.writer = NoOne BY <2>7 DEF SaveInv
        <3>3. mixed' # {} => mixed' = mixed BY <2>1
        <3>4. mixed' = {} => file'.writer = NoOne BY <2>1, <3>2 DEF Whole
        <3>5. Overlapping' BY <3>1 DEF Overlapping
        <3> QED BY <2>1, <2>7, <3>1, <3>4, <3>5 DEF SaveInv
    <2> QED BY <2>2, <2>3, <2>6, <2>7 DEF CondInv
<1>3. ASSUME NetChanges PROVE CondInv' /\ (SaveInv => SaveInv')
    <2>1. UNCHANGED <<file, temp, entries, pc, my, holder, todo, acked, mixed>> BY <1>3 DEF NetChanges, store
    <2>2. StoreShapes' /\ EvalShapes' BY <2>1 DEF CondInv, StoreShapes, EvalShapes
    <2>3. kernel \in [Dests -> Links \cup {0, -1}] /\ addrs \subseteq Links BY DEF CondInv, NetShapes
    <2>4. addrs' \subseteq Links BY <1>3, <2>3 DEF NetChanges
    <2>5. kernel' \in [Dests -> Links \cup {0, -1}]
        BY <1>3, <2>3 DEF NetChanges
    <2>6. NetShapes' BY <2>1, <2>4, <2>5 DEF CondInv, NetShapes
    <2>7. SaveInv => SaveInv' BY <2>1, SaveUntouched
    <2> QED BY <2>2, <2>6, <2>7 DEF CondInv
<1> QED BY <1>1, <1>2, <1>3 DEF World

\* Every step of the specification.
LEMMA CondStep ==
    ASSUME CondInv, [CondNext]_condVars
    PROVE  CondInv' /\ (SaveInv => SaveInv')
<1>1. CASE \E c \in Editors : SaveStep(c) BY <1>1, SaveShapesInv, SaveKeeps
<1>2. CASE \E e \in Evaluators : EvalStep(e) BY <1>2, EvalStepInv
<1>4. CASE Edits BY <1>4, RequestInv DEF Edits
<1>5. CASE World BY <1>5, WorldInv
<1>6. CASE UNCHANGED condVars
    <2>1. UNCHANGED <<file, temp, entries, kernel, addrs, pc, my, holder, todo, acked, mixed>>
        BY <1>6 DEF condVars, store, net
    <2>2. SaveInv => SaveInv' BY <2>1, SaveUntouched
    <2>3. CondInv' BY <2>1 DEF CondInv, StoreShapes, EvalShapes, NetShapes
    <2> QED BY <2>2, <2>3
<1> QED BY <1>1, <1>2, <1>4, <1>5, <1>6 DEF CondNext

\* However many connections edit the rules and whatever evaluations overlap,
\* the core is held by the evaluator that is inside it and by no other, and
\* entries, documents and tables keep their shapes.
THEOREM CondTypes == CondSpec => []CondTypeOK
<1>1. CondInv => CondTypeOK
    <2> SUFFICES ASSUME CondInv PROVE CondTypeOK OBVIOUS
    <2>1. /\ file.doc \in Documents /\ file.writer \in Editors \cup {NoOne}
          /\ temp.doc \in Documents /\ temp.writer \in Editors \cup {NoOne, Loop}
        BY DEF CondInv, StoreShapes, Files
    <2>2. \A r \in Rules : entries[r] = NoEntry
                           \/ entries[r] \in [state : {"applied", "stale"}, route : Routes]
        BY DEF CondInv, NetShapes, Owned
    <2> QED BY <2>1, <2>2 DEF CondInv, NetShapes, EvalShapes, CondTypeOK
<1> QED BY <1>1, CondStart, CondStep, PTL DEF CondSpec

\* With any number of connections, rules, destinations and links: after any
\* failure or crash the stored file is a whole document unless saves overlap,
\* and it has every acknowledged change of a rule that no overlapping requests
\* change.
THEOREM RulesAreStored == CondSpec => []StoreSound
<1>1. SaveInv => SavedWhole
    BY DEF SaveInv, SavedWhole, Whole
<1>2. CondInv /\ SaveInv /\ [CondNext]_condVars => CondInv' /\ SaveInv' BY CondStep
<1>3. CondSpec => [](CondInv /\ SaveInv) BY <1>2, CondStart, PTL DEF CondSpec
<1> QED BY <1>1, <1>3, CondTypes, PTL DEF StoreSound
=============================================================================
