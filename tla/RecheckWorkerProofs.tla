------------------------ MODULE RecheckWorkerProofs -------------------------
(***************************************************************************)
(* Theorems about the recheck worker, for every set of requests and routes *)
(* and every bound: what it probes it has claimed, requests are claimed in *)
(* the order they were queued, only aborted passes strand a request, and a *)
(* leg is left alone for the whole cooldown.                               *)
(*                                                                         *)
(* None of these is inductive.  They rest on QueueInv: how the dates of a  *)
(* row go with its status, that a leg has one pending request, and what    *)
(* the pass holds in hand.                                                 *)
(***************************************************************************)
EXTENDS RecheckWorker, ProjectionProofs, FiniteSetTheorems

-----------------------------------------------------------------------------
(* The inductive invariant.                                                *)

(* A request is dated as far as it got; no date lies ahead of the clock,   *)
(* and no start ahead of the pass.                                         *)
RowIsDated(row) ==
    /\ row.requestedAt <= now
    /\ row.status = "pending" => row.startedAt = None /\ row.finishedAt = None
    /\ row.status # "pending" => row.startedAt \in Nat /\ row.startedAt <= passAt
    /\ row.status = "running" => row.finishedAt = None
    /\ row.status \in Finished => row.finishedAt \in Nat /\ row.finishedAt <= now

RowsAreDated ==
    \A q \in EventIds : requests[q] # None => RowIsDated(requests[q])

(* Requests for a leg that is already queued have collapsed.               *)
OnePendingPerRoute ==
    \A p, q \in EventIds :
        /\ requests[p] # None /\ requests[p].status = "pending"
        /\ requests[q] # None /\ requests[q].status = "pending"
        /\ requests[p].route = requests[q].route
        => p = q

(* What the pass holds in hand: nothing between passes, the oldest pending *)
(* request while it sweeps, and while it probes the request it claimed.    *)
PassInHand ==
    /\ pc \in {"idle", "down"} => head = None
    /\ pc = "sweeping" => passAt = now
    /\ pc = "sweeping" /\ head # None =>
           /\ requests[head] # None
           /\ requests[head].status = "pending"
           /\ \A p \in Having("pending") :
                  requests[head].requestedAt <= requests[p].requestedAt
    /\ pc = "probing" =>
           /\ head # None
           /\ requests[head] # None
           /\ requests[head].status = "running"
           /\ requests[head].startedAt = passAt
           /\ requests[head].route \in Routes

QueueInv == TypeOK /\ RowsAreDated /\ OnePendingPerRoute /\ PassInHand

(* Each leg that was ever rechecked has a latest finish.                   *)
LatestFinishExists ==
    \A r \in Routes :
        FinishedOf(r) # {} =>
            \E q \in FinishedOf(r) : \A p \in FinishedOf(r) :
                requests[p].finishedAt <= requests[q].finishedAt

StrandedInv == IsFiniteSet(Having("running")) /\ OnlyAbortsStrand

-----------------------------------------------------------------------------
(* What an ingest of the worker or a producer does to the table: it queues *)
(* one request, claims one or finishes one, and leaves the others alone.   *)
OnlyMoves(q) == \A p \in EventIds : p # q => requests'[p] = requests[p]

Queued(q, r) ==
    /\ q \in EventIds /\ requests[q] = None
    /\ RequestsOf(requests, r, "pending") = {}
    /\ requests'[q] # None
    /\ requests'[q].route = r
    /\ requests'[q].status = "pending"
    /\ requests'[q].requestedAt = now
    /\ requests'[q].startedAt = None /\ requests'[q].finishedAt = None
    /\ OnlyMoves(q)

Claimed(q) ==
    /\ q \in EventIds /\ requests[q] # None /\ requests[q].status = "pending"
    /\ requests'[q] # None
    /\ requests'[q].route = requests[q].route
    /\ requests'[q].status = "running"
    /\ requests'[q].requestedAt = requests[q].requestedAt
    /\ requests'[q].startedAt = passAt
    /\ requests'[q].finishedAt = requests[q].finishedAt
    /\ OnlyMoves(q)

Settled(q) ==
    /\ q \in EventIds /\ requests[q] # None /\ requests[q].status = "running"
    /\ requests'[q] # None
    /\ requests'[q].route = requests[q].route
    /\ requests'[q].status \in Finished
    /\ requests'[q].requestedAt = requests[q].requestedAt
    /\ requests'[q].startedAt = requests[q].startedAt
    /\ requests'[q].finishedAt = now
    /\ OnlyMoves(q)

(* What the worker and the producers ingest is an event of cmo.event/v1.   *)
LEMMA RecheckEventTyped ==
    ASSUME NEW id \in EventIds, NEW r \in Routes, NEW at \in Nat,
           NEW type \in SettleTypes \cup {"route.recheck.requested",
                                          "route.recheck.started"},
           NEW reason \in ReasonCodes, NEW reset \in Nat
    PROVE  /\ RecheckEvent(id, type, r, at, reason, reset) \in Event
           /\ RecheckEvent(id, type, r, at, reason, reset).type = type
           /\ RecheckEvent(id, type, r, at, reason, reset).route = r
           /\ RecheckEvent(id, type, r, at, reason, reset).at = at
           /\ RecheckEvent(id, type, r, at, reason, reset).id = id
<1> DEFINE e == RecheckEvent(id, type, r, at, reason, reset)
<1>1. r # None
  BY EvidenceAssumption
<1>2. type \in EVENT_TYPES
  BY DEF EVENT_TYPES, ROUTE_EVENTS
<1>3. FALSE \in BOOLEAN
  OBVIOUS
<1>4. e \in EventRecord
  BY <1>2, <1>3 DEF RecheckEvent, EventRecord
<1> QED
  BY <1>1, <1>4 DEF RecheckEvent, Event

(* Every reason the worker gives is one of the taxonomy or none of it.     *)
LEMMA ReasonsTyped ==
    /\ "other" \in ReasonCodes
    /\ "recheck.timeout" \in ReasonCodes
    /\ \A answer \in ProbeAnswers : SettleReason[answer] \in ReasonCodes
<1>1. FAILURE_TAXONOMY["quota"] \subseteq ReasonCodes
  BY DEF ReasonCodes, Categories
<1>2. FAILURE_TAXONOMY["auth"] \subseteq ReasonCodes
  BY DEF ReasonCodes, Categories
<1>3. FAILURE_TAXONOMY["transient"] \subseteq ReasonCodes
  BY DEF ReasonCodes, Categories
<1>4. FAILURE_TAXONOMY["capability"] \subseteq ReasonCodes
  BY DEF ReasonCodes, Categories
<1>5. "other" \in ReasonCodes
  BY DEF ReasonCodes
<1>6. {"quota.probe_confirmed", "auth.probe_failed", "transient.failure",
       "recheck.timeout", "capability.not_offered"} \subseteq ReasonCodes
  BY <1>1, <1>2, <1>3, <1>4 DEF FAILURE_TAXONOMY
<1>7. ASSUME NEW answer \in ProbeAnswerSet
      PROVE  SettleReason[answer] \in ReasonCodes
  BY <1>5, <1>6, <1>7 DEF ProbeAnswerSet, SettleReason
<1> QED
  BY <1>5, <1>6, <1>7, WorkerAssumption

(* An ingest keeps the four projections tables of their rows.              *)
LEMMA IngestTyped ==
    ASSUME ProjectionsTyped, NEW e \in Event, ApplyEvent(e)
    PROVE  ProjectionsTyped'
<1>1. routes' \in RouteTable
  BY ApplyToRoutesTyped DEF ProjectionsTyped, ApplyEvent, HasRunning
<1>2. requests' \in RequestTable
  BY ApplyToRequestsTyped DEF ProjectionsTyped, ApplyEvent
<1>3. goals' \in GoalTable
  BY ApplyToGoalsTyped DEF ProjectionsTyped, ApplyEvent
<1>4. attempts' \in AttemptTable
  BY ApplyToAttemptsTyped DEF ProjectionsTyped, ApplyEvent
<1> QED
  BY <1>1, <1>2, <1>3, <1>4 DEF ProjectionsTyped

(* Settling a leg that has a running request finishes one of its requests. *)
LEMMA SettleFinishes ==
    ASSUME ProjectionsTyped, now \in Nat, NEW e \in Event, ApplyEvent(e),
           e.type \in SettleTypes, e.at = now,
           NEW p \in RequestsOf(requests, e.route, "running"),
           \A q \in RequestsOf(requests, e.route, "running") :
               requests[q].startedAt \in Nat
    PROVE  \E q \in RequestsOf(requests, e.route, "running") : Settled(q)
<1>1. requests \in RequestTable /\ HasRunning(requests, e.route)
  BY DEF ProjectionsTyped, HasRunning
<1>2. requests' \in RecheckSettled(requests, e)
  BY DEF ApplyEvent, ApplyToRequests, SettleTypes
<1>3. PICK q \in OldestRunning(requests, e.route) :
         requests' = [requests EXCEPT ![q].status = SettleStatus(e),
                                      ![q].finishedAt = e.at]
  BY <1>1, <1>2 DEF RecheckSettled
<1>4. /\ q \in RequestsOf(requests, e.route, "running")
      /\ q \in EventIds /\ requests[q] # None
      /\ requests[q].status = "running" /\ requests[q] \in RequestRow
  BY <1>1, <1>3, RequestRowTyped DEF OldestRunning, RequestsOf
<1>5. SettleStatus(e) \in Finished
  BY DEF SettleStatus, Finished
<1> DEFINE row == [requests[q] EXCEPT !.status = SettleStatus(e), !.finishedAt = e.at]
<1>6. requests' = [requests EXCEPT ![q] = row]
  BY <1>1, <1>3, <1>4 DEF RequestTable, RequestRow
<1>7. /\ row \in RequestRow
      /\ row.status \in Finished /\ row.route = requests[q].route
      /\ row.requestedAt = requests[q].requestedAt
      /\ row.startedAt = requests[q].startedAt /\ row.finishedAt = now
  BY <1>4, <1>5 DEF RequestRow, RequestStatuses
<1>8. row # None
  BY <1>7, RequestRowAssumption
<1> HIDE DEF row
<1>9. requests'[q] = row /\ OnlyMoves(q)
  BY <1>1, <1>4, <1>6 DEF RequestTable, OnlyMoves
<1> QED
  BY <1>4, <1>7, <1>8, <1>9 DEF Settled

-----------------------------------------------------------------------------
(* What each action does to the requests, in terms of the rows it moves.   *)

(* A producer queues one request or, if one is pending, nothing.           *)
LEMMA RequestEffect ==
    ASSUME QueueInv, NEW r \in Routes, Request(r)
    PROVE  /\ ProjectionsTyped'
           /\ requests' = requests \/ \E q \in EventIds : Queued(q, r)
<1> DEFINE q == CHOOSE q \in EventIds \ {WorkerId} : requests[q] = None
           e == RecheckEvent(q, "route.recheck.requested", r, now, "other", 0)
<1>1. q \in EventIds /\ now \in Nat /\ requests \in RequestTable /\ ProjectionsTyped
  BY DEF Request, QueueInv, TypeOK, ProjectionsTyped
<1>2. ApplyEvent(e)
  BY DEF Request
<1> HIDE DEF q
<1>3. /\ e \in Event /\ e.type = "route.recheck.requested" /\ e.route = r
      /\ e.at = now /\ e.id = q
  BY <1>1, RecheckEventTyped, ReasonsTyped
<1> HIDE DEF e
<1>4. ProjectionsTyped'
  BY <1>1, <1>2, <1>3, IngestTyped
<1>5. requests' = RecheckRequested(requests, e)
  BY <1>2, <1>3 DEF ApplyEvent, ApplyToRequests, SettleTypes
<1>6. CASE requests' # requests
  <2> DEFINE row == [route |-> r, status |-> "pending", requestedAt |-> now,
                     startedAt |-> None, finishedAt |-> None]
  <2>1. /\ RequestsOf(requests, r, "pending") = {}
        /\ requests[q] = None
        /\ requests' = [requests EXCEPT ![q] = row]
    BY <1>3, <1>5, <1>6 DEF RecheckRequested
  <2>2. /\ row \in RequestRow
        /\ row.route = r /\ row.status = "pending" /\ row.requestedAt = now
        /\ row.startedAt = None /\ row.finishedAt = None
    BY <1>1 DEF RequestRow, RequestStatuses
  <2>3. row # None
    BY <2>2, RequestRowAssumption
  <2> HIDE DEF row
  <2>4. requests'[q] = row /\ OnlyMoves(q)
    BY <1>1, <2>1 DEF RequestTable, OnlyMoves
  <2> QED
    BY <1>1, <1>4, <2>1, <2>2, <2>3, <2>4 DEF Queued
<1> QED
  BY <1>4, <1>6

(* The sweep and the settlement finish a running request of the leg they   *)
(* name, now.                                                              *)
LEMMA SettlementEffect ==
    ASSUME QueueInv, NEW p \in Having("running"), requests[p].route \in Routes,
           NEW type \in SettleTypes, NEW reason \in ReasonCodes, NEW reset \in Nat,
           ApplyEvent(RecheckEvent(WorkerId, type, requests[p].route, now, reason, reset))
    PROVE  /\ ProjectionsTyped'
           /\ \E q \in EventIds : Settled(q)
<1> DEFINE e == RecheckEvent(WorkerId, type, requests[p].route, now, reason, reset)
<1>1. /\ now \in Nat /\ ProjectionsTyped /\ requests \in RequestTable
      /\ p \in EventIds /\ requests[p] # None /\ requests[p].status = "running"
  BY DEF QueueInv, TypeOK, ProjectionsTyped, Having
<1>3. /\ e \in Event /\ e.type = type /\ e.route = requests[p].route /\ e.at = now
  BY <1>1, RecheckEventTyped, WorkerAssumption
<1>4. ApplyEvent(e)
  OBVIOUS
<1> HIDE DEF e
<1>5. p \in RequestsOf(requests, e.route, "running")
  BY <1>1, <1>3 DEF RequestsOf
<1>6. ASSUME NEW q \in RequestsOf(requests, e.route, "running")
      PROVE  requests[q].startedAt \in Nat
  <2>1. q \in EventIds /\ requests[q] # None /\ requests[q].status = "running"
    BY DEF RequestsOf
  <2> QED
    BY <2>1 DEF QueueInv, RowsAreDated, RowIsDated
<1>7. \E q \in RequestsOf(requests, e.route, "running") : Settled(q)
  BY <1>1, <1>3, <1>4, <1>5, <1>6, SettleFinishes
<1> QED
  BY <1>1, <1>3, <1>4, <1>7, IngestTyped DEF RequestsOf

(* A start claims the request the pass has read: it is pending, and its    *)
(* leg has no other that is.                                               *)
LEMMA ClaimEffect ==
    ASSUME QueueInv, Claim
    PROVE  /\ ProjectionsTyped' /\ Claimed(head)
           /\ requests[head].route \in Routes
<1> DEFINE e == RecheckEvent(WorkerId, "route.recheck.started",
                             requests[head].route, passAt, "other", 0)
<1>1. /\ pc = "sweeping" /\ head # None /\ head \in EventIds
      /\ passAt \in Nat /\ ProjectionsTyped /\ requests \in RequestTable
  BY DEF Claim, QueueInv, TypeOK, ProjectionsTyped
<1>2. requests[head] # None /\ requests[head].status = "pending"
  BY <1>1 DEF QueueInv, PassInHand
<1>3. requests[head] \in RequestRow /\ requests[head].route \in Routes
  BY <1>1, <1>2, RequestRowTyped DEF Claim
<1>4. /\ e \in Event /\ e.type = "route.recheck.started"
      /\ e.route = requests[head].route /\ e.at = passAt
  <2>1. WorkerId \in EventIds /\ "other" \in ReasonCodes
    BY ReasonsTyped, WorkerAssumption
  <2>2. ASSUME NEW r \in Routes, NEW at \in Nat
        PROVE  LET s == RecheckEvent(WorkerId, "route.recheck.started", r, at, "other", 0)
               IN  /\ s \in Event /\ s.type = "route.recheck.started"
                   /\ s.route = r /\ s.at = at
    BY <2>1, RecheckEventTyped
  <2> QED
    BY <1>1, <1>3, <2>2
<1>5. ApplyEvent(e)
  BY DEF Claim
<1> HIDE DEF e
<1>6. requests' \in RecheckStarted(requests, e)
  BY <1>4, <1>5 DEF ApplyEvent, ApplyToRequests, SettleTypes
<1>7. head \in RequestsOf(requests, e.route, "pending")
  BY <1>1, <1>2, <1>4 DEF RequestsOf
<1>8. \A q \in OldestPending(requests, e.route) : q = head
  <2>1. \A q \in RequestsOf(requests, e.route, "pending") : q = head
    BY <1>1, <1>2, <1>4 DEF RequestsOf, QueueInv, OnePendingPerRoute
  <2> QED
    BY <2>1 DEF OldestPending
<1> DEFINE row == [requests[head] EXCEPT !.status = "running", !.startedAt = passAt]
<1>9. requests' = [requests EXCEPT ![head].status = "running", ![head].startedAt = passAt]
  BY <1>4, <1>6, <1>7, <1>8 DEF RecheckStarted
<1>10. requests' = [requests EXCEPT ![head] = row]
  BY <1>1, <1>3, <1>9 DEF RequestTable, RequestRow
<1>11. /\ row \in RequestRow
       /\ row.status = "running" /\ row.route = requests[head].route
       /\ row.requestedAt = requests[head].requestedAt
       /\ row.startedAt = passAt /\ row.finishedAt = requests[head].finishedAt
  BY <1>1, <1>3 DEF RequestRow, RequestStatuses
<1>12. row # None
  BY <1>11, RequestRowAssumption
<1> HIDE DEF row
<1>13. requests'[head] = row /\ OnlyMoves(head)
  BY <1>1, <1>10 DEF RequestTable, OnlyMoves
<1> QED
  BY <1>1, <1>2, <1>3, <1>4, <1>5, <1>11, <1>12, <1>13, IngestTyped DEF Claimed

(* The steps that leave the queue as it is.                                *)
Quiet ==
    \/ UNCHANGED <<now, worker>>
    \/ ReadQueue
    \/ pc = "sweeping" /\ EndPass /\ marked' \subseteq marked \cup ({head} \ {None})
    \/ Abort
    \/ Restart
    \/ Tick

(* Every step of the system, by what it does to the queue.                 *)
LEMMA StepEffect ==
    ASSUME QueueInv, [Next]_vars
    PROVE  /\ ProjectionsTyped'
           /\ \/ requests' = requests /\ Quiet
              \/ /\ \E r \in Routes, q \in EventIds : Queued(q, r)
                 /\ UNCHANGED <<now, worker>>
              \/ /\ pc = "sweeping" /\ UNCHANGED <<now, worker>>
                 /\ \E q \in EventIds : Settled(q)
              \/ /\ pc = "sweeping" /\ head # None /\ pc' = "probing"
                 /\ UNCHANGED <<now, head, passAt, polled, aborts, marked>>
                 /\ requests[head].route \in Routes
                 /\ ~CooldownActive(requests[head].route)
                 /\ Claimed(head)
              \/ /\ pc = "probing" /\ EndPass /\ marked' = marked
                 /\ \E q \in EventIds : Settled(q)
<1>1. ProjectionsTyped /\ head \in EventIds \cup {None}
  BY DEF QueueInv, TypeOK
<1>2. CASE UNCHANGED vars
  BY <1>1, <1>2 DEF vars, projections, ProjectionsTyped, Quiet
<1>3. ASSUME NEW r \in Routes, Request(r)
      PROVE  /\ ProjectionsTyped' /\ UNCHANGED <<now, worker>>
             /\ requests' = requests \/ \E q \in EventIds : Queued(q, r)
  <2>1. UNCHANGED <<now, worker>>
    BY <1>3 DEF Request
  <2> QED
    BY <1>3, <2>1, RequestEffect
<1>4. CASE SweepStale
  <2>1. PICK p \in Stale :
          ApplyEvent(RecheckEvent(WorkerId, "route.recheck.failed",
                                  requests[p].route, passAt, "recheck.timeout", 0))
    BY <1>4 DEF SweepStale
  <2>2. passAt = now /\ p \in Having("running") /\ requests[p].route \in Routes
    BY <1>4, <2>1 DEF SweepStale, Stale, QueueInv, PassInHand
  <2>3. ProjectionsTyped' /\ \E q \in EventIds : Settled(q)
    BY <2>1, <2>2, SettlementEffect, ReasonsTyped DEF SettleTypes
  <2> QED
    BY <1>4, <2>3 DEF SweepStale
<1>5. CASE Claim
  BY <1>5, ClaimEffect DEF Claim
<1>6. ASSUME NEW answer \in ProbeAnswers, Settle(answer)
      PROVE  /\ ProjectionsTyped' /\ pc = "probing" /\ EndPass /\ marked' = marked
             /\ \E q \in EventIds : Settled(q)
  <2>1. PICK reset \in IF answer = "quota" THEN ProbeResets ELSE {0} :
          ApplyEvent(RecheckEvent(WorkerId, SettleType(answer),
                                  requests[head].route, now,
                                  SettleReason[answer], reset))
    BY <1>6 DEF Settle
  <2>2. /\ head \in Having("running") /\ requests[head].route \in Routes
        /\ reset \in Nat
    BY <1>1, <1>6, <2>1, WorkerAssumption DEF Settle, QueueInv, PassInHand, Having
  <2>3. SettleType(answer) \in SettleTypes
    BY DEF SettleType, SettleTypes
  <2>4. SettleReason[answer] \in ReasonCodes
    BY ReasonsTyped
  <2>5. ProjectionsTyped' /\ \E q \in EventIds : Settled(q)
    BY <2>1, <2>2, <2>3, <2>4, SettlementEffect
  <2> QED
    BY <1>6, <2>5 DEF Settle
<1>7. CASE \/ ReadQueue \/ NothingPending \/ RecordMalformed \/ SkipCoolingDown
           \/ Raise \/ Restart \/ Abort \/ Tick
  <2>1. UNCHANGED projections
    BY <1>7 DEF ReadQueue, NothingPending, RecordMalformed, SkipCoolingDown, Raise,
                Restart, Abort, Tick
  <2>2. Quiet
    BY <1>7 DEF Quiet, NothingPending, RecordMalformed, SkipCoolingDown, Raise
  <2> QED
    BY <1>1, <2>1, <2>2 DEF projections, ProjectionsTyped
<1> QED
  BY <1>2, <1>3, <1>4, <1>5, <1>6, <1>7 DEF Next, Pass, Quiet

-----------------------------------------------------------------------------
(* What a rebuild leaves are pending rows that nobody has claimed yet.     *)
LEMMA LeftBehindRows ==
    ASSUME NEW t \in LeftBehind, NEW q \in EventIds, t[q] # None
    PROVE  \E k \in MalformedKeys :
               /\ t[q] = LeftRow(k) /\ t[q].route = k
               /\ t[q].status = "pending" /\ t[q].requestedAt = 0
               /\ t[q].startedAt = None /\ t[q].finishedAt = None
<1>1. PICK k \in MalformedKeys : t[q] = LeftRow(k)
  BY DEF LeftBehind
<1> QED
  BY <1>1 DEF LeftRow

LEMMA LeftBehindTyped == LeftBehind \subseteq RequestTable
<1>1. ASSUME NEW k \in MalformedKeys
      PROVE  LeftRow(k) \in RequestRow
  BY DEF LeftRow, RequestRow, RequestStatuses
<1> QED
  BY <1>1 DEF LeftBehind, RequestTable

-----------------------------------------------------------------------------
(* QueueInv is inductive.                                                  *)
LEMMA QueueInvInit == Init => QueueInv
<1> SUFFICES ASSUME Init PROVE QueueInv
  OBVIOUS
<1>1. TypeOK
  <2>1. ProjectionsTyped
    BY LeftBehindTyped DEF Init, ProjectionsTyped, RouteTable, GoalTable, AttemptTable
  <2>2. polled \in BOOLEAN
    BY DEF Init
  <2>3. /\ now \in 1..MaxTime /\ passAt \in 1..now /\ aborts \in 0..MaxAborts
        /\ pc = "idle" /\ head = None /\ marked \subseteq EventIds
    BY WorkerAssumption DEF Init
  <2> QED
    BY <2>1, <2>2, <2>3 DEF TypeOK
<1>2. RowsAreDated
  <2>1. now = 1 /\ None \notin Nat
    BY EvidenceAssumption DEF Init
  <2> QED
    BY <2>1, LeftBehindRows DEF Init, RowsAreDated, RowIsDated, Finished
<1>4. OnePendingPerRoute
  <2> SUFFICES ASSUME NEW p \in EventIds, NEW q \in EventIds,
                      requests[p] # None, requests[q] # None,
                      requests[p].route = requests[q].route
               PROVE  p = q
    BY DEF OnePendingPerRoute
  <2>1. requests[p] = requests[q]
    BY LeftBehindRows DEF Init, LeftRow
  <2> QED
    BY <2>1 DEF Init, LeftBehind
<1>3. PassInHand
  BY DEF Init, PassInHand
<1> QED
  BY <1>1, <1>2, <1>3, <1>4 DEF QueueInv

(* The types of the worker's own state.                                    *)
LEMMA TypeOKNext ==
    ASSUME QueueInv, [Next]_vars
    PROVE  TypeOK'
<1>1. ProjectionsTyped'
  BY StepEffect
<1> DEFINE Control == /\ now \in 1..MaxTime
                      /\ pc \in {"idle", "sweeping", "probing", "down"}
                      /\ head \in EventIds \cup {None}
                      /\ passAt \in 1..now
                      /\ aborts \in 0..MaxAborts
<1>2. Control /\ polled \in BOOLEAN
  BY DEF QueueInv, TypeOK
<1>3. Control'
  <2>1. CASE Quiet
    <3>1. CASE ReadQueue
      <4>1. head' \in EventIds \cup {None}
        BY <3>1 DEF ReadQueue, Heads, Having
      <4> QED
        BY <1>2, <3>1, <4>1 DEF ReadQueue
    <3>2. CASE UNCHANGED <<now, worker>> \/ (pc = "sweeping" /\ EndPass) \/ Restart
      BY <1>2, <3>2 DEF worker, EndPass, Restart
    <3>3. CASE Abort \/ Tick
      BY <1>2, <3>3, WorkerAssumption DEF Abort, Tick
    <3> QED
      BY <2>1, <3>1, <3>2, <3>3 DEF Quiet
  <2>2. CASE UNCHANGED <<now, worker>> \/ EndPass
    BY <1>2, <2>2 DEF worker, EndPass
  <2>3. CASE pc' = "probing" /\ UNCHANGED <<now, head, passAt, polled, aborts>>
    BY <1>2, <2>3
  <2> QED
    BY <2>1, <2>2, <2>3, StepEffect
<1>4. polled' \in BOOLEAN
  <2>1. polled' \in {TRUE, FALSE, polled}
    BY StepEffect
       DEF Quiet, worker, EndPass, ReadQueue, Abort, Restart, Tick
  <2> QED
    BY <1>2, <2>1, Zenon
<1>5. marked' \subseteq EventIds
  <2>1. marked \subseteq EventIds
    BY DEF QueueInv, TypeOK
  <2>2. marked' \subseteq marked \cup ({head} \ {None})
    BY StepEffect DEF Quiet, worker, ReadQueue, Abort, Restart, Tick
  <2> QED
    BY <1>2, <2>1, <2>2
<1> QED
  BY <1>1, <1>3, <1>4, <1>5 DEF TypeOK

(* Rows stay dated as far as they got.                                     *)
LEMMA RowsAreDatedNext ==
    ASSUME QueueInv, [Next]_vars
    PROVE  RowsAreDated'
<1> SUFFICES ASSUME NEW q \in EventIds, requests'[q] # None
             PROVE  RowIsDated(requests[q])'
  BY DEF RowsAreDated
<1>1. /\ now \in Nat /\ passAt \in Nat /\ passAt <= now /\ None \notin Nat
      /\ requests \in RequestTable
  BY EvidenceAssumption, WorkerAssumption DEF QueueInv, TypeOK, ProjectionsTyped
<1>2. requests[q] # None => requests[q] \in RequestRow /\ RowIsDated(requests[q])
  BY <1>1, RequestRowTyped DEF QueueInv, RowsAreDated
<1>3. /\ now' \in Nat /\ now <= now' /\ passAt' \in Nat /\ passAt <= passAt'
  <2>1. \/ now' = now /\ passAt' = passAt
        \/ now' = now /\ passAt' = now
        \/ now' = now + 1 /\ passAt' = passAt
    BY StepEffect DEF Quiet, worker, EndPass, ReadQueue, Abort, Restart, Tick
  <2> QED
    BY <1>1, <2>1
<1>4. CASE requests'[q] = requests[q]
  BY <1>1, <1>2, <1>3, <1>4 DEF RowIsDated, RequestRow
<1>5. ASSUME NEW r \in Routes, Queued(q, r)
      PROVE  RowIsDated(requests[q])'
  BY <1>1, <1>3, <1>5 DEF Queued, RowIsDated, Finished
<1>6. CASE Settled(q)
  BY <1>1, <1>2, <1>3, <1>6 DEF Settled, RowIsDated, Finished, RequestRow
<1>7. CASE Claimed(q)
  BY <1>1, <1>2, <1>3, <1>7 DEF Claimed, RowIsDated, Finished, RequestRow
<1>8. \/ requests'[q] = requests[q] \/ Settled(q) \/ Claimed(q)
      \/ \E r \in Routes : Queued(q, r)
  BY StepEffect DEF Queued, Settled, Claimed, OnlyMoves
<1> QED
  BY <1>4, <1>5, <1>6, <1>7, <1>8

(* A leg keeps at most one pending request.                                *)
LEMMA OnePendingNext ==
    ASSUME QueueInv, [Next]_vars
    PROVE  OnePendingPerRoute'
<1> SUFFICES ASSUME NEW p \in EventIds, NEW q \in EventIds,
                    requests'[p] # None, requests'[p].status = "pending",
                    requests'[q] # None, requests'[q].status = "pending",
                    requests'[p].route = requests'[q].route
             PROVE  p = q
  BY DEF OnePendingPerRoute
<1>1. CASE requests'[p] = requests[p] /\ requests'[q] = requests[q]
  BY <1>1 DEF QueueInv, OnePendingPerRoute
<1>2. ASSUME NEW r \in Routes, NEW x \in EventIds, Queued(x, r)
      PROVE  p = q
  <2>1. \A y \in EventIds :
            requests[y] # None /\ requests[y].status = "pending" => requests[y].route # r
    BY <1>2 DEF Queued, RequestsOf
  <2> QED
    BY <1>1, <1>2, <2>1 DEF Queued, OnlyMoves
<1>3. ASSUME NEW x \in EventIds, Settled(x) \/ Claimed(x)
      PROVE  p = q
  <2>1. p # x /\ q # x
    BY <1>3 DEF Settled, Claimed, Finished
  <2> QED
    BY <1>1, <1>3, <2>1 DEF Settled, Claimed, OnlyMoves
<1> QED
  BY <1>1, <1>2, <1>3, StepEffect DEF Claimed

(* The pass keeps hold of what it read and of what it claimed.             *)
LEMMA PassInHandNext ==
    ASSUME QueueInv, [Next]_vars
    PROVE  PassInHand'
<1>1. /\ now \in Nat /\ passAt \in Nat /\ None \notin EventIds
      /\ head \in EventIds \cup {None} /\ requests \in RequestTable
  BY EvidenceAssumption DEF QueueInv, TypeOK, ProjectionsTyped
<1>2. PassInHand
  BY DEF QueueInv
<1>3. CASE requests' = requests /\ Quiet
  <2>1. CASE ReadQueue
    BY <1>1, <1>3, <2>1 DEF ReadQueue, PassInHand, Heads, Having
  <2>2. CASE Abort \/ Restart \/ (pc = "sweeping" /\ EndPass)
    BY <1>2, <2>2 DEF Abort, Restart, EndPass, PassInHand
  <2>3. CASE UNCHANGED <<now, worker>> \/ Tick
    BY <1>2, <1>3, <2>3 DEF Tick, worker, PassInHand, Having
  <2> QED
    BY <1>3, <2>1, <2>2, <2>3 DEF Quiet
<1>4. ASSUME NEW r \in Routes, NEW x \in EventIds, Queued(x, r),
             UNCHANGED <<now, worker>>
      PROVE  PassInHand'
  <2>1. head # x \/ head = None \/ requests[head] = None
    BY <1>4 DEF Queued
  <2>2. ASSUME pc = "sweeping", head # None
        PROVE  /\ requests'[head] = requests[head]
               /\ \A p \in Having("pending")' :
                      requests[head].requestedAt <= requests'[p].requestedAt
    <3>1. requests'[head] = requests[head] /\ requests[head] # None
      BY <1>1, <1>2, <1>4, <2>2 DEF PassInHand, Queued, OnlyMoves
    <3>2. requests[head].requestedAt <= now
      BY <1>1, <2>2, <3>1 DEF QueueInv, RowsAreDated, RowIsDated
    <3>3. ASSUME NEW p \in Having("pending")'
          PROVE  requests[head].requestedAt <= requests'[p].requestedAt
      BY <1>2, <1>4, <2>2, <3>2, <3>3 DEF PassInHand, Queued, OnlyMoves, Having
    <3> QED
      BY <3>1, <3>3
  <2>3. ASSUME pc = "probing"
        PROVE  requests'[head] = requests[head]
    BY <1>1, <1>2, <1>4, <2>3 DEF PassInHand, Queued, OnlyMoves
  <2> QED
    BY <1>2, <1>4, <2>2, <2>3 DEF PassInHand, worker
<1>5. ASSUME NEW x \in EventIds, Settled(x), pc = "sweeping", UNCHANGED <<now, worker>>
      PROVE  PassInHand'
  <2>1. \A p \in Having("pending")' : p \in Having("pending") /\ requests'[p] = requests[p]
    BY <1>5 DEF Having, Settled, OnlyMoves, Finished
  <2>2. head # None => requests'[head] = requests[head]
    BY <1>1, <1>2, <1>5 DEF PassInHand, Settled, OnlyMoves
  <2> QED
    BY <1>2, <1>5, <2>1, <2>2 DEF PassInHand, worker
<1>6. ASSUME Claimed(head), head # None, requests[head].route \in Routes,
             pc' = "probing", UNCHANGED <<now, head, passAt>>
      PROVE  PassInHand'
  BY <1>6 DEF PassInHand, Claimed
<1>7. ASSUME pc = "probing", EndPass
      PROVE  PassInHand'
  BY <1>7 DEF PassInHand, EndPass
<1> QED
  BY <1>3, <1>4, <1>5, <1>6, <1>7, StepEffect

(* So QueueInv holds for good.                                             *)
LEMMA QueueInvNext ==
    ASSUME QueueInv, [Next]_vars
    PROVE  QueueInv'
BY TypeOKNext, RowsAreDatedNext, OnePendingNext, PassInHandNext DEF QueueInv

LEMMA QueueInvInvariant == Spec => []QueueInv
BY QueueInvInit, QueueInvNext, PTL DEF Spec

-----------------------------------------------------------------------------
(* One step keeps the order of the claims the order of the requests: only  *)
(* the oldest pending request is claimed, and a new one is the newest.     *)
LEMMA FirstComeFirstServedNext ==
    ASSUME QueueInv, FirstComeFirstServed, [Next]_vars
    PROVE  FirstComeFirstServed'
<1> SUFFICES ASSUME NEW p \in EventIds, NEW q \in EventIds,
                    requests'[p] # None, requests'[q] # None,
                    requests'[p].requestedAt < requests'[q].requestedAt,
                    requests'[q].startedAt # None
             PROVE  requests'[p].startedAt # None
  BY DEF FirstComeFirstServed
<1>1. /\ now \in Nat /\ passAt \in Nat /\ None \notin Nat
      /\ requests \in RequestTable /\ requests' \in RequestTable
  BY EvidenceAssumption, StepEffect DEF QueueInv, TypeOK, ProjectionsTyped
<1>2. requests'[p].requestedAt \in Nat /\ requests'[q].requestedAt \in Nat
  BY <1>1, RequestRowTyped DEF RequestRow
<1>3. CASE requests' = requests
  BY <1>3 DEF FirstComeFirstServed
<1>4. ASSUME NEW r \in Routes, NEW x \in EventIds, Queued(x, r)
      PROVE  requests'[p].startedAt # None
  <2>1. q # x /\ requests'[q] = requests[q] /\ requests[q].requestedAt <= now
    BY <1>4 DEF Queued, OnlyMoves, QueueInv, RowsAreDated, RowIsDated
  <2>2. p # x
    BY <1>1, <1>2, <1>4, <2>1 DEF Queued
  <2> QED
    BY <1>4, <2>1, <2>2 DEF Queued, OnlyMoves, FirstComeFirstServed
<1>5. ASSUME NEW x \in EventIds, Settled(x)
      PROVE  requests'[p].startedAt # None
  BY <1>5 DEF Settled, OnlyMoves, FirstComeFirstServed
<1>6. ASSUME pc = "sweeping", head # None, Claimed(head)
      PROVE  requests'[p].startedAt # None
  <2>1. CASE p = head
    BY <1>1, <1>6, <2>1 DEF Claimed
  <2>2. CASE p # head
    <3>1. requests'[p] = requests[p]
      BY <1>6, <2>2 DEF Claimed, OnlyMoves
    <3>2. CASE q = head
      <4>1. requests[p].requestedAt < requests[head].requestedAt
        BY <1>6, <3>1, <3>2 DEF Claimed
      <4>2. p \notin Having("pending")
        BY <1>1, <1>2, <1>6, <3>1, <3>2, <4>1 DEF QueueInv, PassInHand, Claimed
      <4>3. requests[p].status # "pending"
        BY <3>1, <4>2 DEF Having
      <4> QED
        BY <1>1, <3>1, <4>3 DEF QueueInv, RowsAreDated, RowIsDated
    <3>3. CASE q # head
      BY <1>6, <3>1, <3>3 DEF Claimed, OnlyMoves, FirstComeFirstServed
    <3> QED
      BY <3>2, <3>3
  <2> QED
    BY <2>1, <2>2
<1> QED
  BY <1>3, <1>4, <1>5, <1>6, StepEffect

(* The worker keeps its types, probes the request it claimed and claims in *)
(* the order requests were queued, whatever arrives, dies or is swept in   *)
(* between (step, _apply_recheck_started).                                 *)
THEOREM WorkerServesInTurn == Spec => []ServesInTurn
<1>1. Init => FirstComeFirstServed
  BY LeftBehindRows DEF Init, FirstComeFirstServed
<1>2. QueueInv => TypeOK /\ ProbesWhatItClaimed
  BY DEF QueueInv, PassInHand, ProbesWhatItClaimed
<1>3. TypeOK /\ ProbesWhatItClaimed /\ FirstComeFirstServed => ServesInTurn
  BY DEF ServesInTurn
<1> QED
  BY <1>1, <1>2, <1>3, FirstComeFirstServedNext, QueueInvInvariant, PTL DEF Spec

-----------------------------------------------------------------------------
(* One step keeps the stranded requests accounted for: a claim is in the   *)
(* hands of the pass until it settles or aborts.                           *)
LEMMA StrandedInvNext ==
    ASSUME QueueInv, StrandedInv, [Next]_vars
    PROVE  StrandedInv'
<1> DEFINE R == Having("running")
           hand == IF pc = "probing" THEN 1 ELSE 0
<1>1. /\ IsFiniteSet(R) /\ Cardinality(R) \in Nat /\ aborts \in Nat
      /\ Cardinality(R) <= aborts + hand
  BY FS_CardinalityType, WorkerAssumption
     DEF StrandedInv, OnlyAbortsStrand, QueueInv, TypeOK
<1>2. CASE requests' = requests /\ Quiet
  <2>1. R' = R
    BY <1>2 DEF Having
  <2>2. aborts + hand <= (aborts + hand)'
    BY <1>1, <1>2
       DEF Quiet, worker, ReadQueue, EndPass, Abort, Restart, Tick
  <2>3. (aborts + hand)' \in Nat
    BY <1>1, <1>2
       DEF Quiet, worker, ReadQueue, EndPass, Abort, Restart, Tick
  <2> QED
    BY <1>1, <2>1, <2>2, <2>3 DEF StrandedInv, OnlyAbortsStrand
<1>3. ASSUME NEW r \in Routes, NEW x \in EventIds, Queued(x, r), UNCHANGED worker
      PROVE  StrandedInv'
  <2>1. R' = R
    BY <1>3 DEF Having, Queued, OnlyMoves
  <2> QED
    BY <1>1, <1>3, <2>1 DEF StrandedInv, OnlyAbortsStrand, worker
<1>4. ASSUME NEW x \in EventIds, Settled(x),
             \/ pc = "sweeping" /\ UNCHANGED worker
             \/ pc = "probing" /\ EndPass
      PROVE  StrandedInv'
  <2>1. R' = R \ {x} /\ x \in R
    BY <1>4 DEF Having, Settled, OnlyMoves, Finished
  <2>2. IsFiniteSet(R') /\ Cardinality(R') = Cardinality(R) - 1
    BY <1>1, <2>1, FS_RemoveElement
  <2>3. aborts' = aborts /\ hand - 1 <= hand'
    BY <1>4 DEF worker, EndPass
  <2> QED
    BY <1>1, <2>2, <2>3 DEF StrandedInv, OnlyAbortsStrand
<1>5. ASSUME Claimed(head), pc = "sweeping", pc' = "probing", aborts' = aborts
      PROVE  StrandedInv'
  <2>1. R' = R \cup {head} /\ head \notin R
    BY <1>5 DEF Having, Claimed, OnlyMoves
  <2>2. IsFiniteSet(R') /\ Cardinality(R') = Cardinality(R) + 1
    BY <1>1, <2>1, FS_AddElement
  <2> QED
    BY <1>1, <1>5, <2>2 DEF StrandedInv, OnlyAbortsStrand
<1> QED
  BY <1>2, <1>3, <1>4, <1>5, StepEffect DEF worker

(* The worker never runs two probes at once, and a pass that ends has      *)
(* settled what it claimed: what runs besides was stranded by a pass that  *)
(* died (RecheckWorker.run, step).                                         *)
THEOREM WorkerStrandsByAborting == Spec => []OnlyAbortsStrand
<1>1. Init => StrandedInv
  <2> SUFFICES ASSUME Init PROVE StrandedInv
    OBVIOUS
  <2>1. Having("running") = {}
    BY LeftBehindRows DEF Init, Having
  <2> QED
    BY <2>1, FS_EmptySet DEF Init, StrandedInv, OnlyAbortsStrand
<1>2. StrandedInv => OnlyAbortsStrand
  BY DEF StrandedInv
<1> QED
  BY <1>1, <1>2, StrandedInvNext, QueueInvInvariant, PTL DEF Spec

-----------------------------------------------------------------------------
(* A request that finishes now is its leg's latest finish.                 *)
LEMMA LatestFinishNext ==
    ASSUME QueueInv, LatestFinishExists, [Next]_vars
    PROVE  LatestFinishExists'
<1> SUFFICES ASSUME NEW r \in Routes, FinishedOf(r)' # {}
             PROVE  \E q \in FinishedOf(r)' : \A p \in FinishedOf(r)' :
                        requests'[p].finishedAt <= requests'[q].finishedAt
  BY DEF LatestFinishExists
<1>1. now \in Nat
  BY DEF QueueInv, TypeOK
<1>2. \A p \in FinishedOf(r) : requests[p].finishedAt <= now
  BY DEF QueueInv, RowsAreDated, RowIsDated, FinishedOf
<1>3. CASE FinishedOf(r)' = FinishedOf(r)
            /\ \A p \in FinishedOf(r) : requests'[p] = requests[p]
  BY <1>3 DEF LatestFinishExists
<1>4. CASE requests' = requests
  BY <1>3, <1>4 DEF FinishedOf
<1>5. ASSUME NEW s \in Routes, NEW x \in EventIds, Queued(x, s)
      PROVE  /\ FinishedOf(r)' = FinishedOf(r)
             /\ \A p \in FinishedOf(r) : requests'[p] = requests[p]
  BY <1>5 DEF FinishedOf, Queued, OnlyMoves, Finished
<1>6. ASSUME NEW x \in EventIds, Claimed(x)
      PROVE  /\ FinishedOf(r)' = FinishedOf(r)
             /\ \A p \in FinishedOf(r) : requests'[p] = requests[p]
  BY <1>6 DEF FinishedOf, Claimed, OnlyMoves, Finished
<1>7. ASSUME NEW x \in EventIds, Settled(x), requests[x].route = r
      PROVE  \E q \in FinishedOf(r)' : \A p \in FinishedOf(r)' :
                 requests'[p].finishedAt <= requests'[q].finishedAt
  <2>1. x \in FinishedOf(r)' /\ requests'[x].finishedAt = now
    BY <1>7 DEF FinishedOf, Settled
  <2>2. ASSUME NEW p \in FinishedOf(r)'
        PROVE  requests'[p].finishedAt <= now
    <3>1. CASE p = x
      BY <1>1, <2>1, <3>1
    <3>2. CASE p # x
      BY <1>2, <1>7, <3>2 DEF FinishedOf, Settled, OnlyMoves
    <3> QED
      BY <3>1, <3>2
  <2> QED
    BY <2>1, <2>2
<1>8. ASSUME NEW x \in EventIds, Settled(x), requests[x].route # r
      PROVE  /\ FinishedOf(r)' = FinishedOf(r)
             /\ \A p \in FinishedOf(r) : requests'[p] = requests[p]
  BY <1>8 DEF FinishedOf, Settled, OnlyMoves, Finished
<1> QED
  BY <1>3, <1>4, <1>5, <1>6, <1>7, <1>8, StepEffect DEF Claimed

(* A claim leaves the cooldown after every finish of the leg; a finish     *)
(* comes after every start there was.                                      *)
LEMMA RechecksAreSpacedNext ==
    ASSUME QueueInv, LatestFinishExists, RechecksAreSpaced, [Next]_vars
    PROVE  RechecksAreSpaced'
<1> SUFFICES ASSUME NEW p \in EventIds, NEW q \in EventIds, p # q,
                    requests'[p] # None, requests'[q] # None,
                    requests'[p].route = requests'[q].route,
                    requests'[p].finishedAt # None, requests'[q].startedAt # None
             PROVE  \/ requests'[q].startedAt - requests'[p].finishedAt
                           >= RECHECK_COOLDOWN
                    \/ requests'[q].startedAt <= requests'[p].finishedAt
  BY DEF RechecksAreSpaced
<1>1. /\ now \in Nat /\ passAt \in Nat /\ passAt <= now /\ None \notin Nat
      /\ requests \in RequestTable /\ RECHECK_COOLDOWN \in Nat
  BY EvidenceAssumption, WorkerAssumption DEF QueueInv, TypeOK, ProjectionsTyped
<1>2. CASE requests'[p] = requests[p] /\ requests'[q] = requests[q]
  BY <1>2 DEF RechecksAreSpaced
<1>3. ASSUME NEW r \in Routes, NEW x \in EventIds, Queued(x, r)
      PROVE  requests'[p] = requests[p] /\ requests'[q] = requests[q]
  BY <1>3 DEF Queued, OnlyMoves
<1>4. ASSUME NEW x \in EventIds, Settled(x)
      PROVE  \/ requests'[p] = requests[p] /\ requests'[q] = requests[q]
             \/ requests'[q].startedAt <= requests'[p].finishedAt
             \/ p # x /\ requests'[q].startedAt = requests[q].startedAt
                      /\ requests'[p] = requests[p] /\ requests[q] # None
                      /\ requests[q].route = requests'[q].route
  <2>1. CASE p = x
    <3>1. requests'[q] = requests[q] /\ requests'[p].finishedAt = now
      BY <1>4, <2>1 DEF Settled, OnlyMoves
    <3>2. requests[q].startedAt \in Nat /\ requests[q].startedAt <= passAt
      BY <3>1 DEF QueueInv, RowsAreDated, RowIsDated
    <3> QED
      BY <1>1, <3>1, <3>2
  <2>2. CASE p # x
    BY <1>4, <2>2 DEF Settled, OnlyMoves
  <2> QED
    BY <2>1, <2>2
<1>5. ASSUME pc = "sweeping", head # None, Claimed(head), q = head,
             requests[head].route \in Routes, ~CooldownActive(requests[head].route)
      PROVE  requests'[q].startedAt - requests'[p].finishedAt >= RECHECK_COOLDOWN
  <2> DEFINE r == requests[head].route
  <2>1. /\ requests'[p] = requests[p] /\ requests[p].route = r
        /\ requests'[q].startedAt = passAt
    BY <1>5 DEF Claimed, OnlyMoves
  <2>2. requests[p] \in RequestRow
    BY <1>1, <2>1, RequestRowTyped
  <2>3. requests[p].status \in Finished
    BY <2>1, <2>2 DEF QueueInv, RowsAreDated, RowIsDated, RequestRow, RequestStatuses
  <2>4. p \in FinishedOf(r)
    BY <2>1, <2>3 DEF FinishedOf
  <2>5. PICK m \in FinishedOf(r) : \A x \in FinishedOf(r) :
            requests[x].finishedAt <= requests[m].finishedAt
    BY <1>5, <2>4 DEF LatestFinishExists
  <2>6. ~(passAt - requests[m].finishedAt < RECHECK_COOLDOWN)
    BY <1>5, <2>5 DEF CooldownActive
  <2>7. requests[m].finishedAt \in Nat /\ requests[p].finishedAt \in Nat
    BY <2>4, <2>5 DEF FinishedOf, QueueInv, RowsAreDated, RowIsDated
  <2>8. requests[p].finishedAt <= requests[m].finishedAt
    BY <2>4, <2>5
  <2> QED
    BY <1>1, <2>1, <2>6, <2>7, <2>8
<1>6. ASSUME Claimed(head), q # head
      PROVE  requests'[p] = requests[p] /\ requests'[q] = requests[q]
  <2>1. p # head
    BY <1>6 DEF Claimed, QueueInv, RowsAreDated, RowIsDated
  <2> QED
    BY <1>6, <2>1 DEF Claimed, OnlyMoves
<1> QED
  BY <1>2, <1>3, <1>4, <1>5, <1>6, StepEffect DEF RechecksAreSpaced

(* A leg is left alone for the whole cooldown after any of its requests    *)
(* finished, settled by a probe or given up by a sweep (_cooldown_active). *)
THEOREM WorkerSpacesRechecks == Spec => []RechecksAreSpaced
<1>1. Init => LatestFinishExists /\ RechecksAreSpaced
  BY LeftBehindRows
     DEF Init, LatestFinishExists, RechecksAreSpaced, FinishedOf, Finished
<1> QED
  BY <1>1, LatestFinishNext, RechecksAreSpacedNext, QueueInvInvariant, PTL DEF Spec
=============================================================================
