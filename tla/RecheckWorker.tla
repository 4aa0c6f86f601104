--------------------------- MODULE RecheckWorker ----------------------------
(***************************************************************************)
(* The recheck worker and the queue it drains: producers (dashboard, CLI)  *)
(* queue "probe this leg" requests, one daemon thread of the service reads *)
(* the queue, times out what a dead worker left running, claims one        *)
(* request, probes the leg and ingests the settlement.                     *)
(*                                                                         *)
(* Each read and each ingest of recheck.step is an action of its own, so   *)
(* requests arrive and the process dies between any two of them.  Ingests  *)
(* go through ApplyEvent, the projection code of EventStore; the ids of    *)
(* the worker's own events are random and never read back, so one id       *)
(* stands for them all.                                                    *)
(*                                                                         *)
(* A pass stops at a request it cannot claim: one whose key does not name  *)
(* a leg, which a rebuild of the tables leaves for a request that named    *)
(* none, and one for a leg whose events the store rejects as truncated.    *)
(*                                                                         *)
(* Time is a clock in minutes.  The worker polls every five seconds and a  *)
(* probe is killed after one minute, hence a pass in every minute it is up.*)
(***************************************************************************)
EXTENDS Projections, FiniteSets, Integers

CONSTANTS
    WorkerId,           \* the id of the events the worker ingests
    Truncated,          \* legs whose started events the store rejects
    Leftover,           \* bound: requests a rebuild may have left behind
    ProbeAnswers,       \* the answers probes may give
    ProbeResets,        \* resetAfterMs values of a quota answer, 0 if absent
    RECHECK_TIMEOUT,    \* minutes until a probe is killed
    STALE_RUNNING,      \* minutes until a running request is given up
    RECHECK_COOLDOWN,   \* minutes between two rechecks of one leg
    LastRequest,        \* bound: producers make no request after this minute
    MaxTime,            \* bound: the clock stops here
    MaxDown,            \* bound: minutes a dead worker stays down
    MaxAborts           \* bound: passes that die or raise half way

(* PROBE_STATUSES, with "error" for a reported "timeout" too, "none" for a *)
(* probe that reports no status and "raised" for one that raises.          *)
ProbeAnswerSet == {"healthy", "quota", "auth", "model", "error", "none", "raised"}

ASSUME WorkerAssumption ==
    /\ WorkerId \in EventIds
    /\ Truncated \subseteq Routes
    /\ Leftover \subseteq EventIds \ {WorkerId}
    /\ ProbeAnswers \subseteq ProbeAnswerSet
    /\ ProbeResets \subseteq Nat
    /\ {RECHECK_TIMEOUT, STALE_RUNNING, RECHECK_COOLDOWN} \subseteq Nat
    /\ 0 < RECHECK_TIMEOUT
    /\ RECHECK_TIMEOUT < STALE_RUNNING
    /\ STALE_RUNNING < RECHECK_COOLDOWN
    /\ {LastRequest, MaxDown, MaxAborts} \subseteq Nat
    /\ MaxTime \in Nat \ {0}

VARIABLES
    now,                \* the wall clock
    pc,                 \* where the worker's pass stands
    head,               \* the pending request the pass has read, or None
    passAt,             \* the pass's "now"; the minute of death while down
    polled,             \* a pass has ended in this minute
    aborts,             \* passes that died or raised so far
    marked              \* requests whose "<id>:malformed" event is logged

worker == <<pc, head, passAt, polled, aborts, marked>>
vars == <<now, worker, projections>>

(* The pending row a rebuild gives a request that named no leg, under the  *)
(* malformed key k.                                                        *)
LeftRow(k) ==
    [route |-> k, status |-> "pending", requestedAt |-> 0,
     startedAt |-> None, finishedAt |-> None]

(* The queues a rebuild may leave: requests under one key have collapsed.  *)
LeftBehind ==
    {t \in [EventIds -> {None} \cup {LeftRow(k) : k \in MalformedKeys}] :
        /\ \A q \in EventIds \ Leftover : t[q] = None
        /\ \A p, q \in EventIds : t[p] = t[q] /\ t[p] # None => p = q}

Init ==
    /\ routes = [r \in Routes |-> None]
    /\ requests \in LeftBehind
    /\ goals = [g \in Goals |-> None]
    /\ attempts = [a \in Attempts |-> None]
    /\ now = 1
    /\ pc = "idle"
    /\ head = None
    /\ passAt = 1
    /\ polled = FALSE
    /\ aborts = 0
    /\ marked = {}

-----------------------------------------------------------------------------
RecheckEvent(id, type, route, at, reason, resetAfter) ==
    [id |-> id, type |-> type, at |-> at, route |-> route, goal |-> None,
     attempt |-> None, reason |-> reason, signal |-> None,
     resetAfter |-> resetAfter, resetKnown |-> FALSE, strategy |-> None,
     freeOnly |-> None]

(* _request_recheck and cmd_route_recheck: a new request under a new id.   *)
Request(r) ==
    /\ now <= LastRequest
    /\ \E q \in EventIds \ {WorkerId} : requests[q] = None
    /\ LET q == CHOOSE q \in EventIds \ {WorkerId} : requests[q] = None
       IN  ApplyEvent(RecheckEvent(q, "route.recheck.requested", r, now, "other", 0))
    /\ UNCHANGED <<now, worker>>

-----------------------------------------------------------------------------
Having(status) == {q \in EventIds : requests[q] # None /\ requests[q].status = status}

(* Slip: the list is used in the order it is read, newest request first.   *)
Heads_Newest == {q \in Having("pending") : \A p \in Having("pending") :
                     requests[p].requestedAt <= requests[q].requestedAt}

(* recheck_requests(status="pending") sorted by requested_at: its first.   *)
Heads == {q \in Having("pending") : \A p \in Having("pending") :
              requests[q].requestedAt <= requests[p].requestedAt}

(* The start of a pass: the pending list is read before the sweep.         *)
ReadQueue ==
    /\ pc = "idle"
    /\ head' \in IF Heads = {} THEN {None} ELSE Heads
    /\ pc' = "sweeping"
    /\ passAt' = now
    /\ UNCHANGED <<now, polled, aborts, marked, projections>>

(* Slip: milliseconds are compared with seconds.                           *)
Stale_Units ==
    {q \in Having("running") : /\ requests[q].route \in Routes
                               /\ passAt - requests[q].startedAt > 1000 * STALE_RUNNING}

(* A row whose key names no leg is passed over by the sweep.               *)
Stale ==
    {q \in Having("running") : /\ requests[q].route \in Routes
                               /\ passAt - requests[q].startedAt > STALE_RUNNING}

(* A running request left behind by a dead worker is failed; the ingest    *)
(* settles the oldest running request of that route.                       *)
SweepStale ==
    /\ pc = "sweeping"
    /\ \E q \in Stale :
          ApplyEvent(RecheckEvent(WorkerId, "route.recheck.failed",
                                  requests[q].route, passAt, "recheck.timeout", 0))
    /\ UNCHANGED <<now, worker>>

EndPass ==
    /\ pc' = "idle"
    /\ head' = None
    /\ polled' = TRUE
    /\ UNCHANGED <<now, passAt, aborts>>

NothingPending ==
    /\ pc = "sweeping" /\ Stale = {}
    /\ head = None
    /\ EndPass
    /\ UNCHANGED <<marked, projections>>

(* The head's key names no leg: the pass says so in the log, under an id   *)
(* of the request's, and leaves the request pending.  (The event is about  *)
(* the leg "unknown", which nobody routes to.)                             *)
RecordMalformed ==
    /\ pc = "sweeping" /\ Stale = {}
    /\ head # None
    /\ requests[head].route \in MalformedKeys
    /\ head \notin marked
    /\ marked' = marked \cup {head}
    /\ EndPass
    /\ UNCHANGED projections

FinishedOf(r) == {q \in EventIds : /\ requests[q] # None
                                   /\ requests[q].route = r
                                   /\ requests[q].status \in Finished}

(* Slip: ORDER BY finished_at without DESC.                                *)
CooldownActive_Earliest(r) ==
    \E q \in FinishedOf(r) :
        /\ \A p \in FinishedOf(r) : requests[q].finishedAt <= requests[p].finishedAt
        /\ passAt - requests[q].finishedAt < RECHECK_COOLDOWN

(* _cooldown_active: decided by the latest finish of the route.            *)
CooldownActive(r) ==
    \E q \in FinishedOf(r) :
        /\ \A p \in FinishedOf(r) : requests[p].finishedAt <= requests[q].finishedAt
        /\ passAt - requests[q].finishedAt < RECHECK_COOLDOWN

(* The pass ends at a request whose leg is cooling down, whatever else is  *)
(* pending behind it.                                                      *)
SkipCoolingDown ==
    /\ pc = "sweeping" /\ Stale = {}
    /\ head # None
    /\ requests[head].route \in Routes
    /\ CooldownActive(requests[head].route)
    /\ EndPass
    /\ UNCHANGED <<marked, projections>>

Claim ==
    /\ pc = "sweeping" /\ Stale = {}
    /\ head # None
    /\ requests[head].route \in Routes \ Truncated
    /\ ~CooldownActive(requests[head].route)
    /\ ApplyEvent(RecheckEvent(WorkerId, "route.recheck.started",
                               requests[head].route, passAt, "other", 0))
    /\ pc' = "probing"
    /\ UNCHANGED <<now, head, passAt, polled, aborts, marked>>

(* An ingest of the pass raises and the loop of RecheckWorker.run swallows *)
(* it: the "<id>:malformed" event is logged under another time already, or *)
(* the store rejects the start of a truncated leg.                         *)
Raise ==
    /\ pc = "sweeping" /\ Stale = {}
    /\ head # None
    /\ \/ head \in marked
       \/ /\ requests[head].route \in Truncated
          /\ ~CooldownActive(requests[head].route)
    /\ EndPass
    /\ UNCHANGED <<marked, projections>>

(* Slip: a failing probe is reported as a plain probe, not a settlement.   *)
SettleType_Probe(answer) ==
    IF answer = "healthy" THEN "route.recheck.succeeded" ELSE "route.probe.failed"

(* _from_probe_status, and "none" for every probe that did not answer:     *)
(* no executor, killed at its timeout, no status line in its output.       *)
SettleType(answer) ==
    CASE answer = "healthy" -> "route.recheck.succeeded"
      [] answer = "none"    -> "route.recheck.blocked"
      [] OTHER              -> "route.recheck.failed"

SettleReason ==
    [healthy |-> "other", quota |-> "quota.probe_confirmed",
     auth |-> "auth.probe_failed", model |-> "capability.not_offered",
     error |-> "transient.failure", none |-> "other", raised |-> "other"]

(* _settle: stamped when the probe ends; a quota answer may carry a reset, *)
(* never marked as known.                                                  *)
Settle(answer) ==
    /\ pc = "probing"
    /\ \E reset \in IF answer = "quota" THEN ProbeResets ELSE {0} :
          ApplyEvent(RecheckEvent(WorkerId, SettleType(answer),
                                  requests[head].route, now,
                                  SettleReason[answer], reset))
    /\ EndPass
    /\ UNCHANGED marked

(* The process dies, or an ingest raises TransactionBusy and the loop of   *)
(* RecheckWorker.run swallows it: what the pass had in hand is forgotten.  *)
Abort ==
    /\ pc \in {"sweeping", "probing"}
    /\ aborts < MaxAborts
    /\ aborts' = aborts + 1
    /\ pc' = "down"
    /\ head' = None
    /\ passAt' = now
    /\ UNCHANGED <<now, polled, marked, projections>>

Restart ==
    /\ pc = "down"
    /\ pc' = "idle"
    /\ UNCHANGED <<now, head, passAt, polled, aborts, marked, projections>>

Tick ==
    /\ now < MaxTime
    /\ \/ pc = "idle" /\ polled
       \/ pc = "probing" /\ now < passAt + RECHECK_TIMEOUT
       \/ pc = "down" /\ now < passAt + MaxDown
    /\ now' = now + 1
    /\ polled' = FALSE
    /\ UNCHANGED <<pc, head, passAt, aborts, marked, projections>>

Pass ==
    \/ ReadQueue
    \/ SweepStale
    \/ NothingPending
    \/ RecordMalformed
    \/ SkipCoolingDown
    \/ Claim
    \/ Raise
    \/ \E answer \in ProbeAnswers : Settle(answer)
    \/ Restart

Next == Pass \/ Abort \/ Tick \/ \E r \in Routes : Request(r)

(* The thread loops for ever (serve starts it, its loop catches every      *)
(* exception) and a dead service is started again by its logon task.  Time *)
(* passes: the clock waits for the end of a pass but is not held up by a   *)
(* run of passes that never ends, hence SF.  Nobody has to ask or abort.   *)
Spec == Init /\ [][Next]_vars /\ WF_vars(Pass) /\ SF_vars(Tick)

-----------------------------------------------------------------------------
TypeOK ==
    /\ ProjectionsTyped
    /\ now \in 1..MaxTime
    /\ pc \in {"idle", "sweeping", "probing", "down"}
    /\ head \in EventIds \cup {None}
    /\ passAt \in 1..now
    /\ polled \in BOOLEAN
    /\ aborts \in 0..MaxAborts
    /\ marked \subseteq EventIds

(* While the worker probes, the request it read at the head of the queue   *)
(* is the one its start claimed, and it is still running: neither requests *)
(* that arrived since the read nor rows left by a dead worker take its     *)
(* place (step's read-before-sweep, _apply_recheck_started).               *)
ProbesWhatItClaimed ==
    pc = "probing" => /\ requests[head].status = "running"
                      /\ requests[head].startedAt = passAt

(* Only an aborted pass strands a running request: the worker runs one     *)
(* probe at a time and every pass that ends has settled what it claimed.   *)
OnlyAbortsStrand ==
    Cardinality(Having("running")) <= aborts + (IF pc = "probing" THEN 1 ELSE 0)

(* Requests are claimed in the order they were queued, across legs.        *)
FirstComeFirstServed ==
    \A p, q \in EventIds :
        /\ requests[p] # None /\ requests[q] # None
        /\ requests[p].requestedAt < requests[q].requestedAt
        /\ requests[q].startedAt # None
        => requests[p].startedAt # None

(* What a pass does for the queue: it probes what it claimed, and claims   *)
(* in the order of the requests (step, _apply_recheck_started).            *)
ServesInTurn == TypeOK /\ ProbesWhatItClaimed /\ FirstComeFirstServed

(* A leg is left alone for the whole cooldown after any of its requests    *)
(* finished, be it settled by a probe or given up by the sweep.            *)
RechecksAreSpaced ==
    \A p, q \in EventIds :
        /\ requests[p] # None /\ requests[q] # None /\ p # q
        /\ requests[p].route = requests[q].route
        /\ requests[p].finishedAt # None /\ requests[q].startedAt # None
        => \/ requests[q].startedAt - requests[p].finishedAt >= RECHECK_COOLDOWN
           \/ requests[q].startedAt <= requests[p].finishedAt

(* A pending request no pass can claim.                                    *)
Stuck(p) == p \in Having("pending") /\ requests[p].route \in MalformedKeys \cup Truncated

(* Every queued request is settled in the end, through any interleaving of *)
(* requests, cooldowns and aborted passes, unless one that no pass can     *)
(* claim is in front of it: a pass looks at the oldest request only (step).*)
EveryRequestSettles ==
    \A q \in EventIds \ {WorkerId} :
        (requests[q] # None) ~>
            /\ requests[q] # None
            /\ \/ requests[q].status \in Finished
               \/ \E p \in EventIds : Stuck(p) /\ requests[p].requestedAt
                                                   <= requests[q].requestedAt

-----------------------------------------------------------------------------
(* Promises of the repository that the code breaks: TLC finds each of      *)
(* these violated (README, Divergences).                                   *)

(* The worker "claims the oldest pending request per route, ingests        *)
(* started, runs one bounded probe, then ingests the settlement" (docstring*)
(* of recheck.py): a settlement finishes the request that was claimed.     *)
SettlesItsClaim ==
    [][pc = "probing" /\ pc' = "idle" => requests'[head].status \in Finished]_vars

(* "A recheck can never stay pending forever" (same docstring): every      *)
(* request is settled in the end.                                          *)
NoRequestWaitsForever ==
    \A q \in EventIds \ {WorkerId} :
        (requests[q] # None) ~> (requests[q] # None /\ requests[q].status \in Finished)

(* "Every pass either advances a request or records why it cannot run"     *)
(* (same docstring): a pass that found a pending request and ran to its    *)
(* end has changed the recheck table.                                      *)
PassesAdvance ==
    [][pc = "sweeping" /\ pc' = "idle" /\ head # None
          => requests' # requests]_vars
=============================================================================
