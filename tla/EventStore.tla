----------------------------- MODULE EventStore -----------------------------
(***************************************************************************)
(* The SQLite event store: an append-only log of evidence and the          *)
(* projections every reader uses, moved together by one transaction.       *)
(*                                                                         *)
(* Producers are many (Pi adapters, the dashboard, the CLI, the recheck    *)
(* worker, outbox drains) and their deliveries reach ingest late, out of   *)
(* order, more than once or never.  The constant Events is the set of      *)
(* deliveries that may occur; any of them may arrive at any time and any   *)
(* number of times, so every order, duplication and loss is a behaviour.   *)
(* BEGIN IMMEDIATE makes an ingest atomic, hence one action; a crash       *)
(* before COMMIT is the delivery that has not happened yet.                *)
(***************************************************************************)
EXTENDS Projections, Sequences, FiniteSets

CONSTANT Events         \* the deliveries producers may make

ASSUME EventsAssumption == Events \subseteq Normalized

VARIABLES
    events,             \* the log, in seq order
    revision            \* metadata.state_revision

vars == <<events, revision, projections>>

Init ==
    /\ events = <<>>
    /\ revision = 0
    /\ ProjectionsInit

-----------------------------------------------------------------------------
Logged(e) == \E i \in DOMAIN events : events[i] = e

IdKnown(id) == \E i \in DOMAIN events : events[i].id = id

(* Slip: the look-up of the event id is skipped.                           *)
IngestNew_Unchecked(e) ==
    /\ events' = Append(events, e)
    /\ ApplyEvent(e)
    /\ revision' = revision + 1

(* A new event: the row is inserted, every projection handler that the     *)
(* type selects runs, and the revision is bumped, in one transaction.      *)
IngestNew(e) ==
    /\ ~IdKnown(e.id)
    /\ events' = Append(events, e)
    /\ ApplyEvent(e)
    /\ revision' = revision + 1

(* A known id with the same payload is answered "duplicate": a no-op.      *)
IngestDuplicate(e) ==
    /\ Logged(e)
    /\ UNCHANGED vars

(* A known id with another payload raises EventConflictError.              *)
IngestConflict(e) ==
    /\ IdKnown(e.id)
    /\ ~Logged(e)
    /\ UNCHANGED vars

Ingest(e) == IngestNew(e) \/ IngestDuplicate(e) \/ IngestConflict(e)

Next == \E e \in Events : Ingest(e)

Spec == Init /\ [][Next]_vars

-----------------------------------------------------------------------------
(* Every table holds rows of its own shape and the log holds events.       *)
TypeOK ==
    /\ events \in Seq(Event)
    /\ revision \in Nat
    /\ ProjectionsTyped
-----------------------------------------------------------------------------
(* The log, as seen from one route.                                        *)
OfRoute(r) == {i \in DOMAIN events : events[i].route = r}

(* A retried delivery is applied once: no id is logged twice and the       *)
(* revision readers poll counts the logged events, no more and no fewer    *)
(* (ingest's duplicate and conflict returns, the bump in its transaction). *)
ExactlyOnce ==
    /\ \A i, j \in DOMAIN events : events[i].id = events[j].id => i = j
    /\ revision = Len(events)

(* The row of a route reflects one logged event, the one it names as its   *)
(* source, and no logged probe or attempt evidence about that route is     *)
(* newer: whatever the order of arrival, a route never reads AVAILABLE     *)
(* over a newer failure nor blocked over a newer success (_is_late and the *)
(* two route handlers).                                                    *)
LatestEvidenceWins ==
    \A r \in Routes :
        /\ \A i \in OfRoute(r) : BearsOnRoute(events[i]) =>
               routes[r] # None /\ events[i].at <= routes[r].changedAt
        /\ routes[r] # None =>
               \E i \in OfRoute(r) :
                   /\ events[i].id = routes[r].source
                   /\ events[i].at = routes[r].changedAt
                   /\ \/ routes[r].state = Verdict(events[i])
                      \/ /\ routes[r].state = "UNKNOWN"
                         /\ FailureCategory(events[i]) = "context"

(* A route under quota always carries a complete reset: either the known   *)
(* instant or the tier's next check, never both and never neither, so the  *)
(* decision engine can always come back to it (_apply_route_failure).      *)
QuotaHasReset ==
    \A r \in Routes : routes[r] # None =>
        /\ routes[r].state = "QUOTA" =>
              /\ routes[r].resetAfter > 0
              /\ \/ /\ routes[r].resetKnown = TRUE
                    /\ routes[r].resetAt =
                         routes[r].changedAt + routes[r].resetAfter
                    /\ routes[r].nextCheckAt = None
                 \/ /\ routes[r].resetKnown = FALSE
                    /\ routes[r].resetAt = None
                    /\ routes[r].nextCheckAt =
                         routes[r].changedAt + DefaultReset(r)
        /\ routes[r].state = "AVAILABLE" => routes[r].resetAfter = 0

(* The logged transient failures the row of a route may have counted.      *)
TransientFailures(r) ==
    {i \in OfRoute(r) : /\ FailsRoute(events[i], TRUE)
                        /\ FailureCategory(events[i]) = "transient"
                        /\ events[i].at <= routes[r].changedAt}

(* The bounded-retry counter is never spent by a redelivery, by another    *)
(* category or by late evidence, and a usable route starts afresh.         *)
RetryBudget ==
    \A r \in Routes : routes[r] # None =>
        /\ routes[r].retries <= Cardinality(TransientFailures(r))
        /\ routes[r].state \in {"UNKNOWN", "PROBING", "AVAILABLE"} =>
               routes[r].retries = 0

-----------------------------------------------------------------------------
(* A second request for a leg that is already queued collapses into it, so *)
(* "LIMIT 1" in the claim has one candidate (_apply_recheck_requested).    *)
OnePendingPerRoute ==
    \A r \in Routes : \A p, q \in RequestsOf(requests, r, "pending") : p = q

(* A recheck settlement moves a route only after a request for that route  *)
(* was queued and then claimed: a settlement out of the blue, or one that  *)
(* overtakes its own start, leaves route_state alone.                      *)
SettlementNeedsClaim ==
    \A r \in Routes : routes[r] # None =>
        \A i \in OfRoute(r) :
            /\ events[i].id = routes[r].source
            /\ events[i].type \in SettleTypes
            => \E j, k \in OfRoute(r) :
                   /\ k < j /\ j < i
                   /\ events[j].type = "route.recheck.started"
                   /\ events[k].type = "route.recheck.requested"

(* A request is queued, claimed and finished once each: a redelivered or   *)
(* late recheck event never reopens a settled request.                     *)
RequestsMoveForward ==
    [][\A q \in EventIds : requests'[q] # requests[q] =>
          \/ requests[q] = None /\ requests'[q].status = "pending"
          \/ /\ requests[q] # None
             /\ requests'[q].route = requests[q].route
             /\ \/ /\ requests[q].status = "pending"
                   /\ requests'[q].status = "running"
                \/ /\ requests[q].status = "running"
                   /\ requests'[q].status \in Finished]_vars

-----------------------------------------------------------------------------
(* A goal's attempt_count is the number of distinct attempt.started events *)
(* logged for it, whatever was redelivered or raced the goal's own start.  *)
AttemptCountExact ==
    \A g \in Goals :
        LET starts == {i \in DOMAIN events : /\ events[i].type = "attempt.started"
                                             /\ events[i].goal = g
                                             /\ events[i].attempt # None}
        IN  IF goals[g] = None THEN starts = {}
            ELSE goals[g].attempts = Cardinality(starts)

(* An attempt never points at a goal the goals table does not have, even   *)
(* when the attempt's events arrive before the goal's.                     *)
AttemptsBelongToGoals ==
    \A a \in Attempts :
        attempts[a] # None /\ attempts[a].goal # None
            => goals[attempts[a].goal] # None

(* What every reader takes for granted of the tables: an event is applied  *)
(* once, a row under quota says when it ends, and an attempt has its goal  *)
(* (ingest, _apply_route_failure, _apply_attempt_started).                 *)
TablesAreSound == TypeOK /\ ExactlyOnce /\ QuotaHasReset /\ AttemptsBelongToGoals

(* A goal of which every event said free-only is pinned to the free ladder:*)
(* neither a context escalation nor a resume that names another strategy   *)
(* widens it (_apply_goal, _apply_context_escalation).                     *)
FreeOnlyPinned ==
    \A g \in Goals :
        /\ goals[g] # None
        /\ \A i \in DOMAIN events :
               events[i].goal = g => events[i].freeOnly = TRUE
        => goals[g].effective = "free-first"

-----------------------------------------------------------------------------
(* Promises of the repository that the code breaks: TLC finds each of      *)
(* these violated (README, Divergences).                                   *)

(* "Late evidence stays in history but never overwrites newer state"       *)
(* (events.py), said of goals: a status is never replaced by one that was  *)
(* reported for an earlier instant.                                        *)
LateGoalEventsNeverOverwrite ==
    [][\A g \in Goals :
          goals[g] # None /\ goals'[g].status # goals[g].status
              => goals'[g].activityAt >= goals[g].activityAt]_vars

(* The same sentence said of attempts: a completed attempt is not set      *)
(* running again by a start that was reported for an earlier instant.      *)
LateAttemptEventsNeverOverwrite ==
    [][\A a \in Attempts :
          attempts[a] # None /\ attempts'[a].status # attempts[a].status
              => attempts'[a].heartbeatAt >= attempts[a].heartbeatAt]_vars

-----------------------------------------------------------------------------
(* Seen from outside, each route is a register that keeps the newest word  *)
(* about it; see LatestEvidence for the promise the store implements.      *)
Register ==
    [r \in Routes |-> IF routes[r] = None THEN None
                      ELSE [state |-> routes[r].state, at |-> routes[r].changedAt]]

Promise == INSTANCE LatestEvidence WITH word <- Register

ImplementsLatestEvidence == Promise!Spec
=============================================================================
