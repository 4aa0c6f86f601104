------------------------------ MODULE Rebuild -------------------------------
(***************************************************************************)
(* EventStore with the two maintenance jobs of the command line, run while *)
(* the service goes on ingesting: "cmo db rebuild" replays the log into    *)
(* empty projections, "cmo quarantine-fixtures" first deletes synthetic    *)
(* evidence that an older build let in.                                    *)
(*                                                                         *)
(* rebuild reads the log before it begins its transaction, and the         *)
(* quarantine deletes in a transaction of its own, so an ingest, a crash   *)
(* or both may come between any two of the steps below.                    *)
(***************************************************************************)
EXTENDS EventStore, Sorting, SequencesExt

CONSTANTS
    FixtureIds,         \* ids of events with a fixture source or goal
    Truncated,          \* keys with a truncated account or model
    KeyOnReplay,        \* what a replay makes of an incomplete identity
    Legacy              \* logs an older build may have left behind

ASSUME RebuildAssumption ==
    /\ FixtureIds \subseteq EventIds
    /\ Truncated \subseteq Routes \cup MalformedKeys
    /\ KeyOnReplay \in [EventIds -> MalformedKeys]
    /\ \A log \in Legacy :
          /\ log \in Seq(Normalized)                   \* event_id is the key
          /\ \A i, j \in DOMAIN log : log[i].id = log[j].id => i = j

VARIABLES
    maintenance,        \* the job at work: [pc, job, rows, doomed]
    receipt,            \* whether quarantine-fixtures-v1 has its receipt
    missed,             \* for the properties: logged, not in the projections
    ghosts              \* for the properties: projected, no longer logged

jobVars == <<maintenance, receipt, missed, ghosts>>

NoJob == [pc |-> "idle", job |-> None, rows |-> <<>>, doomed |-> {}]

(* The log has no column for the key: a replay computes it from the        *)
(* identity the row has, complete or not.                                  *)
ReplayedKey(e) == IF e.route = None THEN KeyOnReplay[e.id] ELSE e.route

Replayed(e) == [e EXCEPT !.route = ReplayedKey(e)]

(* Slip: truncated identities are let in.                                  *)
Rejected_FixturesOnly(e) == e.id \in FixtureIds

(* _reject_fixture_evidence: what a live store does not let in.  A request *)
(* is not among the events whose identity it looks at.                     *)
Rejected(e) ==
    \/ e.id \in FixtureIds
    \/ e.type \in ROUTE_EVENTS /\ e.route \in Truncated

(* What quarantine_fixtures selects: a request is route.%.                 *)
Quarantined(e) ==
    \/ e.id \in FixtureIds
    \/ /\ e.type \in ROUTE_EVENTS \cup {"route.recheck.requested"}
       /\ ReplayedKey(e) \in Truncated

-----------------------------------------------------------------------------
(* The projections as one value, and the replay of a sequence of events.   *)
Tables == [routes |-> routes, requests |-> requests,
           goals |-> goals, attempts |-> attempts]

EmptyTables ==
    [routes |-> [r \in Routes |-> None], requests |-> [q \in EventIds |-> None],
     goals |-> [g \in Goals |-> None], attempts |-> [a \in Attempts |-> None]]

(* Slip: the goals table is missing from the list of tables to clear.      *)
Cleared_KeepingGoals(t) == [EmptyTables EXCEPT !.goals = t.goals]

Cleared(t) == EmptyTables

AppliedTo(t, e) ==
    {[routes   |-> ApplyToRoutes(t.routes, HasRunning(t.requests, e.route), e),
      requests |-> rq,
      goals    |-> ApplyToGoals(t.goals, e),
      attempts |-> ApplyToAttempts(t.attempts, e)] :
        rq \in ApplyToRequests(t.requests, e)}

(* The tables a replay may end with: a claim may choose among equals.      *)
Replay(start, log) ==
    LET after[n \in 0..Len(log)] ==
            IF n = 0 THEN {start}
            ELSE UNION {AppliedTo(t, Replayed(log[n])) : t \in after[n - 1]}
    IN  after[Len(log)]

(* The entries of a log at the indexes S, in the order of the pairs before.*)
InOrder(log, S, before) ==
    LET order == Ordered(S, before)
    IN  [n \in DOMAIN order |-> log[order[n]]]

Pairs(log) == (DOMAIN log) \X (DOMAIN log)

(* Slip: equal timestamps are replayed newest first.                       *)
ByTime_Reversed(log) ==
    InOrder(log, DOMAIN log,
            {p \in Pairs(log) : \/ log[p[1]].at < log[p[2]].at
                                \/ log[p[1]].at = log[p[2]].at /\ p[1] > p[2]})

(* ORDER BY occurred_at, seq.                                              *)
ByTime(log) ==
    InOrder(log, DOMAIN log,
            {p \in Pairs(log) : \/ log[p[1]].at < log[p[2]].at
                                \/ log[p[1]].at = log[p[2]].at /\ p[1] < p[2]})

(* What a DELETE leaves of a log, in the order of seq.                     *)
Without(log, doomed) ==
    InOrder(log, {i \in DOMAIN log : log[i] \notin doomed},
            {p \in Pairs(log) : p[1] < p[2]})

SetTables(t) ==
    /\ routes' = t.routes
    /\ requests' = t.requests
    /\ goals' = t.goals
    /\ attempts' = t.attempts

-----------------------------------------------------------------------------
RebuildInit ==
    /\ events \in Legacy
    /\ revision = Len(events)
    /\ \E t \in Replay(EmptyTables, events) :
          routes = t.routes /\ requests = t.requests
              /\ goals = t.goals /\ attempts = t.attempts
    /\ maintenance = NoJob
    /\ receipt = FALSE
    /\ missed = {}
    /\ ghosts = {}

(* The service ingests on.                                                 *)
IngestLive(e) ==
    /\ ~Rejected(e)
    /\ Ingest(e)
    /\ UNCHANGED jobVars

BeginRebuild ==
    /\ maintenance.pc = "idle"
    /\ maintenance' = [NoJob EXCEPT !.pc = "chosen", !.job = "rebuild"]
    /\ UNCHANGED <<vars, receipt, missed, ghosts>>

(* quarantine_fixtures: SELECT the ids to delete ...                       *)
SelectDoomed ==
    /\ maintenance.pc = "idle"
    /\ maintenance' = [NoJob EXCEPT !.pc = "selected", !.job = "quarantine",
                          !.doomed = {e \in ToSet(events) : Quarantined(e)}]
    /\ UNCHANGED <<vars, receipt, missed, ghosts>>

(* ... DELETE them in one transaction, if there are any.                   *)
DeleteDoomed ==
    /\ maintenance.pc = "selected"
    /\ events' = Without(events, maintenance.doomed)
    /\ ghosts' = ghosts \cup maintenance.doomed
    /\ missed' = missed \ maintenance.doomed
    /\ maintenance' = [maintenance EXCEPT !.pc = "chosen"]
    /\ UNCHANGED <<revision, projections, receipt>>

(* rebuild: fetchall of the whole log, before BEGIN IMMEDIATE.             *)
ReadHistory ==
    /\ maintenance.pc = "chosen"
    /\ maintenance' = [maintenance EXCEPT !.pc = "read", !.rows = ByTime(events)]
    /\ UNCHANGED <<vars, receipt, missed, ghosts>>

(* The tables are cleared and the rows replayed; the revision becomes the  *)
(* number of rows; one transaction.  The catalog, override and heartbeat   *)
(* tables are cleared and replayed alike; metadata keys are not.           *)
ReplayHistory ==
    /\ maintenance.pc = "read"
    /\ \E t \in Replay(Cleared(Tables), maintenance.rows) : SetTables(t)
    /\ revision' = Len(maintenance.rows)
    /\ missed' = ToSet(events) \ ToSet(maintenance.rows)
    /\ ghosts' = ToSet(maintenance.rows) \ ToSet(events)
    /\ maintenance' = IF maintenance.job = "rebuild" THEN NoJob
                      ELSE [maintenance EXCEPT !.pc = "replayed"]
    /\ UNCHANGED <<events, receipt>>

(* Slip: the receipt is recorded once the deletion has committed.          *)
RecordReceipt_Early ==
    /\ maintenance.job = "quarantine"
    /\ maintenance.pc \in {"chosen", "replayed"}
    /\ receipt' = TRUE
    /\ maintenance' = IF maintenance.pc = "replayed" THEN NoJob ELSE maintenance
    /\ UNCHANGED <<vars, missed, ghosts>>

RecordReceipt ==
    /\ maintenance.pc = "replayed"
    /\ receipt' = TRUE
    /\ maintenance' = NoJob
    /\ UNCHANGED <<vars, missed, ghosts>>

Crash ==
    /\ maintenance.pc # "idle"
    /\ maintenance' = NoJob
    /\ UNCHANGED <<vars, receipt, missed, ghosts>>

Maintain ==
    \/ BeginRebuild \/ SelectDoomed \/ DeleteDoomed
    \/ ReadHistory \/ ReplayHistory \/ RecordReceipt \/ Crash

RebuildNext == Maintain \/ \E e \in Events : IngestLive(e)

RebuildSpec == RebuildInit /\ [][RebuildNext]_<<vars, jobVars>>

-----------------------------------------------------------------------------
Faithful == missed = {} /\ ghosts = {}

(* A replay of the whole log leaves counters as exact as ingest does: the  *)
(* revision counts the log, every goal counts its attempts once and every  *)
(* attempt has its goal, whatever order the log is replayed in.            *)
WholeReplayIsExact ==
    Faithful => ExactlyOnce /\ AttemptCountExact /\ AttemptsBelongToGoals

(* A replay of the whole log leaves each route with its newest evidence.   *)
WholeReplayKeepsTheNewestWord == Faithful => LatestEvidenceWins

(* Evidence whose effect on its route does not depend on arrival order.    *)
OrderFree(e) == BearsOnRoute(e) \/ e.type \notin ROUTE_EVENTS

(* A replay of a log of probe and attempt evidence, in the order of the    *)
(* timestamps, says of each route what ingest said in the order of arrival.*)
ReplayAgreesWithArrival ==
    [][/\ Faithful
       /\ maintenance.pc = "read"
       /\ ToSet(maintenance.rows) = ToSet(events)
       /\ \A e \in ToSet(events) : OrderFree(e)
       /\ revision' = Len(maintenance.rows)
       /\ events' = events
       => Register' = Register]_<<vars, jobVars>>

(* Once the quarantine has its receipt, nothing that ingest would reject   *)
(* is in the log or shapes a row, whatever was ingested meanwhile: no row  *)
(* comes from a fixture and no truncated leg has one                       *)
(* (quarantine_fixtures, _reject_fixture_evidence).                        *)
ReceiptMeansNoFixtureRow ==
    receipt =>
        /\ \A e \in ToSet(events) : ~Rejected(e)
        /\ \A r \in Routes : routes[r] # None =>
               r \notin Truncated /\ routes[r].source \notin FixtureIds
        /\ \A q \in FixtureIds : requests[q] = None

-----------------------------------------------------------------------------
(* Promises of the repository that the code breaks: TLC finds each of      *)
(* these violated (README, Divergences).                                   *)

(* "Replay the event history into deterministic projections" (rebuild):    *)
(* no event of the history is missing from the projections.                *)
HistoryIsReplayed == missed = {}

(* "Raises EventValidationError when a fixture source, fixture goal id, or *)
(* truncated route identity targets a non-test database"                   *)
(* (_reject_fixture_evidence): nothing the quarantine removes comes back.  *)
FixturesStayOut == receipt => \A e \in ToSet(events) : ~Quarantined(e)

(* "Exactly one leg per request" (recheck.py): what is queued is a leg.    *)
RequestsNameLegs ==
    \A q \in EventIds : requests[q] # None => requests[q].route \in Routes

(* The quarantine replays "so no projection row is left behind that was    *)
(* shaped only by quarantined evidence" (quarantine_fixtures).             *)
NoQuarantinedRowLeft ==
    maintenance.pc = "idle" =>
        \A r \in Routes : routes[r] # None =>
            \E e \in ToSet(events) : e.route = r

(* "repeated calls are a no-op returning zero removals"                    *)
(* (quarantine_fixtures): a call that removes nothing changes no row.      *)
RepeatedCallIsNoOp ==
    [][/\ maintenance.job = "quarantine"
       /\ maintenance.doomed = {}
       /\ maintenance'.pc = "replayed"
       /\ Faithful
       => UNCHANGED projections]_<<vars, jobVars>>
=============================================================================
