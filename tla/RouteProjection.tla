-------------------------- MODULE RouteProjection ---------------------------
(***************************************************************************)
(* The route_state table: one row per route leg, moved by probe, attempt   *)
(* and recheck evidence.  Pure operators on the table; EventStore applies  *)
(* them inside the ingest transaction.                                     *)
(*                                                                         *)
(* observed_at equals state_changed_at in every statement that writes      *)
(* either, so one field changedAt stands for both.                         *)
(***************************************************************************)
EXTENDS Evidence

RouteStates == {"UNKNOWN", "PROBING", "AVAILABLE", "QUOTA", "AUTH_BLOCKED",
                "TRANSIENT", "CAPABILITY_UNAVAILABLE"}

RouteRow ==
    [state : RouteStates, changedAt : Nat, source : EventIds, retries : Nat,
     resetAfter : Nat, resetKnown : BOOLEAN \cup {None},
     resetAt : Nat \cup {None}, nextCheckAt : Nat \cup {None}]

ASSUME RouteRowAssumption == None \notin RouteRow

RouteTable == [Routes -> RouteRow \cup {None}]

(* What a row says to its readers: the state and since when.               *)
Word == [state : RouteStates, at : Nat]

ASSUME WordAssumption == None \notin Word

(* _ensure_route_row: the first evidence about a route creates its row.    *)
NewRouteRow(e) ==
    [state |-> "UNKNOWN", changedAt |-> e.at, source |-> e.id, retries |-> 0,
     resetAfter |-> 0, resetKnown |-> None, resetAt |-> None,
     nextCheckAt |-> None]

(* Slip: INSERT OR REPLACE where the code has INSERT OR IGNORE.            *)
EnsureRouteRow_Replacing(rows, e) == NewRouteRow(e)

EnsureRouteRow(rows, e) ==
    IF rows[e.route] = None THEN NewRouteRow(e) ELSE rows[e.route]

(* Slip: the lateness test is forgotten.                                   *)
IsLate_Never(row, e) == FALSE

(* _is_late: strictly older than what the row already reflects.            *)
IsLate(row, e) == e.at < row.changedAt

-----------------------------------------------------------------------------
(* Slip: a success leaves the reset of the quota it ends behind.           *)
SuccessRow_KeepingReset(row, e) ==
    [row EXCEPT !.changedAt = e.at, !.source = e.id, !.retries = 0,
                !.state = IF e.type = "route.probe.started"
                            THEN "PROBING" ELSE "AVAILABLE"]

(* _apply_route_success: a started probe parks the route as PROBING and    *)
(* keeps the reset fields; a success makes it AVAILABLE and clears them.   *)
SuccessRow(row, e) ==
    LET seen == [row EXCEPT !.changedAt = e.at, !.source = e.id, !.retries = 0]
    IN  IF e.type = "route.probe.started"
          THEN [seen EXCEPT !.state = "PROBING"]
          ELSE [seen EXCEPT !.state = "AVAILABLE", !.resetAfter = 0,
                            !.resetKnown = None, !.resetAt = None,
                            !.nextCheckAt = None]

ApplyRouteSuccess(rows, e) ==
    LET row == EnsureRouteRow(rows, e)
    IN  [rows EXCEPT ![e.route] =
            IF IsLate(row, e) THEN row ELSE SuccessRow(row, e)]

-----------------------------------------------------------------------------
(* _apply_route_failure.                                                   *)

FailureCategory(e) == classify_reason(e.reason, e.signal)

(* Slip: an unclassified failure gets a state no reader knows.             *)
FailureState_Unclassified(category) ==
    CASE category = "quota"      -> "QUOTA"
      [] category = "auth"       -> "AUTH_BLOCKED"
      [] category = "capability" -> "CAPABILITY_UNAVAILABLE"
      [] category = "transient"  -> "TRANSIENT"
      [] OTHER                   -> "UNCLASSIFIED"

FailureState(category) ==
    CASE category = "quota"      -> "QUOTA"
      [] category = "auth"       -> "AUTH_BLOCKED"
      [] category = "capability" -> "CAPABILITY_UNAVAILABLE"
      [] OTHER                   -> "TRANSIENT"

DefaultReset(route) ==
    IF route \in FreeRoutes THEN FreeReset ELSE SubscriptionReset

(* Quota evidence either names its reset or gets the tier's default.       *)
QuotaRow(row, e) ==
    IF e.resetAfter # 0 /\ e.resetKnown
      THEN [row EXCEPT !.resetAfter = e.resetAfter, !.resetKnown = TRUE,
                       !.resetAt = e.at + e.resetAfter, !.nextCheckAt = None]
      ELSE [row EXCEPT !.resetAfter = IF e.resetAfter # 0 THEN e.resetAfter
                                      ELSE DefaultReset(e.route),
                       !.resetKnown = FALSE, !.resetAt = None,
                       !.nextCheckAt = e.at + DefaultReset(e.route)]

(* Slip: every failure that is not quota spends the retry budget.          *)
FailureRow_CountingAll(row, e) ==
    LET failed == [row EXCEPT !.state = FailureState(FailureCategory(e)),
                              !.changedAt = e.at, !.source = e.id]
    IN  IF FailureCategory(e) = "quota" THEN QuotaRow(failed, e)
        ELSE [failed EXCEPT !.retries = @ + 1]

(* Only a category of "transient" spends the retry budget: an unclassified *)
(* failure reads TRANSIENT and leaves the counter alone.                   *)
FailureRow(row, e) ==
    LET category == FailureCategory(e)
        failed   == [row EXCEPT !.state = FailureState(category),
                                !.changedAt = e.at, !.source = e.id]
    IN  CASE category = "quota"     -> QuotaRow(failed, e)
          [] category = "transient" -> [failed EXCEPT !.retries = @ + 1]
          [] OTHER                  -> failed

(* Context exhaustion never marks a route, but the row it created stays.   *)
ApplyRouteFailure(rows, e) ==
    LET row == EnsureRouteRow(rows, e)
    IN  [rows EXCEPT ![e.route] =
            IF IsLate(row, e) \/ FailureCategory(e) = "context"
              THEN row ELSE FailureRow(row, e)]

-----------------------------------------------------------------------------
(* The route half of apply_event.  "running" says whether the route has a  *)
(* running recheck: a settlement without one never reaches route_state.    *)

(* Slip: a settlement moves the route without looking for its request.     *)
SucceedsRoute_Unclaimed(e, running) ==
    e.type \in {"route.probe.started", "route.probe.succeeded",
               "attempt.completed", "route.recheck.succeeded"}

SucceedsRoute(e, running) ==
    \/ e.type \in {"route.probe.started", "route.probe.succeeded",
                   "attempt.completed"}
    \/ e.type = "route.recheck.succeeded" /\ running

FailsRoute(e, running) ==
    \/ e.type \in {"route.probe.failed", "attempt.failed"}
    \/ e.type = "route.recheck.failed" /\ running

ApplyToRoutes(rows, running, e) ==
    CASE SucceedsRoute(e, running) -> ApplyRouteSuccess(rows, e)
      [] FailsRoute(e, running)    -> ApplyRouteFailure(rows, e)
      [] OTHER                     -> rows

(* What the evidence says of its route, whatever arrived before it.        *)
Verdict(e) ==
    IF FailsRoute(e, TRUE) THEN FailureState(FailureCategory(e))
    ELSE IF e.type = "route.probe.started" THEN "PROBING" ELSE "AVAILABLE"

(* Evidence that moves the route unless it is late: probes and attempts    *)
(* always, rechecks only through the request they settle.                  *)
BearsOnRoute(e) ==
    \/ SucceedsRoute(e, FALSE)
    \/ FailsRoute(e, FALSE) /\ FailureCategory(e) # "context"
=============================================================================
