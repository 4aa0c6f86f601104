------------------------- MODULE RecheckProjection --------------------------
(***************************************************************************)
(* The recheck_requests table: a queue of "probe this one leg" requests.   *)
(* A row is named by the event that requested it and moves from pending to *)
(* running to one of the three finished outcomes.                          *)
(***************************************************************************)
EXTENDS Evidence

Finished == {"finished:succeeded", "finished:failed", "finished:blocked"}
RequestStatuses == {"pending", "running"} \cup Finished

RequestRow == [route : Routes \cup MalformedKeys, status : RequestStatuses,
               requestedAt : Nat, startedAt : Nat \cup {None},
               finishedAt : Nat \cup {None}]

ASSUME RequestRowAssumption == None \notin RequestRow

RequestTable == [EventIds -> RequestRow \cup {None}]

(* The requests of a route that have a given status.                       *)
RequestsOf(requests, route, status) ==
    {q \in EventIds : /\ requests[q] # None
                      /\ requests[q].route = route
                      /\ requests[q].status = status}

HasRunning(requests, route) == RequestsOf(requests, route, "running") # {}

(* ORDER BY requested_at LIMIT 1 and ORDER BY started_at LIMIT 1 pick one  *)
(* of these; SQLite promises no order among equal instants.                *)
OldestPending(requests, route) ==
    LET P == RequestsOf(requests, route, "pending")
    IN  {q \in P : \A p \in P : requests[q].requestedAt <= requests[p].requestedAt}

OldestRunning(requests, route) ==
    LET R == RequestsOf(requests, route, "running")
    IN  {q \in R : \A p \in R : requests[q].startedAt <= requests[p].startedAt}

(* Slip: requests for a leg that is already queued do not collapse.        *)
RecheckRequested_Uncollapsed(requests, e) ==
    IF e.route = None \/ requests[e.id] # None THEN requests
    ELSE [requests EXCEPT ![e.id] =
             [route |-> e.route, status |-> "pending",
              requestedAt |-> e.at, startedAt |-> None, finishedAt |-> None]]

(* _apply_recheck_requested: one pending row per route, the rest collapse. *)
RecheckRequested(requests, e) ==
    IF \/ e.route = None
       \/ RequestsOf(requests, e.route, "pending") # {}
       \/ requests[e.id] # None
      THEN requests
      ELSE [requests EXCEPT ![e.id] =
               [route |-> e.route, status |-> "pending",
                requestedAt |-> e.at, startedAt |-> None, finishedAt |-> None]]

(* _apply_recheck_started: claims the oldest pending row of the route.     *)
RecheckStarted(requests, e) ==
    IF RequestsOf(requests, e.route, "pending") = {} THEN {requests}
      ELSE {[requests EXCEPT ![q].status = "running", ![q].startedAt = e.at] :
                q \in OldestPending(requests, e.route)}

(* Slip: the event type is stored in place of the outcome.                 *)
SettleStatus_Verbatim(e) == e.type

SettleStatus(e) ==
    CASE e.type = "route.recheck.succeeded" -> "finished:succeeded"
      [] e.type = "route.recheck.failed"    -> "finished:failed"
      [] OTHER                              -> "finished:blocked"

(* Slip: the UPDATE names the route and not the row.                       *)
RecheckSettled_WholeRoute(requests, e) ==
    IF ~HasRunning(requests, e.route) THEN {requests}
      ELSE {[q \in EventIds |->
                IF requests[q] # None /\ requests[q].route = e.route
                  THEN [requests[q] EXCEPT !.status = SettleStatus(e),
                                           !.finishedAt = e.at]
                  ELSE requests[q]]}

(* _apply_recheck_settled: finishes the oldest running row of the route.   *)
RecheckSettled(requests, e) ==
    IF ~HasRunning(requests, e.route) THEN {requests}
      ELSE {[requests EXCEPT ![q].status = SettleStatus(e), ![q].finishedAt = e.at] :
                q \in OldestRunning(requests, e.route)}

(* The recheck half of apply_event: the tables the handler may leave.      *)
ApplyToRequests(requests, e) ==
    CASE e.type = "route.recheck.requested" -> {RecheckRequested(requests, e)}
      [] e.type = "route.recheck.started"   -> RecheckStarted(requests, e)
      [] e.type \in SettleTypes             -> RecheckSettled(requests, e)
      [] OTHER                              -> {requests}
=============================================================================
