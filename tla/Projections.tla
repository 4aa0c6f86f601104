---------------------------- MODULE Projections -----------------------------
(***************************************************************************)
(* The projection tables of the store, and apply_event: the one dispatcher *)
(* that moves them.  Its handlers are the pure operators of the modules    *)
(* this one extends; it always runs inside the transaction of an ingest.   *)
(***************************************************************************)
EXTENDS RouteProjection, RecheckProjection, WorkProjection

VARIABLES
    routes,             \* route_state
    requests,           \* recheck_requests
    goals,              \* goals
    attempts            \* attempts

projections == <<routes, requests, goals, attempts>>

ProjectionsInit ==
    /\ routes = [r \in Routes |-> None]
    /\ requests = [q \in EventIds |-> None]
    /\ goals = [g \in Goals |-> None]
    /\ attempts = [a \in Attempts |-> None]

ProjectionsTyped ==
    /\ routes \in RouteTable
    /\ requests \in RequestTable
    /\ goals \in GoalTable
    /\ attempts \in AttemptTable

(* A settlement moves the route it settles in the same call, so the route  *)
(* handler sees the requests as they were.                                 *)
ApplyEvent(e) ==
    /\ routes' = ApplyToRoutes(routes, HasRunning(requests, e.route), e)
    /\ requests' \in ApplyToRequests(requests, e)
    /\ goals' = ApplyToGoals(goals, e)
    /\ attempts' = ApplyToAttempts(attempts, e)
=============================================================================
