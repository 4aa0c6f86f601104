-------------------------- MODULE ProjectionProofs --------------------------
(***************************************************************************)
(* What the handlers of apply_event return, for every table and every      *)
(* event: the lemmas that the theorems about the event store and about the *)
(* recheck worker rest on.                                                 *)
(***************************************************************************)
EXTENDS RouteProjection, RecheckProjection, WorkProjection, Sorting,
        FiniteSetTheorems, TLAPS

-----------------------------------------------------------------------------
(* Sorting.                                                                *)

(* Pairs that order the members of a set, each against each.               *)
Orders(before, S) ==
    /\ \A i \in S : <<i, i>> \notin before
    /\ \A i, j, k \in S : <<i, j>> \in before /\ <<j, k>> \in before => <<i, k>> \in before
    /\ \A i, j \in S : i = j \/ <<i, j>> \in before \/ <<j, i>> \in before

(* The list of a finite set in such an order has each member once.         *)
THEOREM OrderedSorts ==
    ASSUME NEW S, IsFiniteSet(S), NEW before, Orders(before, S)
    PROVE  LET p == Ordered(S, before)
           IN  /\ p \in [1..Cardinality(S) -> S] /\ Cardinality(S) \in Nat
               /\ \A i \in S : \E n \in 1..Cardinality(S) : p[n] = i
               /\ \A m, n \in 1..Cardinality(S) : m < n => <<p[m], p[n]>> \in before
<1> DEFINE N == Cardinality(S)
           below(i) == {j \in S : <<j, i>> \in before}
           rank == [i \in S |-> Cardinality(below(i)) + 1]
           p == [n \in 1..N |-> CHOOSE i \in S : Cardinality(below(i)) = n - 1]
<1>1. N \in Nat
  BY FS_CardinalityType
<1>2. ASSUME NEW i \in S
      PROVE  /\ IsFiniteSet(below(i)) /\ Cardinality(below(i)) \in Nat
             /\ Cardinality(below(i)) < N
  <2>1. below(i) \in SUBSET S /\ i \notin below(i) /\ below(i) # S
    BY DEF Orders
  <2> HIDE DEF below
  <2>2. IsFiniteSet(below(i)) /\ Cardinality(below(i)) <= N /\ Cardinality(below(i)) # N
    BY <2>1, FS_Subset
  <2>3. Cardinality(below(i)) \in Nat
    BY <2>2, FS_CardinalityType
  <2> QED
    BY <1>1, <2>2, <2>3
<1>3. ASSUME NEW i \in S, NEW j \in S, <<i, j>> \in before
      PROVE  Cardinality(below(i)) < Cardinality(below(j))
  <2>1. below(i) \in SUBSET below(j) /\ below(i) # below(j)
    BY <1>3 DEF Orders
  <2> HIDE DEF below
  <2>2. Cardinality(below(i)) <= Cardinality(below(j)) /\ Cardinality(below(i)) # Cardinality(below(j))
    BY <1>2, <2>1, FS_Subset
  <2> QED
    BY <1>2, <2>2
<1> HIDE DEF below
<1>4. \A i, j \in S : Cardinality(below(i)) = Cardinality(below(j)) => i = j
  <2> SUFFICES ASSUME NEW i \in S, NEW j \in S, i # j,
                      Cardinality(below(i)) = Cardinality(below(j))
               PROVE  FALSE
    OBVIOUS
  <2>1. <<i, j>> \in before \/ <<j, i>> \in before
    BY DEF Orders
  <2> QED
    BY <1>2, <1>3, <2>1
<1>5. rank \in Surjection(S, 1..N)
  <2>1. rank \in [S -> 1..N]
    BY <1>1, <1>2
  <2>2. \A i, j \in S : rank[i] = rank[j] => i = j
    BY <1>2, <1>4
  <2>3. IsFiniteSet(1..N) /\ Cardinality(1..N) = N
    BY <1>1, FS_Interval
  <2> HIDE DEF rank, N
  <2>4. rank \in Injection(S, 1..N)
    BY <2>1, <2>2 DEF Injection, IsInjective
  <2> QED
    BY <2>3, <2>4, FS_Injection DEF N
<1>6. ASSUME NEW n \in 1..N
      PROVE  p[n] \in S /\ Cardinality(below(p[n])) = n - 1
  <2>1. \E i \in S : rank[i] = n
    <3> HIDE DEF rank, N
    <3> QED
      BY <1>5 DEF Surjection
  <2>2. \E i \in S : Cardinality(below(i)) = n - 1
    BY <1>2, <2>1
  <2> QED
    BY <2>2
<1>7. p \in [1..N -> S]
  BY <1>6
<1>8. Ordered(S, before) = p
  BY DEF Ordered, below
<1> HIDE DEF p, rank
<1>9. \A i \in S : \E n \in 1..N : p[n] = i
  <2> SUFFICES ASSUME NEW i \in S PROVE \E n \in 1..N : p[n] = i
    OBVIOUS
  <2>1. Cardinality(below(i)) + 1 \in 1..N
    BY <1>1, <1>2
  <2>2. Cardinality(below(p[Cardinality(below(i)) + 1])) = Cardinality(below(i))
    BY <1>2, <1>6, <2>1
  <2> QED
    BY <1>4, <1>6, <2>1, <2>2
<1>10. \A m, n \in 1..N : m < n => <<p[m], p[n]>> \in before
  <2> SUFFICES ASSUME NEW m \in 1..N, NEW n \in 1..N, m < n
               PROVE  <<p[m], p[n]>> \in before
    OBVIOUS
  <2>1. /\ p[m] \in S /\ Cardinality(below(p[m])) = m - 1
        /\ p[n] \in S /\ Cardinality(below(p[n])) = n - 1
    BY <1>6
  <2>2. p[m] # p[n] /\ ~(<<p[n], p[m]>> \in before)
    BY <1>1, <1>3, <2>1
  <2> QED
    BY <2>1, <2>2 DEF Orders
<1> QED
  BY <1>1, <1>7, <1>8, <1>9, <1>10

LEMMA ByNumberOrders ==
    ASSUME NEW S, S \subseteq Nat, NEW number, \A i \in S : number[i] \in Nat
    PROVE  Orders(ByNumber(S, number), S)
BY DEF Orders, ByNumber

-----------------------------------------------------------------------------
(* The route handlers.                                                     *)

(* The fields of a normalized event have the types of its record.          *)
LEMMA EventFields ==
    ASSUME NEW e \in Event
    PROVE  /\ e.id \in EventIds
           /\ e.at \in Nat
           /\ e.resetAfter \in Nat
           /\ e.resetKnown \in BOOLEAN
           /\ e.strategy \in Strategies \cup {None}
           /\ e.freeOnly \in BOOLEAN \cup {None}
           /\ e.route \in Routes \cup MalformedKeys \cup {None}
           /\ e.goal \in Goals \cup {None}
           /\ e.attempt \in Attempts \cup {None}
           /\ e.type \in EVENT_TYPES
BY DEF Event, EventRecord

(* An event that reaches a route handler names a route (normalize_event).  *)
LEMMA RouteEventHasRoute ==
    ASSUME NEW e \in Event, e.type \in ROUTE_EVENTS
    PROVE  e.route \in Routes
BY DEF Event, EventRecord

(* Evidence that moves a route is of a type that must name one.            *)
LEMMA MovesRouteHasRoute ==
    ASSUME NEW e \in Event, NEW running \in BOOLEAN,
           SucceedsRoute(e, running) \/ FailsRoute(e, running)
    PROVE  e.route \in Routes
<1>1. e.type \in ROUTE_EVENTS
  BY DEF SucceedsRoute, FailsRoute, ROUTE_EVENTS, ProbeTypes, AttemptTypes,
         SettleTypes
<1> QED
  BY <1>1, RouteEventHasRoute

(* Every failure is of a taxonomy category or unknown (classify_reason).   *)
LEMMA CategoryTyped ==
    ASSUME NEW e \in Event
    PROVE  FailureCategory(e) \in Categories \cup {"unknown"}
<1>1. e.signal \in Categories \cup {None}
  BY DEF Event, EventRecord
<1> QED
  BY <1>1 DEF FailureCategory, classify_reason

(* A failure never leaves a route UNKNOWN, PROBING or AVAILABLE (state_map).*)
LEMMA FailureStateTyped ==
    ASSUME NEW c
    PROVE  /\ FailureState(c) \in RouteStates
           /\ FailureState(c) \notin {"UNKNOWN", "PROBING", "AVAILABLE"}
           /\ FailureState(c) = "QUOTA" <=> c = "quota"
BY DEF FailureState, RouteStates

(* Both tiers have a default reset, and it is not zero.                    *)
LEMMA DefaultResetTyped ==
    ASSUME NEW r
    PROVE  DefaultReset(r) \in Nat /\ DefaultReset(r) > 0
BY EvidenceAssumption DEF DefaultReset

-----------------------------------------------------------------------------
(* The row the first evidence creates is a row (_ensure_route_row).        *)
LEMMA EnsureRouteRowTyped ==
    ASSUME NEW rows \in RouteTable, NEW e \in Event, e.route \in Routes
    PROVE  EnsureRouteRow(rows, e) \in RouteRow
<1>1. NewRouteRow(e) \in RouteRow
  BY EventFields DEF NewRouteRow, RouteRow, RouteStates
<1> QED
  BY <1>1 DEF EnsureRouteRow, RouteTable

(* A success turns a row into a row (_apply_route_success).                *)
LEMMA SuccessRowTyped ==
    ASSUME NEW row \in RouteRow, NEW e \in Event
    PROVE  SuccessRow(row, e) \in RouteRow
BY EventFields DEF SuccessRow, RouteRow, RouteStates

(* So does quota evidence, with and without a known reset.                 *)
LEMMA QuotaRowTyped ==
    ASSUME NEW row \in RouteRow, NEW e \in Event
    PROVE  QuotaRow(row, e) \in RouteRow
<1>1. /\ DefaultReset(e.route) \in Nat
      /\ e.at \in Nat /\ e.resetAfter \in Nat
  BY DefaultResetTyped, EventFields
<1>2. CASE e.resetAfter # 0 /\ e.resetKnown
  <2>1. e.at + e.resetAfter \in Nat
    BY <1>1
  <2>2. QuotaRow(row, e) =
          [row EXCEPT !.resetAfter = e.resetAfter, !.resetKnown = TRUE,
                      !.resetAt = e.at + e.resetAfter, !.nextCheckAt = None]
    BY <1>2 DEF QuotaRow
  <2> QED
    BY <1>1, <2>1, <2>2 DEF RouteRow
<1>3. CASE ~(e.resetAfter # 0 /\ e.resetKnown)
  <2> DEFINE after == IF e.resetAfter # 0 THEN e.resetAfter
                      ELSE DefaultReset(e.route)
             next  == e.at + DefaultReset(e.route)
  <2>1. after \in Nat /\ next \in Nat
    BY <1>1
  <2>2. QuotaRow(row, e) =
          [row EXCEPT !.resetAfter = after, !.resetKnown = FALSE,
                      !.resetAt = None, !.nextCheckAt = next]
    BY <1>3 DEF QuotaRow
  <2> HIDE DEF after, next
  <2> QED
    BY <2>1, <2>2 DEF RouteRow
<1> QED
  BY <1>2, <1>3

(* So does any other failure (_apply_route_failure).                       *)
LEMMA FailureRowTyped ==
    ASSUME NEW row \in RouteRow, NEW e \in Event
    PROVE  FailureRow(row, e) \in RouteRow
<1> DEFINE failed == [row EXCEPT !.state = FailureState(FailureCategory(e)),
                                 !.changedAt = e.at, !.source = e.id]
<1>1. failed \in RouteRow
  BY FailureStateTyped, EventFields DEF RouteRow
<1>2. QuotaRow(failed, e) \in RouteRow
  BY <1>1, QuotaRowTyped
<1> HIDE DEF failed
<1>3. [failed EXCEPT !.retries = @ + 1] \in RouteRow
  BY <1>1 DEF RouteRow
<1> QED
  BY <1>1, <1>2, <1>3 DEF FailureRow, failed

(* An event only ever moves the row of the route it names.                 *)
LEMMA OtherRoutesUntouched ==
    ASSUME NEW rows \in RouteTable, NEW running \in BOOLEAN, NEW e \in Event,
           NEW r \in Routes, r # e.route
    PROVE  ApplyToRoutes(rows, running, e)[r] = rows[r]
BY DEF ApplyToRoutes, ApplyRouteSuccess, ApplyRouteFailure, RouteTable

(* The route handlers keep the table a table of rows.                      *)
LEMMA ApplyToRoutesTyped ==
    ASSUME NEW rows \in RouteTable, NEW running \in BOOLEAN, NEW e \in Event
    PROVE  ApplyToRoutes(rows, running, e) \in RouteTable
<1>1. CASE SucceedsRoute(e, running)
  <2>1. e.route \in Routes
    BY <1>1, MovesRouteHasRoute
  <2>2. ApplyRouteSuccess(rows, e) \in RouteTable
    BY <2>1, EnsureRouteRowTyped, SuccessRowTyped
       DEF ApplyRouteSuccess, RouteTable
  <2> QED
    BY <1>1, <2>2 DEF ApplyToRoutes, SucceedsRoute, FailsRoute
<1>2. CASE ~SucceedsRoute(e, running) /\ FailsRoute(e, running)
  <2>1. e.route \in Routes
    BY <1>2, MovesRouteHasRoute
  <2>2. ApplyRouteFailure(rows, e) \in RouteTable
    BY <2>1, EnsureRouteRowTyped, FailureRowTyped
       DEF ApplyRouteFailure, RouteTable
  <2> QED
    BY <1>2, <2>2 DEF ApplyToRoutes
<1>3. CASE ~SucceedsRoute(e, running) /\ ~FailsRoute(e, running)
  BY <1>3 DEF ApplyToRoutes
<1> QED
  BY <1>1, <1>2, <1>3

-----------------------------------------------------------------------------
(* What moves a row: a row that follows an event names it as its source,   *)
(* carries its instant and says what it says.                              *)
FollowsEvent(row, e) ==
    row.source = e.id /\ row.changedAt = e.at /\ row.state = Verdict(e)

(* A success that is applied is followed (_apply_route_success).           *)
LEMMA SuccessFollowed ==
    ASSUME NEW row \in RouteRow, NEW e \in Event, NEW running \in BOOLEAN,
           SucceedsRoute(e, running)
    PROVE  FollowsEvent(SuccessRow(row, e), e)
<1>1. ~FailsRoute(e, TRUE)
  BY DEF SucceedsRoute, FailsRoute
<1> QED
  BY <1>1 DEF FollowsEvent, SuccessRow, Verdict, RouteRow

(* A failure that is applied is followed (_apply_route_failure).           *)
LEMMA FailureFollowed ==
    ASSUME NEW row \in RouteRow, NEW e \in Event, NEW running \in BOOLEAN,
           FailsRoute(e, running)
    PROVE  FollowsEvent(FailureRow(row, e), e)
<1> DEFINE failed == [row EXCEPT !.state = FailureState(FailureCategory(e)),
                                 !.changedAt = e.at, !.source = e.id]
<1>1. failed \in RouteRow
  BY FailureStateTyped, EventFields DEF RouteRow
<1>2. Verdict(e) = FailureState(FailureCategory(e))
  BY DEF Verdict, FailsRoute
<1>3. FollowsEvent(failed, e)
  BY <1>2 DEF FollowsEvent, RouteRow
<1> HIDE DEF failed
<1>4. FollowsEvent(QuotaRow(failed, e), e)
  BY <1>1, <1>3 DEF FollowsEvent, QuotaRow, RouteRow
<1>5. FollowsEvent([failed EXCEPT !.retries = @ + 1], e)
  BY <1>1, <1>3 DEF FollowsEvent, RouteRow
<1> QED
  BY <1>3, <1>4, <1>5 DEF FailureRow, failed

(* The four things an event can do to the row of a route: leave it alone,  *)
(* which evidence that bears on the route does only when it is late; open  *)
(* the row of a route that ran out of context; record a success; record a  *)
(* failure.                                                                *)
LEMMA RouteOutcome ==
    ASSUME NEW rows \in RouteTable, NEW running \in BOOLEAN, NEW e \in Event,
           NEW r \in Routes
    PROVE  LET old == EnsureRouteRow(rows, e)
               new == ApplyToRoutes(rows, running, e)[r]
           IN  \/ /\ new = rows[r]
                  /\ r = e.route /\ BearsOnRoute(e) =>
                         rows[r] # None /\ IsLate(rows[r], e)
               \/ /\ r = e.route /\ rows[r] = None /\ new = NewRouteRow(e)
                  /\ FailureCategory(e) = "context" /\ ~BearsOnRoute(e)
               \/ /\ r = e.route /\ ~IsLate(old, e) /\ new = SuccessRow(old, e)
                  /\ SucceedsRoute(e, running)
               \/ /\ r = e.route /\ ~IsLate(old, e) /\ new = FailureRow(old, e)
                  /\ FailsRoute(e, running) /\ FailureCategory(e) # "context"
<1> DEFINE old == EnsureRouteRow(rows, e)
<1>1. CASE r # e.route
  BY <1>1, OtherRoutesUntouched
<1>2. CASE r = e.route
  <2>1. rows[r] = None => old = NewRouteRow(e) /\ ~IsLate(old, e)
    BY <1>2, EventFields DEF EnsureRouteRow, NewRouteRow, IsLate
  <2>2. rows[r] # None => old = rows[r]
    BY <1>2 DEF EnsureRouteRow
  <2>3. CASE SucceedsRoute(e, running)
    <3>1. ApplyToRoutes(rows, running, e)[r] =
            IF IsLate(old, e) THEN old ELSE SuccessRow(old, e)
      BY <1>2, <2>3 DEF ApplyToRoutes, ApplyRouteSuccess, RouteTable,
                        SucceedsRoute, FailsRoute
    <3> QED
      BY <1>2, <2>1, <2>2, <2>3, <3>1
  <2>4. CASE ~SucceedsRoute(e, running) /\ FailsRoute(e, running)
    <3>1. ApplyToRoutes(rows, running, e)[r] =
            IF IsLate(old, e) \/ FailureCategory(e) = "context"
              THEN old ELSE FailureRow(old, e)
      BY <1>2, <2>4 DEF ApplyToRoutes, ApplyRouteFailure, RouteTable,
                        SucceedsRoute, FailsRoute
    <3>2. FailureCategory(e) = "context" => ~BearsOnRoute(e)
      BY <2>4 DEF BearsOnRoute, SucceedsRoute, FailsRoute
    <3> QED
      BY <1>2, <2>1, <2>2, <2>4, <3>1, <3>2
  <2>5. CASE ~SucceedsRoute(e, running) /\ ~FailsRoute(e, running)
    BY <2>5 DEF ApplyToRoutes, BearsOnRoute, SucceedsRoute, FailsRoute
  <2> QED
    BY <2>3, <2>4, <2>5
<1> QED
  BY <1>1, <1>2

-----------------------------------------------------------------------------
(* The recheck handlers.                                                   *)

(* A request row that is there has the shape of one.                       *)
LEMMA RequestRowTyped ==
    ASSUME NEW requests \in RequestTable, NEW q \in EventIds,
           requests[q] # None
    PROVE  requests[q] \in RequestRow
BY DEF RequestTable

(* A new request is pending; the other requests stay as they were.         *)
LEMMA RequestedTyped ==
    ASSUME NEW requests \in RequestTable, NEW e \in Event
    PROVE  RecheckRequested(requests, e) \in RequestTable
<1>1. CASE e.route = None
  BY <1>1 DEF RecheckRequested
<1>2. CASE e.route # None
  <2>1. e.route \in Routes \cup MalformedKeys /\ e.id \in EventIds /\ e.at \in Nat
    BY <1>2, EventFields
  <2>2. [route |-> e.route, status |-> "pending",
         requestedAt |-> e.at, startedAt |-> None, finishedAt |-> None] \in RequestRow
    BY <2>1 DEF RequestRow, RequestStatuses
  <2> QED
    BY <2>1, <2>2 DEF RecheckRequested, RequestTable
<1> QED
  BY <1>1, <1>2

(* Claiming a pending request keeps the table a table of requests.         *)
LEMMA StartedTyped ==
    ASSUME NEW requests \in RequestTable, NEW e \in Event,
           NEW after \in RecheckStarted(requests, e)
    PROVE  after \in RequestTable
<1>1. CASE after = requests
  BY <1>1
<1>2. CASE after # requests
  <2>1. PICK q \in OldestPending(requests, e.route) :
          after = [requests EXCEPT ![q].status = "running", ![q].startedAt = e.at]
    BY <1>2 DEF RecheckStarted
  <2>2. q \in EventIds /\ requests[q] \in RequestRow
    BY <2>1, RequestRowTyped DEF OldestPending, RequestsOf
  <2>3. after = [requests EXCEPT ![q] =
                   [requests[q] EXCEPT !.status = "running", !.startedAt = e.at]]
    BY <2>1, <2>2 DEF RequestTable, RequestRow
  <2>4. [requests[q] EXCEPT !.status = "running", !.startedAt = e.at]
          \in RequestRow
    BY <2>2, EventFields DEF RequestRow, RequestStatuses
  <2> QED
    BY <2>2, <2>3, <2>4 DEF RequestTable
<1> QED
  BY <1>1, <1>2

(* So does finishing a running one.                                        *)
LEMMA SettledTyped ==
    ASSUME NEW requests \in RequestTable, NEW e \in Event,
           NEW after \in RecheckSettled(requests, e)
    PROVE  after \in RequestTable
<1>1. CASE after = requests
  BY <1>1
<1>2. CASE after # requests
  <2>1. PICK q \in OldestRunning(requests, e.route) :
          after = [requests EXCEPT ![q].status = SettleStatus(e),
                                   ![q].finishedAt = e.at]
    BY <1>2 DEF RecheckSettled
  <2>2. q \in EventIds /\ requests[q] \in RequestRow
    BY <2>1, RequestRowTyped DEF OldestRunning, RequestsOf
  <2>3. after = [requests EXCEPT ![q] =
                   [requests[q] EXCEPT !.status = SettleStatus(e),
                                       !.finishedAt = e.at]]
    BY <2>1, <2>2 DEF RequestTable, RequestRow
  <2>4. [requests[q] EXCEPT !.status = SettleStatus(e), !.finishedAt = e.at]
          \in RequestRow
    BY <2>2, EventFields
       DEF RequestRow, RequestStatuses, Finished, SettleStatus
  <2> QED
    BY <2>2, <2>3, <2>4 DEF RequestTable
<1> QED
  BY <1>1, <1>2

(* The recheck handlers keep the table a table of requests.                *)
LEMMA ApplyToRequestsTyped ==
    ASSUME NEW requests \in RequestTable, NEW e \in Event,
           NEW after \in ApplyToRequests(requests, e)
    PROVE  after \in RequestTable
BY RequestedTyped, StartedTyped, SettledTyped DEF ApplyToRequests, SettleTypes

-----------------------------------------------------------------------------
(* One event does at most one of three things to a request: queue it on a  *)
(* leg that has none pending, claim it, or finish it.                      *)
Queues(before, after, id, e) ==
    /\ before[id] = None
    /\ RequestsOf(before, e.route, "pending") = {}
    /\ id = e.id
    /\ after[id] # None
    /\ after[id].status = "pending"
    /\ after[id].route = e.route

Claims(before, after, id, e) ==
    /\ before[id] # None
    /\ before[id].route = e.route
    /\ after[id] # None
    /\ after[id].route = before[id].route
    /\ before[id].status = "pending"
    /\ after[id].status = "running"

Finishes(before, after, id) ==
    /\ before[id] # None
    /\ after[id] # None
    /\ after[id].route = before[id].route
    /\ before[id].status = "running"
    /\ after[id].status \in Finished

(* A request event leaves a request alone or queues it.                    *)
LEMMA RequestedOutcome ==
    ASSUME NEW requests \in RequestTable, NEW e \in Event, NEW q \in EventIds,
           NEW after, after = RecheckRequested(requests, e)
    PROVE  after[q] = requests[q] \/ Queues(requests, after, q, e)
<1>1. CASE after = requests
  BY <1>1
<1>2. CASE after # requests
  <2> DEFINE row == [route |-> e.route, status |-> "pending", requestedAt |-> e.at,
                     startedAt |-> None, finishedAt |-> None]
  <2>1. /\ e.route \in Routes \cup MalformedKeys
        /\ RequestsOf(requests, e.route, "pending") = {}
        /\ requests[e.id] = None
        /\ after = [requests EXCEPT ![e.id] = row]
    BY <1>2, EventFields DEF RecheckRequested
  <2>2. row \in RequestRow /\ row.status = "pending" /\ row.route = e.route
    BY <2>1, EventFields DEF RequestRow, RequestStatuses
  <2>3. row # None
    BY <2>2, RequestRowAssumption
  <2> HIDE DEF row
  <2> QED
    BY <2>1, <2>2, <2>3 DEF RequestTable, Queues
<1> QED
  BY <1>1, <1>2

(* A start leaves a request alone or claims it.                            *)
LEMMA StartedOutcome ==
    ASSUME NEW requests \in RequestTable, NEW e \in Event, NEW q \in EventIds,
           NEW after \in RecheckStarted(requests, e)
    PROVE  after[q] = requests[q] \/ Claims(requests, after, q, e)
<1>1. CASE after = requests
  BY <1>1
<1>2. CASE after # requests
  <2>1. PICK p \in OldestPending(requests, e.route) :
          after = [requests EXCEPT ![p].status = "running", ![p].startedAt = e.at]
    BY <1>2 DEF RecheckStarted
  <2>2. /\ p \in EventIds /\ requests[p] # None
        /\ requests[p].status = "pending" /\ requests[p] \in RequestRow
        /\ requests[p].route = e.route
    BY <2>1, RequestRowTyped DEF OldestPending, RequestsOf
  <2> DEFINE row == [requests[p] EXCEPT !.status = "running", !.startedAt = e.at]
  <2>3. after = [requests EXCEPT ![p] = row]
    BY <2>1, <2>2 DEF RequestTable, RequestRow
  <2>4. /\ row \in RequestRow
        /\ row.status = "running" /\ row.route = requests[p].route
    BY <2>2, EventFields DEF RequestRow, RequestStatuses
  <2>5. row # None
    BY <2>4, RequestRowAssumption
  <2> HIDE DEF row
  <2> QED
    BY <2>2, <2>3, <2>4, <2>5 DEF RequestTable, Claims
<1> QED
  BY <1>1, <1>2

(* A settlement leaves a request alone or finishes it.                     *)
LEMMA SettledOutcome ==
    ASSUME NEW requests \in RequestTable, NEW e \in Event, NEW q \in EventIds,
           NEW after \in RecheckSettled(requests, e)
    PROVE  after[q] = requests[q] \/ Finishes(requests, after, q)
<1>1. CASE after = requests
  BY <1>1
<1>2. CASE after # requests
  <2>1. PICK p \in OldestRunning(requests, e.route) :
          after = [requests EXCEPT ![p].status = SettleStatus(e),
                                   ![p].finishedAt = e.at]
    BY <1>2 DEF RecheckSettled
  <2>2. /\ p \in EventIds /\ requests[p] # None
        /\ requests[p].status = "running" /\ requests[p] \in RequestRow
    BY <2>1, RequestRowTyped DEF OldestRunning, RequestsOf
  <2>3. SettleStatus(e) \in Finished
    BY DEF SettleStatus, Finished
  <2> DEFINE row == [requests[p] EXCEPT !.status = SettleStatus(e),
                                        !.finishedAt = e.at]
  <2>4. after = [requests EXCEPT ![p] = row]
    BY <2>1, <2>2 DEF RequestTable, RequestRow
  <2>5. /\ row \in RequestRow
        /\ row.status \in Finished /\ row.route = requests[p].route
    BY <2>2, <2>3, EventFields DEF RequestRow, RequestStatuses
  <2>6. row # None
    BY <2>5, RequestRowAssumption
  <2> HIDE DEF row
  <2> QED
    BY <2>2, <2>4, <2>5, <2>6 DEF RequestTable, Finishes
<1> QED
  BY <1>1, <1>2

(* Whatever the event, each request is left alone, queued, claimed or      *)
(* finished.                                                               *)
LEMMA RequestsOutcome ==
    ASSUME NEW requests \in RequestTable, NEW e \in Event, NEW q \in EventIds,
           NEW after \in ApplyToRequests(requests, e)
    PROVE  \/ after[q] = requests[q]
           \/ /\ e.type = "route.recheck.requested"
              /\ Queues(requests, after, q, e)
           \/ /\ e.type = "route.recheck.started"
              /\ Claims(requests, after, q, e)
           \/ Finishes(requests, after, q)
<1>1. CASE e.type = "route.recheck.requested"
  BY <1>1, RequestedOutcome DEF ApplyToRequests, SettleTypes
<1>2. CASE e.type = "route.recheck.started"
  BY <1>2, StartedOutcome DEF ApplyToRequests, SettleTypes
<1>3. CASE e.type \in SettleTypes
  BY <1>3, SettledOutcome DEF ApplyToRequests, SettleTypes
<1>4. CASE e.type \notin SettleTypes \cup {"route.recheck.requested", "route.recheck.started"}
  BY <1>4 DEF ApplyToRequests
<1> QED
  BY <1>1, <1>2, <1>3, <1>4

-----------------------------------------------------------------------------
(* The goal and attempt handlers.                                          *)

(* Every goal event assigns one of the statuses.                           *)
LEMMA GoalStatusTyped ==
    ASSUME NEW t \in DOMAIN GOAL_STATUS
    PROVE  GOAL_STATUS[t] \in Statuses
BY DEF GOAL_STATUS, Statuses

(* A goal that an event creates is a goal (_ensure_goal).                  *)
LEMMA EnsureGoalRowTyped ==
    ASSUME NEW goals \in GoalTable, NEW e \in Event, e.goal # None
    PROVE  EnsureGoalRow(goals, e) \in GoalRow
<1>1. NewGoalRow(e) \in GoalRow
  BY EventFields DEF NewGoalRow, GoalRow, Statuses, Strategies
<1>2. e.goal \in Goals
  BY EventFields
<1> QED
  BY <1>1, <1>2 DEF EnsureGoalRow, GoalTable

(* A goal event turns a goal into a goal (_apply_goal).                    *)
LEMMA GoalEventRowTyped ==
    ASSUME NEW row \in GoalRow, NEW e \in Event, e.type \in DOMAIN GOAL_STATUS
    PROVE  GoalEventRow(row, e) \in GoalRow
BY EventFields, GoalStatusTyped DEF GoalEventRow, GoalRow

(* The goal handlers keep the table a table of goals.                      *)
LEMMA ApplyToGoalsTyped ==
    ASSUME NEW goals \in GoalTable, NEW e \in Event
    PROVE  ApplyToGoals(goals, e) \in GoalTable
<1>1. CASE e.goal = None
  BY <1>1 DEF ApplyToGoals
<1>2. CASE e.goal # None
  <2> DEFINE row == EnsureGoalRow(goals, e)
  <2>1. e.goal \in Goals /\ e.at \in Nat
    BY <1>2, EventFields
  <2>2. row \in GoalRow
    BY <1>2, EnsureGoalRowTyped
  <2>3. e.type \in DOMAIN GOAL_STATUS => GoalEventRow(row, e) \in GoalRow
    BY <2>2, GoalEventRowTyped
  <2> HIDE DEF row
  <2>4. EscalatedRow(row, e) \in GoalRow
    BY <2>1, <2>2 DEF EscalatedRow, GoalRow, Strategies
  <2>5. [row EXCEPT !.attempts = @ + 1, !.activityAt = e.at] \in GoalRow
    <3>1. row.attempts + 1 \in Nat
      BY <2>2 DEF GoalRow
    <3> QED
      BY <2>1, <2>2, <3>1, Zenon DEF GoalRow
  <2>6. goals[e.goal] # None =>
          [goals EXCEPT ![e.goal].activityAt = e.at] \in GoalTable
    <3> SUFFICES ASSUME goals[e.goal] # None
                 PROVE  [goals EXCEPT ![e.goal].activityAt = e.at] \in GoalTable
      OBVIOUS
    <3>1. goals[e.goal] \in GoalRow
      BY <2>1 DEF GoalTable
    <3>2. [goals[e.goal] EXCEPT !.activityAt = e.at] \in GoalRow
      BY <2>1, <3>1 DEF GoalRow
    <3> QED
      BY <2>1, <3>2 DEF GoalTable
  <2>7. \A new \in GoalRow : [goals EXCEPT ![e.goal] = new] \in GoalTable
    BY <2>1 DEF GoalTable
  <2> QED
    BY <1>2, <2>3, <2>4, <2>5, <2>6, <2>7 DEF ApplyToGoals, row
<1> QED
  BY <1>1, <1>2

(* The attempt handlers keep the table a table of attempts.                *)
LEMMA ApplyToAttemptsTyped ==
    ASSUME NEW attempts \in AttemptTable, NEW e \in Event
    PROVE  ApplyToAttempts(attempts, e) \in AttemptTable
<1>1. CASE e.attempt = None \/ e.type \notin AttemptTypes
  BY <1>1 DEF ApplyToAttempts, AttemptTypes
<1>2. CASE e.attempt # None /\ e.type \in AttemptTypes
  <2>1. /\ e.attempt \in Attempts /\ e.at \in Nat
        /\ e.goal \in Goals \cup {None} /\ e.route \in Routes
    BY <1>2, EventFields, RouteEventHasRoute DEF ROUTE_EVENTS
  <2>2. StartedRow(attempts, e) \in AttemptRow
    BY <2>1 DEF StartedRow, AttemptTable, AttemptRow
  <2>3. ASSUME attempts[e.attempt] # None
        PROVE  /\ [attempts[e.attempt] EXCEPT !.heartbeatAt = e.at] \in AttemptRow
               /\ [attempts[e.attempt] EXCEPT !.status = "completed",
                                              !.heartbeatAt = e.at] \in AttemptRow
    BY <2>1, <2>3 DEF AttemptTable, AttemptRow
  <2>4. \A new \in AttemptRow :
            [attempts EXCEPT ![e.attempt] = new] \in AttemptTable
    BY <2>1 DEF AttemptTable
  <2> QED
    BY <1>2, <2>2, <2>3, <2>4 DEF ApplyToAttempts
<1> QED
  BY <1>1, <1>2

-----------------------------------------------------------------------------
(* An attempt that starts on behalf of a goal.                             *)
StartsFor(e, g) == e.type = "attempt.started" /\ e.goal = g /\ e.attempt # None

(* The rows that a counted start and a sign of life leave.                 *)
CountedRow(row, e) == [row EXCEPT !.attempts = @ + 1, !.activityAt = e.at]
SeenRow(row, e) == [row EXCEPT !.activityAt = e.at]

(* What one event makes of a goal: nothing, one of the three handlers'     *)
(* rows, or a sign of life; and only an attempt's start counts.            *)
LEMMA GoalOutcome ==
    ASSUME NEW goals \in GoalTable, NEW e \in Event, NEW g \in Goals
    PROVE  LET row == EnsureGoalRow(goals, e)
               new == ApplyToGoals(goals, e)[g]
           IN  \/ new = goals[g] /\ ~StartsFor(e, g)
               \/ /\ g = e.goal /\ e.type \in DOMAIN GOAL_STATUS
                  /\ new = GoalEventRow(row, e)
               \/ /\ g = e.goal /\ e.type = "goal.context_escalated"
                  /\ new = EscalatedRow(row, e)
               \/ /\ g = e.goal /\ StartsFor(e, g)
                  /\ new = CountedRow(row, e)
               \/ /\ g = e.goal /\ goals[g] # None
                  /\ e.type \in {"attempt.heartbeat", "attempt.completed"}
                  /\ new = SeenRow(goals[g], e)
<1> DEFINE row == EnsureGoalRow(goals, e)
<1> HIDE DEF row
<1>1. CASE g # e.goal
  <2>1. ApplyToGoals(goals, e)[g] = goals[g]
    BY <1>1 DEF ApplyToGoals, GoalTable
  <2> QED
    BY <1>1, <2>1 DEF StartsFor
<1>2. CASE g = e.goal
  <2>1. e.goal # None
    BY <1>2, EvidenceAssumption
  <2>2. \A new : [goals EXCEPT ![e.goal] = new][g] = new
    BY <1>2 DEF GoalTable
  <2>3. CASE e.type \in DOMAIN GOAL_STATUS
    <3>1. e.type \notin {"goal.context_escalated", "attempt.started",
                         "attempt.heartbeat", "attempt.completed"}
      BY <2>3 DEF GOAL_STATUS
    <3> QED
      BY <1>2, <2>1, <2>2, <2>3, <3>1 DEF ApplyToGoals, row
  <2>4. CASE e.type = "goal.context_escalated"
    BY <1>2, <2>1, <2>2, <2>4 DEF ApplyToGoals, GOAL_STATUS, row
  <2>5. CASE e.type = "attempt.started" /\ e.attempt # None
    BY <1>2, <2>1, <2>2, <2>5 DEF ApplyToGoals, GOAL_STATUS, StartsFor, CountedRow, row
  <2>6. CASE /\ goals[e.goal] # None
             /\ \/ e.type = "attempt.heartbeat" /\ e.attempt # None
                \/ e.type = "attempt.completed"
    <3>1. ApplyToGoals(goals, e) = [goals EXCEPT ![e.goal].activityAt = e.at]
      BY <2>1, <2>6 DEF ApplyToGoals, GOAL_STATUS
    <3> QED
      BY <1>2, <2>6, <3>1 DEF GoalTable, SeenRow
  <2>7. ASSUME e.type \notin DOMAIN GOAL_STATUS,
               e.type # "goal.context_escalated",
               ~(e.type = "attempt.started" /\ e.attempt # None),
               ~(/\ goals[e.goal] # None
                 /\ \/ e.type = "attempt.heartbeat" /\ e.attempt # None
                    \/ e.type = "attempt.completed")
        PROVE  ApplyToGoals(goals, e)[g] = goals[g] /\ ~StartsFor(e, g)
    BY <1>2, <2>1, <2>7 DEF ApplyToGoals, StartsFor
  <2> QED
    BY <2>3, <2>4, <2>5, <2>6, <2>7
<1> QED
  BY <1>1, <1>2

(* What one event makes of the goal an attempt points at: an attempt that  *)
(* is there keeps it, a new one takes that of the event that starts it.    *)
LEMMA AttemptOutcome ==
    ASSUME NEW attempts \in AttemptTable, NEW e \in Event, NEW a \in Attempts
    PROVE  LET new == ApplyToAttempts(attempts, e)[a]
           IN  \/ new = attempts[a]
               \/ attempts[a] # None /\ new.goal = attempts[a].goal
               \/ /\ attempts[a] = None /\ new.goal = e.goal
                  /\ e.type = "attempt.started" /\ e.attempt # None
<1>1. CASE a # e.attempt
  BY <1>1 DEF ApplyToAttempts, AttemptTable
<1>2. CASE a = e.attempt
  <2>1. e.attempt # None
    BY <1>2, EvidenceAssumption
  <2>2. \A new : [attempts EXCEPT ![e.attempt] = new][a] = new
    BY <1>2 DEF AttemptTable
  <2>3. CASE e.type = "attempt.started"
    <3>1. ApplyToAttempts(attempts, e)[a] = StartedRow(attempts, e)
      BY <2>1, <2>2, <2>3 DEF ApplyToAttempts
    <3>2. attempts[a] # None => attempts[a] \in AttemptRow
      BY DEF AttemptTable
    <3> QED
      BY <1>2, <2>1, <2>3, <3>1, <3>2 DEF StartedRow, AttemptRow
  <2>4. CASE e.type # "attempt.started" /\ attempts[a] # None
    <3>1. attempts[a] \in AttemptRow
      BY <2>4 DEF AttemptTable
    <3> QED
      BY <1>2, <2>4, <3>1 DEF ApplyToAttempts, AttemptTable, AttemptRow
  <2>5. CASE e.type # "attempt.started" /\ attempts[a] = None
    BY <1>2, <2>5 DEF ApplyToAttempts
  <2> QED
    BY <2>3, <2>4, <2>5
<1> QED
  BY <1>1, <1>2
=============================================================================
