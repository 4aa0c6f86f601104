-------------------------- MODULE EventStoreProofs --------------------------
(***************************************************************************)
(* Theorems about the event store: type correctness, that the log and its  *)
(* revision count each delivery once, what the route rows reflect, and     *)
(* how rechecks move, for every set of deliveries, routes, goals, attempts *)
(* and ids.  The invariants are proved one after the other, each from the  *)
(* ones before it.                                                         *)
(***************************************************************************)
EXTENDS EventStore, ProjectionProofs, SequencesExt, FiniteSetTheorems, TLAPS

(* The deliveries are events, so an ingest is the ingest of an event.      *)
LEMMA NextIngests ==
    ASSUME Next
    PROVE  (\E e \in Event : IngestNew(e)) \/ UNCHANGED vars
BY EventsAssumption DEF Normalized, Next, Ingest, IngestDuplicate, IngestConflict

(* Ingesting a new event appends it to the log and disturbs no entry.      *)
LEMMA IngestAppends ==
    ASSUME TypeOK, NEW e \in Event, IngestNew(e)
    PROVE  /\ Len(events) \in Nat
           /\ DOMAIN events = 1..Len(events)
           /\ DOMAIN events' = 1..(Len(events) + 1)
           /\ Len(events') = Len(events) + 1
           /\ \A i \in DOMAIN events : events'[i] = events[i]
           /\ events'[Len(events) + 1] = e
           /\ \A i \in DOMAIN events' : i \in DOMAIN events \/ i = Len(events) + 1
           /\ \A i \in DOMAIN events : events[i] \in Event /\ events[i].id # e.id
BY DEF TypeOK, IngestNew, IdKnown

-----------------------------------------------------------------------------
(* Type correctness: every behaviour of the store keeps every table a      *)
(* table of its own rows and the log a sequence of normalized events.      *)
LEMMA TypeOKInit == Init => TypeOK
BY DEF Init, TypeOK, ProjectionsInit, ProjectionsTyped, RouteTable, RequestTable, GoalTable, AttemptTable

(* One ingest keeps the types.                                             *)
LEMMA IngestTyped ==
    ASSUME TypeOK, NEW e \in Event, IngestNew(e)
    PROVE  TypeOK'
<1>1. events' \in Seq(Event) /\ revision' \in Nat
  BY DEF TypeOK, IngestNew
<1>2. routes' \in RouteTable
  BY ApplyToRoutesTyped DEF TypeOK, ProjectionsTyped, IngestNew, ApplyEvent, HasRunning
<1>3. requests' \in RequestTable
  BY ApplyToRequestsTyped DEF TypeOK, ProjectionsTyped, IngestNew, ApplyEvent
<1>4. goals' \in GoalTable
  BY ApplyToGoalsTyped DEF TypeOK, ProjectionsTyped, IngestNew, ApplyEvent
<1>5. attempts' \in AttemptTable
  BY ApplyToAttemptsTyped DEF TypeOK, ProjectionsTyped, IngestNew, ApplyEvent
<1> QED
  BY <1>1, <1>2, <1>3, <1>4, <1>5 DEF TypeOK, ProjectionsTyped

(* So does every step.                                                     *)
LEMMA TypeOKNext ==
    ASSUME TypeOK, [Next]_vars
    PROVE  TypeOK'
<1>1. CASE UNCHANGED vars
  BY <1>1 DEF TypeOK, ProjectionsTyped, vars, projections
<1> QED
  BY <1>1, NextIngests, IngestTyped

(* The event store is type correct, whatever is delivered to it.           *)
THEOREM TypeCorrect == Spec => []TypeOK
BY TypeOKInit, TypeOKNext, PTL DEF Spec

-----------------------------------------------------------------------------
(* One ingest keeps the log free of repeated ids and the revision exact.   *)
LEMMA ExactlyOnceNext ==
    ASSUME TypeOK, ExactlyOnce, [Next]_vars
    PROVE  ExactlyOnce'
<1>1. CASE UNCHANGED vars
  BY <1>1 DEF ExactlyOnce, vars
<1>2. CASE \E e \in Event : IngestNew(e)
  <2>1. PICK e \in Event : IngestNew(e)
    BY <1>2
  <2>2. revision' = Len(events')
    BY <2>1, IngestAppends DEF ExactlyOnce, IngestNew
  <2>3. ASSUME NEW i \in DOMAIN events', NEW j \in DOMAIN events',
               events'[i].id = events'[j].id
        PROVE  i = j
    BY <2>1, <2>3, IngestAppends DEF ExactlyOnce
  <2> QED
    BY <2>2, <2>3 DEF ExactlyOnce
<1> QED
  BY <1>1, <1>2, NextIngests

(* A delivery is applied once however often it is repeated, and readers    *)
(* that poll the revision see every logged event move it by exactly one.   *)
THEOREM DeliveriesApplyOnce == Spec => []ExactlyOnce
<1>1. Init => ExactlyOnce
  BY DEF Init, ExactlyOnce
<1> QED
  BY <1>1, ExactlyOnceNext, TypeCorrect, PTL DEF Spec

-----------------------------------------------------------------------------
(* What an ingest makes of the row of a route: RouteOutcome, with the row  *)
(* the store holds.                                                        *)
LEMMA IngestRoute ==
    ASSUME TypeOK, NEW e \in Event, IngestNew(e), NEW r \in Routes
    PROVE  LET old == EnsureRouteRow(routes, e)
               new == routes'[r]
               running == HasRunning(requests, e.route)
           IN  \/ /\ new = routes[r]
                  /\ r = e.route /\ BearsOnRoute(e) =>
                         routes[r] # None /\ IsLate(routes[r], e)
               \/ /\ r = e.route /\ routes[r] = None /\ new = NewRouteRow(e)
                  /\ FailureCategory(e) = "context" /\ ~BearsOnRoute(e)
               \/ /\ r = e.route /\ ~IsLate(old, e) /\ new = SuccessRow(old, e)
                  /\ SucceedsRoute(e, running)
               \/ /\ r = e.route /\ ~IsLate(old, e) /\ new = FailureRow(old, e)
                  /\ FailsRoute(e, running) /\ FailureCategory(e) # "context"
<1>1. routes \in RouteTable /\ HasRunning(requests, e.route) \in BOOLEAN
  BY DEF TypeOK, ProjectionsTyped, HasRunning
<1>2. routes' = ApplyToRoutes(routes, HasRunning(requests, e.route), e)
  BY DEF IngestNew, ApplyEvent
<1> QED
  BY <1>1, <1>2, RouteOutcome

(* The same, for readers of the row: it stays and the event does not bear  *)
(* on it or came late, it opens as UNKNOWN, or it follows the event.       *)
LEMMA RouteFollows ==
    ASSUME NEW rows \in RouteTable, NEW running \in BOOLEAN, NEW e \in Event,
           NEW r \in Routes, NEW new, new = ApplyToRoutes(rows, running, e)[r]
    PROVE  \/ /\ new = rows[r]
              /\ r = e.route /\ BearsOnRoute(e) =>
                     rows[r] # None /\ e.at < rows[r].changedAt
           \/ /\ r = e.route /\ rows[r] = None
              /\ new = NewRouteRow(e) /\ new # None
              /\ FailureCategory(e) = "context" /\ ~BearsOnRoute(e)
           \/ /\ r = e.route /\ new # None
              /\ rows[r] # None => rows[r].changedAt <= e.at
              /\ FollowsEvent(new, e)
<1> DEFINE old == EnsureRouteRow(rows, e)
<1>1. ASSUME r = e.route
      PROVE  /\ old \in RouteRow
             /\ SuccessRow(old, e) # None
             /\ FailureRow(old, e) # None
             /\ rows[r] = None => old = NewRouteRow(e) /\ NewRouteRow(e) # None
             /\ ~IsLate(old, e) /\ rows[r] # None => rows[r].changedAt <= e.at
  <2>1. old \in RouteRow
    BY <1>1, EnsureRouteRowTyped
  <2>2. SuccessRow(old, e) # None /\ FailureRow(old, e) # None
    BY <2>1, SuccessRowTyped, FailureRowTyped, RouteRowAssumption
  <2>3. rows[r] # None => old = rows[r]
    BY <1>1 DEF EnsureRouteRow
  <2>4. rows[r] = None => old = NewRouteRow(e) /\ NewRouteRow(e) # None
    BY <1>1, <2>1, RouteRowAssumption DEF EnsureRouteRow
  <2>5. ~IsLate(old, e) => old.changedAt <= e.at
    BY <2>1, EventFields DEF IsLate, RouteRow
  <2> QED
    BY <2>1, <2>2, <2>3, <2>4, <2>5
<1>2. IsLate(rows[r], e) <=> e.at < rows[r].changedAt
  BY DEF IsLate
<1> HIDE DEF old
<1> QED
  BY <1>1, <1>2, RouteOutcome, SuccessFollowed, FailureFollowed DEF old

LEMMA IngestFollows ==
    ASSUME TypeOK, NEW e \in Event, IngestNew(e), NEW r \in Routes
    PROVE  \/ /\ routes'[r] = routes[r]
              /\ r = e.route /\ BearsOnRoute(e) =>
                     routes[r] # None /\ e.at < routes[r].changedAt
           \/ /\ r = e.route /\ routes[r] = None
              /\ routes'[r] = NewRouteRow(e) /\ routes'[r] # None
              /\ FailureCategory(e) = "context" /\ ~BearsOnRoute(e)
           \/ /\ r = e.route /\ routes'[r] # None
              /\ routes[r] # None => routes[r].changedAt <= e.at
              /\ FollowsEvent(routes'[r], e)
<1>1. routes \in RouteTable /\ HasRunning(requests, e.route) \in BOOLEAN
  BY DEF TypeOK, ProjectionsTyped, HasRunning
<1>2. routes' = ApplyToRoutes(routes, HasRunning(requests, e.route), e)
  BY DEF IngestNew, ApplyEvent
<1> QED
  BY <1>1, <1>2, RouteFollows

-----------------------------------------------------------------------------
(* LatestEvidenceWins, said of a set of events and a table: it does not    *)
(* depend on the order the events were applied in.                         *)
Reflects(E, rows) ==
    \A r \in Routes :
        /\ \A e \in E : e.route = r /\ BearsOnRoute(e) =>
               rows[r] # None /\ e.at <= rows[r].changedAt
        /\ rows[r] # None =>
               \E e \in E :
                   /\ e.route = r
                   /\ e.id = rows[r].source
                   /\ e.at = rows[r].changedAt
                   /\ \/ rows[r].state = Verdict(e)
                      \/ rows[r].state = "UNKNOWN" /\ FailureCategory(e) = "context"

(* The store's log and table are one case of it.                           *)
LEMMA LogReflects ==
    /\ LatestEvidenceWins <=> Reflects(ToSet(events), routes)
    /\ LatestEvidenceWins' <=> Reflects(ToSet(events'), routes')
BY DEF LatestEvidenceWins, OfRoute, Reflects, ToSet

(* One more event, and the table still reflects them all.                  *)
LEMMA ReflectsOneMore ==
    ASSUME NEW E \in SUBSET Event, NEW rows \in RouteTable, Reflects(E, rows),
           NEW e \in Event, NEW running \in BOOLEAN
    PROVE  Reflects(E \cup {e}, ApplyToRoutes(rows, running, e))
<1> DEFINE after == ApplyToRoutes(rows, running, e)
<1> SUFFICES ASSUME NEW r \in Routes
             PROVE  /\ \A d \in E \cup {e} : d.route = r /\ BearsOnRoute(d) =>
                           after[r] # None /\ d.at <= after[r].changedAt
                    /\ after[r] # None =>
                           \E d \in E \cup {e} :
                               /\ d.route = r
                               /\ d.id = after[r].source
                               /\ d.at = after[r].changedAt
                               /\ \/ after[r].state = Verdict(d)
                                  \/ /\ after[r].state = "UNKNOWN"
                                     /\ FailureCategory(d) = "context"
  BY DEF Reflects
<1> DEFINE new == after[r]
<1>1. rows[r] # None => rows[r].changedAt \in Nat
  BY DEF RouteTable, RouteRow
<1>2. e.at \in Nat /\ \A d \in E : d.at \in Nat
  BY EventFields
<1>3. /\ \A d \in E : d.route = r /\ BearsOnRoute(d) =>
             rows[r] # None /\ d.at <= rows[r].changedAt
      /\ rows[r] # None =>
             \E d \in E : /\ d.route = r
                          /\ d.id = rows[r].source
                          /\ d.at = rows[r].changedAt
                          /\ \/ rows[r].state = Verdict(d)
                             \/ /\ rows[r].state = "UNKNOWN"
                                /\ FailureCategory(d) = "context"
  BY DEF Reflects
<1>4. \/ /\ new = rows[r]
         /\ r = e.route /\ BearsOnRoute(e) =>
                rows[r] # None /\ e.at < rows[r].changedAt
      \/ /\ r = e.route /\ rows[r] = None
         /\ new = NewRouteRow(e) /\ new # None
         /\ FailureCategory(e) = "context" /\ ~BearsOnRoute(e)
      \/ /\ r = e.route /\ new # None
         /\ rows[r] # None => rows[r].changedAt <= e.at
         /\ FollowsEvent(new, e)
  BY RouteFollows
<1> HIDE DEF new
<1>5. ASSUME NEW d \in E \cup {e}, d.route = r, BearsOnRoute(d)
      PROVE  new # None /\ d.at <= new.changedAt
  BY <1>1, <1>2, <1>3, <1>4, <1>5 DEF FollowsEvent
<1>6. ASSUME new # None
      PROVE  \E d \in E \cup {e} :
                 /\ d.route = r
                 /\ d.id = new.source
                 /\ d.at = new.changedAt
                 /\ \/ new.state = Verdict(d)
                    \/ new.state = "UNKNOWN" /\ FailureCategory(d) = "context"
  BY <1>3, <1>4, <1>6 DEF FollowsEvent, NewRouteRow
<1> QED
  BY <1>5, <1>6 DEF new

(* An ingest adds its event to those the log holds.                        *)
LEMMA IngestAdds ==
    ASSUME TypeOK, NEW e \in Event, IngestNew(e)
    PROVE  ToSet(events') = ToSet(events) \cup {e} /\ ToSet(events) \subseteq Event
BY IngestAppends DEF ToSet

(* One ingest keeps every row on its route's newest evidence.              *)
LEMMA LatestEvidenceNext ==
    ASSUME TypeOK, LatestEvidenceWins, [Next]_vars
    PROVE  LatestEvidenceWins'
<1>1. CASE UNCHANGED vars
  BY <1>1, LogReflects DEF vars, projections
<1>2. CASE \E e \in Event : IngestNew(e)
  <2>1. PICK e \in Event : IngestNew(e)
    BY <1>2
  <2>2. routes \in RouteTable /\ HasRunning(requests, e.route) \in BOOLEAN
    BY DEF TypeOK, ProjectionsTyped, HasRunning
  <2>3. routes' = ApplyToRoutes(routes, HasRunning(requests, e.route), e)
    BY <2>1 DEF IngestNew, ApplyEvent
  <2> QED
    BY <2>1, <2>2, <2>3, IngestAdds, LogReflects, ReflectsOneMore
<1> QED
  BY <1>1, <1>2, NextIngests

(* The projection promise: whatever the order, repetition or loss of       *)
(* deliveries, each route row reflects one logged event about its route    *)
(* and no logged probe or attempt evidence about it is newer.              *)
THEOREM RoutesReflectLatestEvidence == Spec => []LatestEvidenceWins
<1>1. Init => LatestEvidenceWins
  BY DEF Init, ProjectionsInit, LatestEvidenceWins, OfRoute
<1> QED
  BY <1>1, LatestEvidenceNext, TypeCorrect, PTL DEF Spec

-----------------------------------------------------------------------------
(* The reset fields of one row, complete for its state.                    *)
ResetComplete(row, r) ==
    /\ row.state = "QUOTA" =>
          /\ row.resetAfter > 0
          /\ \/ /\ row.resetKnown = TRUE
                /\ row.resetAt = row.changedAt + row.resetAfter
                /\ row.nextCheckAt = None
             \/ /\ row.resetKnown = FALSE
                /\ row.resetAt = None
                /\ row.nextCheckAt = row.changedAt + DefaultReset(r)
    /\ row.state = "AVAILABLE" => row.resetAfter = 0

(* Quota evidence completes them, with or without a known reset.           *)
LEMMA QuotaRowComplete ==
    ASSUME NEW row \in RouteRow, NEW e \in Event, row.state = "QUOTA",
           row.changedAt = e.at
    PROVE  ResetComplete(QuotaRow(row, e), e.route)
<1>1. /\ DefaultReset(e.route) \in Nat /\ DefaultReset(e.route) > 0
      /\ e.at \in Nat /\ e.resetAfter \in Nat /\ e.resetKnown \in BOOLEAN
  BY DefaultResetTyped, EventFields
<1>2. CASE e.resetAfter # 0 /\ e.resetKnown
  BY <1>1, <1>2 DEF QuotaRow, ResetComplete, RouteRow
<1>3. CASE ~(e.resetAfter # 0 /\ e.resetKnown)
  BY <1>1, <1>3 DEF QuotaRow, ResetComplete, RouteRow
<1> QED
  BY <1>2, <1>3

(* A failure completes them: only the quota category leaves QUOTA.         *)
LEMMA FailureRowComplete ==
    ASSUME NEW row \in RouteRow, NEW e \in Event
    PROVE  ResetComplete(FailureRow(row, e), e.route)
<1> DEFINE failed == [row EXCEPT !.state = FailureState(FailureCategory(e)),
                                 !.changedAt = e.at, !.source = e.id]
<1>1. /\ failed \in RouteRow
      /\ failed.state = FailureState(FailureCategory(e))
      /\ failed.changedAt = e.at
  BY FailureStateTyped, EventFields DEF RouteRow
<1>2. [failed EXCEPT !.retries = @ + 1].state = failed.state
  BY DEF RouteRow
<1> HIDE DEF failed
<1>3. CASE FailureCategory(e) = "quota"
  BY <1>1, <1>3, QuotaRowComplete, FailureStateTyped DEF FailureRow, failed
<1>4. CASE FailureCategory(e) # "quota"
  <2>1. FailureRow(row, e).state = FailureState(FailureCategory(e))
    BY <1>1, <1>2, <1>4 DEF FailureRow, failed
  <2> QED
    BY <1>4, <2>1, FailureStateTyped DEF ResetComplete
<1> QED
  BY <1>3, <1>4

(* One ingest keeps the reset fields of every row complete.                *)
LEMMA QuotaHasResetNext ==
    ASSUME TypeOK, QuotaHasReset, [Next]_vars
    PROVE  QuotaHasReset'
<1>1. CASE UNCHANGED vars
  BY <1>1 DEF QuotaHasReset, vars, projections
<1>2. CASE \E e \in Event : IngestNew(e)
  <2>1. PICK e \in Event : IngestNew(e)
    BY <1>2
  <2>2. SUFFICES ASSUME NEW r \in Routes, routes'[r] # None
                 PROVE  ResetComplete(routes'[r], r)
    BY DEF QuotaHasReset, ResetComplete
  <2> DEFINE old == EnsureRouteRow(routes, e)
  <2>3. r = e.route => old \in RouteRow
    BY EnsureRouteRowTyped DEF TypeOK, ProjectionsTyped
  <2>4. CASE routes'[r] = routes[r]
    BY <2>2, <2>4 DEF QuotaHasReset, ResetComplete
  <2>5. CASE routes'[r] = NewRouteRow(e)
    BY <2>5 DEF NewRouteRow, ResetComplete
  <2>6. CASE r = e.route /\ routes'[r] = SuccessRow(old, e)
    <3> HIDE DEF old
    <3> QED
      BY <2>3, <2>6 DEF SuccessRow, ResetComplete, RouteRow
  <2>7. CASE r = e.route /\ routes'[r] = FailureRow(old, e)
    BY <2>3, <2>7, FailureRowComplete
  <2> QED
    BY <2>1, <2>4, <2>5, <2>6, <2>7, IngestRoute
<1> QED
  BY <1>1, <1>2, NextIngests

(* A route under quota always tells the decision engine when to come back, *)
(* and a usable route carries no leftover reset.                           *)
THEOREM QuotaAlwaysHasReset == Spec => []QuotaHasReset
<1>1. Init => QuotaHasReset
  BY DEF Init, ProjectionsInit, QuotaHasReset
<1> QED
  BY <1>1, QuotaHasResetNext, TypeCorrect, PTL DEF Spec

-----------------------------------------------------------------------------
(* The retry counter of one row moves only with a counted failure.         *)
LEMMA RetriesOfRows ==
    ASSUME NEW row \in RouteRow, NEW e \in Event
    PROVE  /\ SuccessRow(row, e).retries = 0
           /\ FailureRow(row, e).retries =
                 IF FailureCategory(e) = "transient" THEN row.retries + 1
                 ELSE row.retries
<1> DEFINE failed == [row EXCEPT !.state = FailureState(FailureCategory(e)),
                                 !.changedAt = e.at, !.source = e.id]
<1>1. SuccessRow(row, e).retries = 0
  BY DEF SuccessRow, RouteRow
<1>2. failed \in RouteRow /\ failed.retries = row.retries
  BY FailureStateTyped, EventFields DEF RouteRow
<1> HIDE DEF failed
<1>3. [failed EXCEPT !.retries = @ + 1].retries = failed.retries + 1
  BY <1>2 DEF RouteRow
<1>4. QuotaRow(failed, e).retries = failed.retries
  BY <1>2 DEF QuotaRow, RouteRow
<1> QED
  BY <1>1, <1>2, <1>3, <1>4 DEF FailureRow, failed

(* A set of positions of a log is finite.                                  *)
LEMMA PositionsFinite ==
    ASSUME NEW log \in Seq(Event), NEW T \in SUBSET DOMAIN log
    PROVE  IsFiniteSet(T) /\ Cardinality(T) \in Nat
<1>1. DOMAIN log = 1..Len(log) /\ Len(log) \in Int /\ 1 \in Int
  OBVIOUS
<1>2. IsFiniteSet(DOMAIN log)
  BY <1>1, FS_Interval
<1> QED
  BY <1>2, FS_Subset, FS_CardinalityType

(* The transient failures a row may count, before and after a step.        *)
LEMMA CountedFailures ==
    ASSUME NEW r, NEW i
    PROVE  /\ i \in TransientFailures(r) <=>
                 /\ i \in DOMAIN events /\ events[i].route = r
                 /\ FailsRoute(events[i], TRUE)
                 /\ FailureCategory(events[i]) = "transient"
                 /\ events[i].at <= routes[r].changedAt
           /\ i \in TransientFailures(r)' <=>
                 /\ i \in DOMAIN events' /\ events'[i].route = r
                 /\ FailsRoute(events'[i], TRUE)
                 /\ FailureCategory(events'[i]) = "transient"
                 /\ events'[i].at <= routes'[r].changedAt
BY DEF TransientFailures, OfRoute

(* Before the ingest: the counter of the row it finds or creates is        *)
(* covered by transient failures logged until then.                        *)
LEMMA RetriesCovered ==
    ASSUME TypeOK, RetryBudget, NEW e \in Event, IngestNew(e),
           NEW r \in Routes, r = e.route,
           routes[r] # None => routes[r].changedAt <= routes'[r].changedAt,
           routes'[r] # None
    PROVE  \E T \in SUBSET (TransientFailures(r)' \ {Len(events) + 1}) :
              /\ IsFiniteSet(T)
              /\ EnsureRouteRow(routes, e).retries <= Cardinality(T)
<1>1. CASE routes[r] = None
  BY <1>1, FS_EmptySet DEF EnsureRouteRow, NewRouteRow
<1>2. CASE routes[r] # None
  <2> DEFINE T == TransientFailures(r)
  <2>1. T \subseteq DOMAIN events
    BY DEF TransientFailures, OfRoute
  <2>2. IsFiniteSet(T)
    BY <2>1, PositionsFinite DEF TypeOK
  <2>3. EnsureRouteRow(routes, e).retries <= Cardinality(T)
    BY <1>2 DEF EnsureRouteRow, RetryBudget
  <2>4. ASSUME NEW i \in T
        PROVE  i \in TransientFailures(r)' \ {Len(events) + 1}
    <3>1. /\ i \in DOMAIN events' /\ events'[i] = events[i]
          /\ i # Len(events) + 1 /\ events[i].at \in Nat
      BY <2>4, <2>1, IngestAppends, EventFields
    <3>2. routes[r].changedAt \in Nat /\ routes'[r].changedAt \in Nat
      BY <1>2, IngestTyped DEF TypeOK, ProjectionsTyped, RouteTable, RouteRow
    <3>3. /\ FailsRoute(events[i], TRUE) /\ events[i].route = r
          /\ FailureCategory(events[i]) = "transient"
          /\ events[i].at <= routes[r].changedAt
      BY <2>4, CountedFailures
    <3>4. events'[i].at <= routes'[r].changedAt
      BY <1>2, <3>1, <3>2, <3>3
    <3> QED
      BY <3>1, <3>3, <3>4, CountedFailures
  <2> QED
    BY <2>2, <2>3, <2>4
<1> QED
  BY <1>1, <1>2

(* One ingest spends at most the retry its own event accounts for.         *)
LEMMA RetryBudgetNext ==
    ASSUME TypeOK, RetryBudget, [Next]_vars
    PROVE  RetryBudget'
<1>1. CASE UNCHANGED vars
  BY <1>1 DEF RetryBudget, TransientFailures, OfRoute, vars, projections
<1>2. CASE \E e \in Event : IngestNew(e)
  <2>1. PICK e \in Event : IngestNew(e)
    BY <1>2
  <2>2. SUFFICES ASSUME NEW r \in Routes, routes'[r] # None
                 PROVE  /\ routes'[r].retries <= Cardinality(TransientFailures(r)')
                        /\ routes'[r].state \in {"UNKNOWN", "PROBING", "AVAILABLE"}
                              => routes'[r].retries = 0
    BY DEF RetryBudget
  <2> DEFINE old == EnsureRouteRow(routes, e)
             n   == Len(events) + 1
  <2>3. IsFiniteSet(TransientFailures(r)') /\ Cardinality(TransientFailures(r)') \in Nat
    <3>1. TransientFailures(r)' \subseteq DOMAIN events'
      BY DEF TransientFailures, OfRoute
    <3> QED
      BY <2>1, <3>1, IngestTyped, PositionsFinite DEF TypeOK
  <2>4. r = e.route => old \in RouteRow
    BY EnsureRouteRowTyped DEF TypeOK, ProjectionsTyped
  <2>5. CASE routes'[r] = routes[r]
    <3>1. TransientFailures(r) \subseteq TransientFailures(r)'
      <4>1. ASSUME NEW i \in TransientFailures(r)
            PROVE  i \in TransientFailures(r)'
        <5>1. /\ i \in DOMAIN events /\ events[i].route = r
              /\ FailsRoute(events[i], TRUE)
              /\ FailureCategory(events[i]) = "transient"
              /\ events[i].at <= routes[r].changedAt
          BY <4>1, CountedFailures
        <5>2. i \in DOMAIN events' /\ events'[i] = events[i]
          BY <2>1, <5>1, IngestAppends
        <5>3. events'[i].at <= routes'[r].changedAt
          BY <2>5, <5>1, <5>2
        <5> QED
          BY <5>1, <5>2, <5>3, CountedFailures
      <4> QED
        BY <4>1
    <3>2. Cardinality(TransientFailures(r)) <= Cardinality(TransientFailures(r)')
          /\ Cardinality(TransientFailures(r)) \in Nat
      BY <2>3, <3>1, FS_Subset, FS_CardinalityType
    <3>3. routes[r].retries \in Nat
      BY <2>2, <2>5 DEF TypeOK, ProjectionsTyped, RouteTable, RouteRow
    <3> QED
      BY <2>2, <2>3, <2>5, <3>2, <3>3 DEF RetryBudget
  <2>6. CASE routes'[r] = NewRouteRow(e)
    BY <2>3, <2>6 DEF NewRouteRow
  <2>7. CASE r = e.route /\ routes'[r] = SuccessRow(old, e)
    BY <2>3, <2>4, <2>7, RetriesOfRows
  <2>8. CASE /\ r = e.route /\ routes'[r] = FailureRow(old, e) /\ ~IsLate(old, e)
             /\ FailsRoute(e, HasRunning(requests, e.route))
    <3>1. routes'[r].changedAt = e.at /\ routes'[r].state = Verdict(e)
      BY <2>4, <2>8, FailureFollowed DEF FollowsEvent, HasRunning
    <3>2. Verdict(e) \notin {"UNKNOWN", "PROBING", "AVAILABLE"}
      BY <2>8, FailureStateTyped DEF Verdict, FailsRoute
    <3>3. routes[r] # None => routes[r].changedAt <= routes'[r].changedAt
      BY <2>4, <2>8, <3>1, EventFields DEF EnsureRouteRow, IsLate, RouteRow
    <3>4. PICK T \in SUBSET (TransientFailures(r)' \ {n}) :
             IsFiniteSet(T) /\ old.retries <= Cardinality(T)
      BY <2>1, <2>2, <2>8, <3>3, RetriesCovered
    <3>5. Cardinality(T) <= Cardinality(TransientFailures(r)') /\ Cardinality(T) \in Nat
      BY <2>3, <3>4, FS_Subset, FS_CardinalityType
    <3>6. old.retries \in Nat
      BY <2>4, <2>8 DEF RouteRow
    <3>7. CASE FailureCategory(e) = "transient"
      <4>1. n \in TransientFailures(r)'
        <5>1. /\ n \in DOMAIN events' /\ events'[n] = e /\ e.at \in Nat
          BY <2>1, IngestAppends, EventFields
        <5>2. FailsRoute(e, TRUE) /\ FailureCategory(e) = "transient"
          BY <2>8, <3>7 DEF FailsRoute
        <5>3. events'[n].at <= routes'[r].changedAt /\ events'[n].route = r
          BY <2>8, <3>1, <5>1
        <5> QED
          BY <5>1, <5>2, <5>3, CountedFailures
      <4>2. /\ Cardinality(T \cup {n}) = Cardinality(T) + 1
            /\ Cardinality(T \cup {n}) <= Cardinality(TransientFailures(r)')
        <5>1. n \notin T /\ T \cup {n} \in SUBSET TransientFailures(r)'
          BY <3>4, <4>1
        <5> QED
          BY <2>3, <3>4, <5>1, FS_AddElement, FS_Subset
      <4>3. routes'[r].retries = old.retries + 1
        BY <2>4, <2>8, <3>7, RetriesOfRows
      <4> QED
        BY <2>3, <3>1, <3>2, <3>4, <3>5, <3>6, <4>2, <4>3
    <3>8. CASE FailureCategory(e) # "transient"
      <4>1. routes'[r].retries = old.retries
        BY <2>4, <2>8, <3>8, RetriesOfRows
      <4> QED
        BY <2>3, <3>1, <3>2, <3>4, <3>5, <3>6, <4>1
    <3> QED
      BY <3>7, <3>8
  <2> QED
    BY <2>1, <2>5, <2>6, <2>7, <2>8, IngestRoute
<1> QED
  BY <1>1, <1>2, NextIngests

(* The retry budget is spent only by logged transient failures no newer    *)
(* than the row, at most once each, and a usable route has all of it.      *)
THEOREM RetryBudgetHolds == Spec => []RetryBudget
<1>1. Init => RetryBudget
  BY DEF Init, ProjectionsInit, RetryBudget
<1> QED
  BY <1>1, RetryBudgetNext, TypeCorrect, PTL DEF Spec

-----------------------------------------------------------------------------
(* Refinement: the store implements the promise of LatestEvidence.         *)

(* What the register of a route holds before and after a step.             *)
LEMMA RegisterValue ==
    ASSUME NEW r \in Routes
    PROVE  /\ Register[r] = IF routes[r] = None THEN None
                ELSE [state |-> routes[r].state, at |-> routes[r].changedAt]
           /\ Register'[r] = IF routes'[r] = None THEN None
                ELSE [state |-> routes'[r].state, at |-> routes'[r].changedAt]
BY DEF Register

(* An ingest moves at most the register of the route the event names.      *)
LEMMA RegisterElsewhere ==
    ASSUME TypeOK, NEW e \in Event, IngestNew(e)
    PROVE  /\ e.route \notin Routes => Register' = Register
           /\ e.route \in Routes => Register' =
                  [Register EXCEPT ![e.route] = Register'[e.route]]
<1>1. \A r \in Routes : r # e.route => routes'[r] = routes[r]
  BY IngestFollows
<1>2. \A r \in Routes : r # e.route => Register'[r] = Register[r]
  BY <1>1, RegisterValue
<1>3. Register = [r \in Routes |-> Register[r]]
      /\ Register' = [r \in Routes |-> Register'[r]]
  BY DEF Register
<1> QED
  BY <1>2, <1>3

(* An ingest is a step of the promise or leaves every register alone.      *)
LEMMA IngestSupersedes ==
    ASSUME TypeOK, NEW e \in Event, IngestNew(e)
    PROVE  Promise!WordNext \/ Register' = Register
<1>1. CASE e.route \notin Routes
  BY <1>1, RegisterElsewhere
<1>2. ASSUME NEW r \in Routes, r = e.route
      PROVE  Promise!WordNext \/ Register' = Register
  <2>1. Register' = [Register EXCEPT ![r] = Register'[r]]
    BY <1>2, RegisterElsewhere
  <2>2. /\ routes[r] # None => routes[r] \in RouteRow
        /\ routes'[r] # None => routes'[r] \in RouteRow
    BY IngestTyped DEF TypeOK, ProjectionsTyped, RouteTable
  <2>3. ASSUME routes[r] # None
        PROVE  /\ Register[r].state = routes[r].state
               /\ Register[r].at = routes[r].changedAt
               /\ Register[r] \in Word
    <3>1. Register[r] = [state |-> routes[r].state, at |-> routes[r].changedAt]
      BY <2>3, RegisterValue
    <3>2. routes[r].state \in RouteStates /\ routes[r].changedAt \in Nat
      BY <2>2, <2>3 DEF RouteRow
    <3> QED
      BY <3>1, <3>2 DEF Word
  <2>4. ASSUME routes'[r] # None
        PROVE  /\ Register'[r].state = routes'[r].state
               /\ Register'[r].at = routes'[r].changedAt
               /\ Register'[r] \in Promise!Word
    <3>1. Register'[r] = [state |-> routes'[r].state, at |-> routes'[r].changedAt]
      BY <2>4, RegisterValue
    <3>2. routes'[r].state \in RouteStates /\ routes'[r].changedAt \in Nat
      BY <2>2, <2>4 DEF RouteRow
    <3> QED
      BY <3>1, <3>2 DEF Promise!Word, Promise!RouteStates, RouteStates
  <2>5. CASE routes'[r] = routes[r]
    <3>1. Register'[r] = Register[r]
      BY <2>5, RegisterValue
    <3> QED
      BY <2>1, <3>1 DEF Register
  <2>6. CASE routes[r] = None /\ routes'[r] # None
    <3>1. Register[r] = None
      BY <2>6, RegisterValue
    <3>2. Promise!Begin(r)
      BY <2>1, <2>4, <2>6, <3>1 DEF Promise!Begin
    <3> QED
      BY <3>2 DEF Promise!WordNext
  <2>7. CASE /\ routes[r] # None /\ routes'[r] # None
             /\ routes[r].changedAt <= e.at
             /\ FollowsEvent(routes'[r], e)
    <3>1. Register[r] # None
      BY <2>3, <2>7, WordAssumption
    <3>2. Register'[r].state # "UNKNOWN"
      BY <2>4, <2>7, FailureStateTyped DEF FollowsEvent, Verdict
    <3>3. Register'[r].at >= Register[r].at
      <4>1. routes'[r].changedAt = e.at /\ e.at \in Nat
        BY <2>7, EventFields DEF FollowsEvent
      <4>2. routes[r].changedAt \in Nat
        BY <2>2, <2>7 DEF RouteRow
      <4> QED
        BY <2>3, <2>4, <2>7, <4>1, <4>2
    <3>4. Promise!Supersede(r)
      BY <2>1, <2>4, <2>7, <3>1, <3>2, <3>3 DEF Promise!Supersede
    <3> QED
      BY <3>4 DEF Promise!WordNext
  <2> QED
    BY <1>2, <2>5, <2>6, <2>7, IngestFollows
<1> QED
  BY <1>1, <1>2

(* The event store implements the register: seen through its state and     *)
(* its instant, every route row only ever takes a word at least as recent, *)
(* is never forgotten and never returns to UNKNOWN, whatever arrives.      *)
THEOREM StoreImplementsLatestEvidence == Spec => ImplementsLatestEvidence
<1>1. Init => Promise!WordInit
  BY DEF Init, ProjectionsInit, Promise!WordInit, Register
<1>2. ASSUME TypeOK, [Next]_vars
      PROVE  [Promise!WordNext]_Register
  <2>1. CASE UNCHANGED vars
    BY <2>1 DEF vars, projections, Register
  <2> QED
    BY <1>2, <2>1, NextIngests, IngestSupersedes
<1> QED
  BY <1>1, <1>2, TypeCorrect, PTL DEF Spec, Promise!Spec, ImplementsLatestEvidence

-----------------------------------------------------------------------------
(* What an ingest does to a request: RequestsOutcome, in the store.        *)
LEMMA IngestRequest ==
    ASSUME TypeOK, NEW e \in Event, IngestNew(e), NEW q \in EventIds
    PROVE  \/ requests'[q] = requests[q]
           \/ /\ e.type = "route.recheck.requested"
              /\ Queues(requests, requests', q, e)
           \/ /\ e.type = "route.recheck.started"
              /\ Claims(requests, requests', q, e)
           \/ Finishes(requests, requests', q)
<1>1. requests \in RequestTable /\ requests' \in ApplyToRequests(requests, e)
  BY DEF TypeOK, ProjectionsTyped, IngestNew, ApplyEvent
<1> QED
  BY <1>1, RequestsOutcome

(* One ingest leaves at most one pending request per leg: an old one stays *)
(* the only one, and a new one is queued where there is none.              *)
LEMMA OnePendingNext ==
    ASSUME TypeOK, OnePendingPerRoute, [Next]_vars
    PROVE  OnePendingPerRoute'
<1>1. CASE UNCHANGED vars
  BY <1>1 DEF OnePendingPerRoute, RequestsOf, vars, projections
<1>2. CASE \E e \in Event : IngestNew(e)
  <2>1. PICK e \in Event : IngestNew(e)
    BY <1>2
  <2>2. ASSUME NEW r \in Routes,
               NEW p \in EventIds, requests'[p] # None,
               requests'[p].route = r, requests'[p].status = "pending"
        PROVE  \/ p \in RequestsOf(requests, r, "pending")
               \/ /\ p = e.id /\ r = e.route
                  /\ RequestsOf(requests, r, "pending") = {}
    BY <2>1, <2>2, IngestRequest
       DEF RequestsOf, Queues, Claims, Finishes, Finished
  <2> QED
    BY <2>2 DEF OnePendingPerRoute, RequestsOf
<1> QED
  BY <1>1, <1>2, NextIngests

(* Requests for a leg that is already queued collapse, whatever arrives in *)
(* between: there is never a choice of which pending request to claim.     *)
THEOREM OnePendingRequestPerRoute == Spec => []OnePendingPerRoute
<1>1. Init => OnePendingPerRoute
  BY Zenon DEF Init, ProjectionsInit, OnePendingPerRoute, RequestsOf
<1> QED
  BY <1>1, OnePendingNext, TypeCorrect, PTL DEF Spec

(* One step queues a request, claims a pending one or finishes a running   *)
(* one, and moves no request otherwise.                                    *)
LEMMA RequestsMove ==
    ASSUME TypeOK, [Next]_vars, NEW q \in EventIds, requests'[q] # requests[q]
    PROVE  \/ requests[q] = None /\ requests'[q].status = "pending"
           \/ /\ requests[q] # None
              /\ requests'[q].route = requests[q].route
              /\ \/ /\ requests[q].status = "pending"
                    /\ requests'[q].status = "running"
                 \/ /\ requests[q].status = "running"
                    /\ requests'[q].status \in Finished
<1>1. ~UNCHANGED vars
  BY DEF vars, projections
<1>2. PICK e \in Event : IngestNew(e)
  BY <1>1, NextIngests
<1> QED
  BY <1>2, IngestRequest DEF Queues, Claims, Finishes

(* No delivery, however late or repeated, moves a request back: it is      *)
(* queued, claimed and finished once each, on the leg it was made for.     *)
THEOREM RequestsOnlyMoveForward == Spec => RequestsMoveForward
<1>1. TypeOK /\ [Next]_vars =>
        [\A q \in EventIds : requests'[q] # requests[q] =>
          \/ requests[q] = None /\ requests'[q].status = "pending"
          \/ /\ requests[q] # None
             /\ requests'[q].route = requests[q].route
             /\ \/ /\ requests[q].status = "pending"
                   /\ requests'[q].status = "running"
                \/ /\ requests[q].status = "running"
                   /\ requests'[q].status \in Finished]_vars
  BY RequestsMove
<1> QED
  BY <1>1, TypeCorrect, PTL DEF Spec, RequestsMoveForward

-----------------------------------------------------------------------------
(* SettlementNeedsClaim is not inductive: a settlement consults the queue, *)
(* so what the queue says must itself be in the log.                       *)
RequestedIn(log, r) ==
    \E k \in DOMAIN log : log[k].route = r /\ log[k].type = "route.recheck.requested"

ClaimedIn(log, r) ==
    \E j, k \in DOMAIN log :
        /\ k < j
        /\ log[j].route = r /\ log[j].type = "route.recheck.started"
        /\ log[k].route = r /\ log[k].type = "route.recheck.requested"

RequestsLogged ==
    \A q \in EventIds : requests[q] # None =>
        /\ requests[q].status = "pending" => RequestedIn(events, requests[q].route)
        /\ requests[q].status = "running" => ClaimedIn(events, requests[q].route)

(* An ingest forgets no request and no claim, and adds its own.            *)
LEMMA LogRemembers ==
    ASSUME TypeOK, NEW e \in Event, IngestNew(e), NEW r
    PROVE  /\ RequestedIn(events, r) => RequestedIn(events', r)
           /\ ClaimedIn(events, r) => ClaimedIn(events', r)
           /\ e.route = r /\ e.type = "route.recheck.requested" =>
                 RequestedIn(events', r)
           /\ /\ e.route = r /\ e.type = "route.recheck.started"
              /\ RequestedIn(events, r)
              => ClaimedIn(events', r)
<1>1. \A i \in DOMAIN events :
          i \in DOMAIN events' /\ events'[i] = events[i] /\ i < Len(events) + 1
  BY IngestAppends
<1>2. Len(events) + 1 \in DOMAIN events' /\ events'[Len(events) + 1] = e
  BY IngestAppends
<1>3. RequestedIn(events, r) => RequestedIn(events', r)
  BY <1>1 DEF RequestedIn
<1>4. ClaimedIn(events, r) => ClaimedIn(events', r)
  BY <1>1 DEF ClaimedIn
<1>5. e.route = r /\ e.type = "route.recheck.requested" => RequestedIn(events', r)
  BY <1>2 DEF RequestedIn
<1>6. /\ e.route = r /\ e.type = "route.recheck.started"
      /\ RequestedIn(events, r)
      => ClaimedIn(events', r)
  BY <1>1, <1>2 DEF RequestedIn, ClaimedIn
<1> QED
  BY <1>3, <1>4, <1>5, <1>6

(* One ingest queues what it logs and claims what was queued.              *)
LEMMA RequestsLoggedNext ==
    ASSUME TypeOK, RequestsLogged, [Next]_vars
    PROVE  RequestsLogged'
<1>1. CASE UNCHANGED vars
  BY <1>1 DEF RequestsLogged, RequestedIn, ClaimedIn, vars, projections
<1>2. CASE \E e \in Event : IngestNew(e)
  <2>1. PICK e \in Event : IngestNew(e)
    BY <1>2
  <2>2. SUFFICES ASSUME NEW q \in EventIds, requests'[q] # None
                 PROVE  /\ requests'[q].status = "pending" =>
                              RequestedIn(events', requests'[q].route)
                        /\ requests'[q].status = "running" =>
                              ClaimedIn(events', requests'[q].route)
    BY DEF RequestsLogged, RequestedIn, ClaimedIn
  <2>3. CASE requests'[q] = requests[q]
    BY <2>1, <2>2, <2>3, LogRemembers DEF RequestsLogged
  <2>4. CASE /\ e.type = "route.recheck.requested"
             /\ Queues(requests, requests', q, e)
    BY <2>1, <2>4, LogRemembers DEF Queues
  <2>5. CASE /\ e.type = "route.recheck.started"
             /\ Claims(requests, requests', q, e)
    BY <2>1, <2>5, LogRemembers DEF Claims, RequestsLogged
  <2>6. CASE Finishes(requests, requests', q)
    BY <2>6 DEF Finishes, Finished
  <2> QED
    BY <2>1, <2>3, <2>4, <2>5, <2>6, IngestRequest
<1> QED
  BY <1>1, <1>2, NextIngests

(* A row that an ingest changes names that event, and a settlement changes *)
(* it only while a request of the leg is running.                          *)
LEMMA IngestNamesSource ==
    ASSUME TypeOK, NEW e \in Event, IngestNew(e), NEW r \in Routes,
           routes'[r] # routes[r]
    PROVE  /\ r = e.route
           /\ routes'[r].source = e.id
           /\ e.type \in SettleTypes => HasRunning(requests, r)
<1>1. r = e.route /\ routes'[r].source = e.id
  <2>1. /\ r = e.route
        /\ routes'[r] = NewRouteRow(e) \/ FollowsEvent(routes'[r], e)
    BY IngestFollows, Zenon
  <2> QED
    BY <2>1 DEF FollowsEvent, NewRouteRow
<1>2. SucceedsRoute(e, HasRunning(requests, r)) \/ FailsRoute(e, HasRunning(requests, r))
  <2>1. routes' = ApplyToRoutes(routes, HasRunning(requests, r), e)
    BY <1>1 DEF IngestNew, ApplyEvent
  <2>2. ~SucceedsRoute(e, HasRunning(requests, r)) /\ ~FailsRoute(e, HasRunning(requests, r))
          => ApplyToRoutes(routes, HasRunning(requests, r), e) = routes
    BY DEF ApplyToRoutes
  <2> QED
    BY <2>1, <2>2
<1> QED
  BY <1>1, <1>2 DEF SucceedsRoute, FailsRoute, SettleTypes

(* One ingest of a settlement moves a route only after its claim.          *)
LEMMA SettlementNext ==
    ASSUME TypeOK, LatestEvidenceWins, RequestsLogged, SettlementNeedsClaim,
           [Next]_vars
    PROVE  SettlementNeedsClaim'
<1>1. CASE UNCHANGED vars
  BY <1>1 DEF SettlementNeedsClaim, OfRoute, vars, projections
<1>2. CASE \E e \in Event : IngestNew(e)
  <2>1. PICK e \in Event : IngestNew(e)
    BY <1>2
  <2>2. SUFFICES ASSUME NEW r \in Routes, routes'[r] # None,
                        NEW i \in DOMAIN events', events'[i].route = r,
                        events'[i].id = routes'[r].source,
                        events'[i].type \in SettleTypes
                 PROVE  \E j, k \in DOMAIN events' :
                            /\ events'[j].route = r /\ events'[k].route = r
                            /\ k < j /\ j < i
                            /\ events'[j].type = "route.recheck.started"
                            /\ events'[k].type = "route.recheck.requested"
    BY DEF SettlementNeedsClaim, OfRoute
  <2>3. \A n \in DOMAIN events : /\ n \in DOMAIN events' /\ events'[n] = events[n]
                                 /\ n < Len(events) + 1 /\ events[n].id # e.id
    BY <2>1, IngestAppends
  <2>4. i \in DOMAIN events \/ (i = Len(events) + 1 /\ events'[i] = e)
    BY <2>1, IngestAppends
  <2>5. CASE routes'[r] = routes[r]
    <3>1. \E n \in DOMAIN events : events[n].id = routes[r].source
      BY <2>2, <2>5 DEF LatestEvidenceWins, OfRoute
    <3>2. i \in DOMAIN events
      BY <2>2, <2>3, <2>4, <2>5, <3>1
    <3>3. \E j, k \in DOMAIN events :
              /\ events[j].route = r /\ events[k].route = r
              /\ k < j /\ j < i
              /\ events[j].type = "route.recheck.started"
              /\ events[k].type = "route.recheck.requested"
      BY <2>2, <2>3, <2>5, <3>2 DEF SettlementNeedsClaim, OfRoute
    <3> QED
      BY <2>3, <3>3
  <2>6. CASE routes'[r] # routes[r]
    <3>1. i = Len(events) + 1 /\ events'[i] = e
      BY <2>1, <2>2, <2>3, <2>4, <2>6, IngestNamesSource
    <3>2. HasRunning(requests, r)
      BY <2>1, <2>2, <2>6, <3>1, IngestNamesSource
    <3>3. ClaimedIn(events, r)
      BY <3>2 DEF HasRunning, RequestsOf, RequestsLogged
    <3> QED
      BY <2>3, <3>1, <3>3 DEF ClaimedIn
  <2> QED
    BY <2>5, <2>6
<1> QED
  BY <1>1, <1>2, NextIngests

(* A recheck settlement that a route reflects was preceded, in the log, by *)
(* the claim of a request and that by the request, all for that route.     *)
THEOREM SettlementsFollowClaims == Spec => []SettlementNeedsClaim
<1>1. Init => RequestsLogged /\ SettlementNeedsClaim
  BY DEF Init, ProjectionsInit, RequestsLogged, SettlementNeedsClaim
<1> QED
  BY <1>1, RequestsLoggedNext, SettlementNext, TypeCorrect,
     RoutesReflectLatestEvidence, PTL DEF Spec

-----------------------------------------------------------------------------
(* Goals and attempts: attempts refer to goals that exist, a goal counts   *)
(* its starts, and a free-only goal stays on the free ladder.              *)

(* What an event does to the fields of a goal that the theorems read.      *)
LEMMA GoalFields ==
    ASSUME NEW rows \in GoalTable, NEW e \in Event, NEW g \in Goals
    PROVE  LET row == EnsureGoalRow(rows, e)
               new == ApplyToGoals(rows, e)[g]
           IN  \/ new = rows[g] /\ ~StartsFor(e, g)
               \/ /\ g = e.goal
                  /\ row \in GoalRow
                  /\ new # None
                  /\ new.attempts = IF StartsFor(e, g) THEN row.attempts + 1
                                    ELSE row.attempts
                  /\ e.freeOnly = TRUE /\ row.freeOnly = TRUE =>
                        new.freeOnly = TRUE /\ new.effective = row.effective
<1> DEFINE row == EnsureGoalRow(rows, e)
           new == ApplyToGoals(rows, e)[g]
<1> SUFFICES ASSUME ~(new = rows[g] /\ ~StartsFor(e, g))
             PROVE  /\ g = e.goal
                    /\ row \in GoalRow
                    /\ new # None
                    /\ new.attempts = IF StartsFor(e, g) THEN row.attempts + 1
                                            ELSE row.attempts
                    /\ e.freeOnly = TRUE /\ row.freeOnly = TRUE =>
                          /\ new.freeOnly = TRUE
                          /\ new.effective = row.effective
  OBVIOUS
<1>0. \/ e.type \in DOMAIN GOAL_STATUS /\ new = GoalEventRow(row, e)
      \/ e.type = "goal.context_escalated" /\ new = EscalatedRow(row, e)
      \/ StartsFor(e, g) /\ new = CountedRow(row, e)
      \/ /\ rows[g] # None
         /\ e.type \in {"attempt.heartbeat", "attempt.completed"}
         /\ new = SeenRow(rows[g], e)
  BY GoalOutcome
<1>1. g = e.goal
  BY GoalOutcome
<1>2. e.goal # None
  BY <1>1, EvidenceAssumption
<1>3. row \in GoalRow
  BY <1>2, EnsureGoalRowTyped
<1>4. rows[g] # None => row = rows[g]
  BY <1>1 DEF EnsureGoalRow
<1> HIDE DEF row, new
<1>5. CASE e.type \in DOMAIN GOAL_STATUS /\ new = GoalEventRow(row, e)
  <2>1. GoalEventRow(row, e) \in GoalRow
    BY <1>3, <1>5, GoalEventRowTyped
  <2>2. ~StartsFor(e, g)
    BY <1>5 DEF StartsFor, GOAL_STATUS
  <2>3. /\ GoalEventRow(row, e).attempts = row.attempts
        /\ e.freeOnly = TRUE /\ row.freeOnly = TRUE =>
              /\ GoalEventRow(row, e).freeOnly = TRUE
              /\ GoalEventRow(row, e).effective = row.effective
    BY <1>3 DEF GoalEventRow, GoalRow
  <2> QED
    BY <1>1, <1>3, <1>5, <2>1, <2>2, <2>3, GoalRowAssumption
<1>6. CASE e.type = "goal.context_escalated" /\ new = EscalatedRow(row, e)
  <2>1. /\ EscalatedRow(row, e) \in GoalRow
        /\ EscalatedRow(row, e).attempts = row.attempts
        /\ EscalatedRow(row, e).freeOnly = row.freeOnly
        /\ row.freeOnly = TRUE => EscalatedRow(row, e).effective = row.effective
    BY <1>3, EventFields DEF EscalatedRow, GoalRow, Strategies
  <2>2. ~StartsFor(e, g)
    BY <1>6 DEF StartsFor
  <2> QED
    BY <1>1, <1>3, <1>6, <2>1, <2>2, GoalRowAssumption
<1>7. CASE StartsFor(e, g) /\ new = CountedRow(row, e)
  <2>1. row.attempts + 1 \in Nat /\ e.at \in Nat
    BY <1>3, EventFields DEF GoalRow
  <2>2. /\ new \in GoalRow
        /\ new.attempts = row.attempts + 1
        /\ new.freeOnly = row.freeOnly
        /\ new.effective = row.effective
    BY <1>3, <1>7, <2>1, Zenon DEF GoalRow, CountedRow
  <2> QED
    BY <1>1, <1>3, <1>7, <2>2, GoalRowAssumption
<1>8. CASE /\ rows[g] # None
           /\ e.type \in {"attempt.heartbeat", "attempt.completed"}
           /\ new = SeenRow(rows[g], e)
  <2>1. /\ new \in GoalRow
        /\ new.attempts = row.attempts
        /\ new.freeOnly = row.freeOnly
        /\ new.effective = row.effective
    BY <1>3, <1>4, <1>8, EventFields DEF GoalRow, SeenRow
  <2>2. ~StartsFor(e, g)
    BY <1>8 DEF StartsFor
  <2> QED
    BY <1>1, <1>3, <2>1, <2>2, GoalRowAssumption
<1> QED
  BY <1>0, <1>5, <1>6, <1>7, <1>8

LEMMA IngestGoalFields ==
    ASSUME TypeOK, NEW e \in Event, IngestNew(e), NEW g \in Goals
    PROVE  LET row == EnsureGoalRow(goals, e)
               new == goals'[g]
           IN  \/ new = goals[g] /\ ~StartsFor(e, g)
               \/ /\ g = e.goal
                  /\ row \in GoalRow
                  /\ new # None
                  /\ new.attempts = IF StartsFor(e, g) THEN row.attempts + 1
                                    ELSE row.attempts
                  /\ e.freeOnly = TRUE /\ row.freeOnly = TRUE =>
                        new.freeOnly = TRUE /\ new.effective = row.effective
<1>1. goals \in GoalTable /\ goals' = ApplyToGoals(goals, e)
  BY DEF TypeOK, ProjectionsTyped, IngestNew, ApplyEvent
<1> QED
  BY <1>1, GoalFields

-----------------------------------------------------------------------------
(* AttemptsBelongToGoals, said of two tables.                              *)
Belong(as, gs) ==
    \A a \in Attempts :
        as[a] # None /\ as[a].goal # None => gs[as[a].goal] # None

(* An event keeps the goals that attempts point at, and adds the goal of   *)
(* an attempt with the attempt.                                            *)
LEMMA BelongOneMore ==
    ASSUME NEW as \in AttemptTable, NEW gs \in GoalTable, Belong(as, gs),
           NEW e \in Event
    PROVE  Belong(ApplyToAttempts(as, e), ApplyToGoals(gs, e))
<1> DEFINE as2 == ApplyToAttempts(as, e)
           gs2 == ApplyToGoals(gs, e)
<1> SUFFICES ASSUME NEW a \in Attempts, as2[a] # None, as2[a].goal # None
             PROVE  gs2[as2[a].goal] # None
  BY DEF Belong
<1>1. as2 \in AttemptTable
  BY ApplyToAttemptsTyped
<1>2. \/ as2[a] = as[a]
      \/ as[a] # None /\ as2[a].goal = as[a].goal
      \/ as2[a].goal = e.goal /\ e.type = "attempt.started" /\ e.attempt # None
  BY AttemptOutcome
<1>3. \A g \in Goals : gs[g] # None \/ StartsFor(e, g) => gs2[g] # None
  BY GoalFields
<1> HIDE DEF as2, gs2
<1>4. as2[a].goal \in Goals
  BY <1>1 DEF AttemptTable, AttemptRow
<1> QED
  BY <1>2, <1>3, <1>4 DEF Belong, StartsFor

LEMMA AttemptsBelongNext ==
    ASSUME TypeOK, AttemptsBelongToGoals, [Next]_vars
    PROVE  AttemptsBelongToGoals'
<1>1. CASE UNCHANGED vars
  BY <1>1 DEF AttemptsBelongToGoals, vars, projections
<1>2. CASE \E e \in Event : IngestNew(e)
  <2>1. PICK e \in Event : IngestNew(e)
    BY <1>2
  <2>2. /\ attempts \in AttemptTable /\ attempts' = ApplyToAttempts(attempts, e)
        /\ goals \in GoalTable /\ goals' = ApplyToGoals(goals, e)
    BY <2>1 DEF TypeOK, ProjectionsTyped, IngestNew, ApplyEvent
  <2>3. Belong(attempts, goals)
    BY DEF AttemptsBelongToGoals, Belong
  <2>4. Belong(attempts', goals')
    BY <2>2, <2>3, BelongOneMore
  <2> QED
    BY <2>4 DEF AttemptsBelongToGoals, Belong
<1> QED
  BY <1>1, <1>2, NextIngests

(* Readers that join attempts with goals never lose a row: an attempt's    *)
(* goal exists even when the attempt's events arrive first.                *)
THEOREM AttemptsHaveTheirGoals == Spec => []AttemptsBelongToGoals
<1>1. Init => AttemptsBelongToGoals
  BY DEF Init, ProjectionsInit, AttemptsBelongToGoals
<1> QED
  BY <1>1, AttemptsBelongNext, TypeCorrect, PTL DEF Spec

(* What every reader takes for granted of the tables: each event applied   *)
(* once, a reset with every quota, a goal with every attempt (ingest).     *)
THEOREM TablesStaySound == Spec => []TablesAreSound
<1>1. TypeOK /\ ExactlyOnce /\ QuotaHasReset /\ AttemptsBelongToGoals => TablesAreSound
  BY DEF TablesAreSound
<1> QED
  BY <1>1, TypeCorrect, DeliveriesApplyOnce, QuotaAlwaysHasReset,
     AttemptsHaveTheirGoals, PTL

-----------------------------------------------------------------------------
(* FreeOnlyPinned is not inductive: an escalation asks the row whether the *)
(* goal is free-only, so the row must also remember that it is.            *)
FreeOnlyRemembered ==
    \A g \in Goals :
        /\ goals[g] # None
        /\ \A i \in DOMAIN events :
               events[i].goal = g => events[i].freeOnly = TRUE
        => goals[g].effective = "free-first" /\ goals[g].freeOnly = TRUE

(* One ingest keeps what the goal remembers.                               *)
LEMMA FreeOnlyNext ==
    ASSUME TypeOK, FreeOnlyRemembered, [Next]_vars
    PROVE  FreeOnlyRemembered'
<1>1. CASE UNCHANGED vars
  BY <1>1 DEF FreeOnlyRemembered, vars, projections
<1>2. CASE \E e \in Event : IngestNew(e)
  <2>1. PICK e \in Event : IngestNew(e)
    BY <1>2
  <2>2. SUFFICES ASSUME NEW g \in Goals, goals'[g] # None,
                        \A i \in DOMAIN events' :
                            events'[i].goal = g => events'[i].freeOnly = TRUE
                 PROVE  goals'[g].effective = "free-first" /\ goals'[g].freeOnly = TRUE
    BY DEF FreeOnlyRemembered
  <2>3. \A i \in DOMAIN events : events[i].goal = g => events[i].freeOnly = TRUE
    BY <2>1, <2>2, IngestAppends
  <2>4. e.goal = g => e.freeOnly = TRUE
    <3>1. Len(events) + 1 \in DOMAIN events' /\ events'[Len(events) + 1] = e
      BY <2>1, IngestAppends
    <3> QED
      BY <2>2, <3>1
  <2>5. CASE goals'[g] = goals[g]
    BY <2>2, <2>3, <2>5 DEF FreeOnlyRemembered
  <2>6. CASE /\ g = e.goal
             /\ e.freeOnly = TRUE /\ EnsureGoalRow(goals, e).freeOnly = TRUE =>
                   /\ goals'[g].freeOnly = TRUE
                   /\ goals'[g].effective = EnsureGoalRow(goals, e).effective
    <3>1. /\ EnsureGoalRow(goals, e).freeOnly = TRUE
          /\ EnsureGoalRow(goals, e).effective = "free-first"
      <4>1. CASE goals[g] = None
        BY <2>4, <2>6, <4>1 DEF EnsureGoalRow, NewGoalRow
      <4>2. CASE goals[g] # None
        BY <2>3, <2>6, <4>2 DEF EnsureGoalRow, FreeOnlyRemembered
      <4> QED
        BY <4>1, <4>2
    <3> QED
      BY <2>4, <2>6, <3>1
  <2> QED
    BY <2>1, <2>5, <2>6, IngestGoalFields
<1> QED
  BY <1>1, <1>2, NextIngests

(* A goal whose events all say free-only is on the free ladder, through    *)
(* escalations and resumes that name another strategy.                     *)
THEOREM FreeOnlyStaysPinned == Spec => []FreeOnlyPinned
<1>1. Init => FreeOnlyRemembered
  BY DEF Init, ProjectionsInit, FreeOnlyRemembered
<1>2. FreeOnlyRemembered => FreeOnlyPinned
  BY DEF FreeOnlyRemembered, FreeOnlyPinned
<1> QED
  BY <1>1, <1>2, FreeOnlyNext, TypeCorrect, PTL DEF Spec

-----------------------------------------------------------------------------
(* AttemptCountExact, said of a set of events and a table: the starts made *)
(* for a goal are counted as events, so their order is of no matter.       *)
StartsIn(E, g) == {e \in E : StartsFor(e, g)}

Counts(E, rows) ==
    \A g \in Goals : IF rows[g] = None THEN StartsIn(E, g) = {}
                     ELSE rows[g].attempts = Cardinality(StartsIn(E, g))

(* One more event is counted once, on the goal it was made for.            *)
LEMMA CountsOneMore ==
    ASSUME NEW E, IsFiniteSet(E), NEW rows \in GoalTable, Counts(E, rows),
           NEW e \in Event, e \notin E
    PROVE  Counts(E \cup {e}, ApplyToGoals(rows, e))
<1> DEFINE after == ApplyToGoals(rows, e)
<1> SUFFICES ASSUME NEW g \in Goals
             PROVE  IF after[g] = None THEN StartsIn(E \cup {e}, g) = {}
                    ELSE after[g].attempts = Cardinality(StartsIn(E \cup {e}, g))
  BY DEF Counts
<1> DEFINE row == EnsureGoalRow(rows, e)
           new == after[g]
<1>1. \/ new = rows[g] /\ ~StartsFor(e, g)
      \/ /\ g = e.goal
         /\ row \in GoalRow
         /\ new # None
         /\ new.attempts = IF StartsFor(e, g) THEN row.attempts + 1
                           ELSE row.attempts
  BY GoalFields
<1>2. g = e.goal => row = IF rows[g] = None THEN NewGoalRow(e) ELSE rows[g]
  BY DEF EnsureGoalRow
<1>3. NewGoalRow(e).attempts = 0
  BY DEF NewGoalRow
<1>4. IF rows[g] = None THEN StartsIn(E, g) = {}
      ELSE rows[g].attempts = Cardinality(StartsIn(E, g))
  BY DEF Counts
<1> HIDE DEF row, new
<1>5. StartsIn(E, g) \in SUBSET E /\ e \notin StartsIn(E, g)
  BY DEF StartsIn
<1>6. /\ IsFiniteSet(StartsIn(E, g)) /\ Cardinality(StartsIn(E, g)) \in Nat
      /\ StartsIn(E, g) = {} => Cardinality(StartsIn(E, g)) = 0
      /\ Cardinality(StartsIn(E, g) \cup {e}) = Cardinality(StartsIn(E, g)) + 1
  BY <1>5, FS_Subset, FS_CardinalityType, FS_EmptySet, FS_AddElement
<1>7. StartsIn(E \cup {e}, g) = IF StartsFor(e, g) THEN StartsIn(E, g) \cup {e}
                               ELSE StartsIn(E, g)
  BY DEF StartsIn
<1>8. CASE new = rows[g] /\ ~StartsFor(e, g)
  BY <1>4, <1>7, <1>8 DEF new
<1>9. CASE /\ g = e.goal /\ row \in GoalRow /\ new # None
           /\ new.attempts = IF StartsFor(e, g) THEN row.attempts + 1
                             ELSE row.attempts
  <2>1. row.attempts = Cardinality(StartsIn(E, g))
    BY <1>2, <1>3, <1>4, <1>6, <1>9
  <2>2. new.attempts = Cardinality(StartsIn(E \cup {e}, g))
    BY <1>6, <1>7, <1>9, <2>1
  <2> QED
    BY <1>9, <2>2 DEF new
<1> QED
  BY <1>1, <1>8, <1>9

(* A log without a repeated id holds as many starts as events that start.  *)
LEMMA PositionsAreEvents ==
    ASSUME NEW log \in Seq(Event),
           \A i, j \in DOMAIN log : log[i].id = log[j].id => i = j,
           NEW g
    PROVE  Cardinality({i \in DOMAIN log : StartsFor(log[i], g)})
               = Cardinality(StartsIn(ToSet(log), g))
<1> DEFINE P == {i \in DOMAIN log : StartsFor(log[i], g)}
           S == StartsIn(ToSet(log), g)
           f == [i \in P |-> log[i]]
<1>1. IsFiniteSet(P)
  <2>1. P \in SUBSET DOMAIN log
    OBVIOUS
  <2> HIDE DEF P
  <2> QED
    BY <2>1, PositionsFinite
<1>2. \A i \in P : f[i] \in S
  BY DEF StartsIn, ToSet
<1>3. \A e \in S : \E i \in P : f[i] = e
  BY DEF StartsIn, ToSet
<1>4. \A i, j \in P : f[i] = f[j] => i = j
  OBVIOUS
<1>5. f \in Bijection(P, S)
  <2>1. f \in [P -> S]
    BY <1>2
  <2> HIDE DEF f, P, S
  <2> QED
    BY <1>3, <1>4, <2>1 DEF Bijection, Injection, Surjection, IsInjective
<1> HIDE DEF f, P, S
<1>6. Cardinality(P) = Cardinality(S)
  BY <1>1, <1>5, FS_Bijection DEF ExistsBijection
<1> QED
  BY <1>6 DEF P, S

(* The store's log and table are one case of it.                           *)
LEMMA LogCounts ==
    ASSUME NEW log \in Seq(Event), NEW rows,
           \A i, j \in DOMAIN log : log[i].id = log[j].id => i = j
    PROVE  /\ IsFiniteSet(ToSet(log))
           /\ Counts(ToSet(log), rows) <=>
                 \A g \in Goals :
                     LET starts == {i \in DOMAIN log :
                                       /\ log[i].type = "attempt.started"
                                       /\ log[i].goal = g
                                       /\ log[i].attempt # None}
                     IN  IF rows[g] = None THEN starts = {}
                         ELSE rows[g].attempts = Cardinality(starts)
<1>1. ASSUME NEW g
      PROVE  LET P == {i \in DOMAIN log : /\ log[i].type = "attempt.started"
                                          /\ log[i].goal = g
                                          /\ log[i].attempt # None}
             IN  /\ Cardinality(P) = Cardinality(StartsIn(ToSet(log), g))
                 /\ P = {} <=> StartsIn(ToSet(log), g) = {}
  <2>1. {i \in DOMAIN log : StartsFor(log[i], g)} =
          {i \in DOMAIN log : /\ log[i].type = "attempt.started"
                             /\ log[i].goal = g
                             /\ log[i].attempt # None}
    BY DEF StartsFor
  <2>2. {i \in DOMAIN log : StartsFor(log[i], g)} = {}
          <=> StartsIn(ToSet(log), g) = {}
    BY DEF StartsIn, ToSet
  <2> QED
    BY <2>1, <2>2, PositionsAreEvents
<1>2. IsFiniteSet(ToSet(log))
  <2>1. DOMAIN log = 1..Len(log) /\ Len(log) \in Nat
    OBVIOUS
  <2>2. IsFiniteSet(DOMAIN log)
    BY <2>1, FS_Interval
  <2>3. log \in Surjection(DOMAIN log, ToSet(log))
    BY DEF Surjection, ToSet
  <2> QED
    BY <2>2, <2>3, FS_Surjection
<1> QED
  BY <1>1, <1>2 DEF Counts

LEMMA StoreCounts ==
    ASSUME TypeOK, ExactlyOnce
    PROVE  /\ IsFiniteSet(ToSet(events))
           /\ AttemptCountExact <=> Counts(ToSet(events), goals)
BY LogCounts DEF TypeOK, ExactlyOnce, AttemptCountExact

LEMMA StoreCountsNext ==
    ASSUME TypeOK', ExactlyOnce'
    PROVE  AttemptCountExact' <=> Counts(ToSet(events'), goals')
BY LogCounts DEF TypeOK, ExactlyOnce, AttemptCountExact

(* One ingest counts the start it may be, once.                            *)
LEMMA AttemptCountNext ==
    ASSUME TypeOK, ExactlyOnce, AttemptCountExact, [Next]_vars
    PROVE  AttemptCountExact'
<1>1. CASE UNCHANGED vars
  BY <1>1 DEF AttemptCountExact, vars, projections
<1>2. CASE \E e \in Event : IngestNew(e)
  <2>1. PICK e \in Event : IngestNew(e)
    BY <1>2
  <2>2. goals \in GoalTable /\ goals' = ApplyToGoals(goals, e)
    BY <2>1 DEF TypeOK, ProjectionsTyped, IngestNew, ApplyEvent
  <2>3. Counts(ToSet(events), goals) /\ IsFiniteSet(ToSet(events))
    BY StoreCounts
  <2>4. e \notin ToSet(events)
    BY <2>1, IngestAppends DEF ToSet
  <2>5. Counts(ToSet(events'), goals')
    BY <2>1, <2>2, <2>3, <2>4, IngestAdds, CountsOneMore
  <2>6. TypeOK' /\ ExactlyOnce'
    BY TypeOKNext, ExactlyOnceNext
  <2> QED
    BY <2>5, <2>6, StoreCountsNext
<1> QED
  BY <1>1, <1>2, NextIngests

(* A goal's attempt_count is the number of its logged starts, however the  *)
(* deliveries are repeated and whichever of goal and attempt comes first.  *)
THEOREM AttemptsAreCounted == Spec => []AttemptCountExact
<1>1. Init => AttemptCountExact
  BY DEF Init, ProjectionsInit, AttemptCountExact
<1> QED
  BY <1>1, AttemptCountNext, TypeCorrect, DeliveriesApplyOnce, PTL DEF Spec
=============================================================================
