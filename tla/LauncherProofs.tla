--------------------------- MODULE LauncherProofs ---------------------------
(***************************************************************************)
(* Theorems about the loop of decision, launch and report, and about the   *)
(* exports that tell of it, for any policy, any number of launchers and    *)
(* operators and any bounds; and about the ladders, cells and queue that   *)
(* are made of the policy.                                                 *)
(***************************************************************************)
EXTENDS MCLauncher, ProjectionProofs, WellFoundedInduction

-----------------------------------------------------------------------------
(* The first element a question finds: Min is the least of a set.          *)
LEMMA MinOfNaturals ==
    ASSUME NEW I, I \subseteq Nat, I # {}
    PROVE  Min(I) \in I /\ \A i \in I : Min(I) <= i
<1>1. IsWellFoundedOn({p \in Nat \X Nat : p[1] < p[2]}, Nat)
  BY NatLessThanWellFounded DEF OpToRel
<1>2. \E i \in I : \A j \in I : ~(<<j, i>> \in {p \in Nat \X Nat : p[1] < p[2]})
  BY <1>1, WFMin
<1>3. \E i \in I : \A j \in I : i <= j
  <2>1. PICK i \in I : \A j \in I : ~(<<j, i>> \in {p \in Nat \X Nat : p[1] < p[2]})
    BY <1>2
  <2>2. \A j \in I : ~(j < i)
    BY <2>1
  <2> QED
    BY <2>2
<1> QED
  BY <1>3 DEF Min

-----------------------------------------------------------------------------
(* What a row under quota says of its reset: named by the provider and     *)
(* dated by reset_at, or not vouched for and next to a check that is due   *)
(* when the default of the leg's tier has passed; counted from the         *)
(* evidence either way.                                                    *)
ResetIsDated(row, r) ==
    /\ row.resetKnown \in BOOLEAN
    /\ row.resetAfter # 0
    /\ row.resetKnown => row.resetAt = row.changedAt + row.resetAfter
    /\ ~row.resetKnown => row.nextCheckAt = row.changedAt + DefaultReset(r)

Dated(row, r, t) ==
    row.changedAt <= t /\ (row.state = "QUOTA" => ResetIsDated(row, r))

(* Evidence of a leg.                                                      *)
Reported(e) == e \in Event /\ e.route \in Routes

LEMMA QuotaRowIsDated ==
    ASSUME NEW row \in RouteRow, NEW e, Reported(e), row.changedAt = e.at
    PROVE  ResetIsDated(QuotaRow(row, e), e.route)
<1>1. /\ e.at \in Nat /\ e.resetAfter \in Nat /\ e.resetKnown \in BOOLEAN
      /\ DefaultReset(e.route) \in Nat /\ DefaultReset(e.route) # 0
  BY EventFields, DefaultResetTyped DEF Reported
<1>2. CASE e.resetAfter # 0 /\ e.resetKnown
  <2> DEFINE end == e.at + e.resetAfter
  <2>1. QuotaRow(row, e) =
          [row EXCEPT !.resetAfter = e.resetAfter, !.resetKnown = TRUE,
                      !.resetAt = end, !.nextCheckAt = None]
    BY <1>2 DEF QuotaRow
  <2> HIDE DEF end
  <2>2. /\ QuotaRow(row, e).resetAfter = e.resetAfter
        /\ QuotaRow(row, e).resetKnown = TRUE
        /\ QuotaRow(row, e).resetAt = end
        /\ QuotaRow(row, e).changedAt = e.at
    BY <2>1 DEF RouteRow
  <2> QED
    BY <1>2, <2>2 DEF ResetIsDated, end
<1>3. CASE ~(e.resetAfter # 0 /\ e.resetKnown)
  <2> DEFINE after == IF e.resetAfter # 0 THEN e.resetAfter ELSE DefaultReset(e.route)
             next == e.at + DefaultReset(e.route)
  <2>1. QuotaRow(row, e) =
          [row EXCEPT !.resetAfter = after, !.resetKnown = FALSE,
                      !.resetAt = None, !.nextCheckAt = next]
    BY <1>3 DEF QuotaRow
  <2>2. after # 0
    BY <1>1
  <2> HIDE DEF after, next
  <2>3. /\ QuotaRow(row, e).resetAfter = after
        /\ QuotaRow(row, e).resetKnown = FALSE
        /\ QuotaRow(row, e).nextCheckAt = next
        /\ QuotaRow(row, e).changedAt = e.at
    BY <2>1 DEF RouteRow
  <2> QED
    BY <1>1, <2>2, <2>3 DEF ResetIsDated, next
<1> QED
  BY <1>2, <1>3

LEMMA FreshIsDated ==
    ASSUME NEW row, NEW r, NEW t \in Nat, row.changedAt = t,
           row.state # "QUOTA" \/ ResetIsDated(row, r)
    PROVE  Dated(row, r, t)
BY DEF Dated

(* Evidence reported when it happens leaves every row dated.               *)
LEMMA ReportsDateRows ==
    ASSUME NEW rows \in RouteTable, NEW running \in BOOLEAN, NEW e, Reported(e),
           \A r \in Routes : rows[r] # None => Dated(rows[r], r, e.at)
    PROVE  LET new == ApplyToRoutes(rows, running, e)
           IN  /\ new \in RouteTable
               /\ \A r \in Routes : new[r] # None => Dated(new[r], r, e.at)
<1> DEFINE new == ApplyToRoutes(rows, running, e)
           old == EnsureRouteRow(rows, e)
<1>1. e \in Event /\ e.at \in Nat /\ e.route \in Routes
  BY EventFields DEF Reported
<1>2. new \in RouteTable /\ old \in RouteRow
  BY <1>1, ApplyToRoutesTyped, EnsureRouteRowTyped
<1>3. ASSUME NEW r \in Routes, new[r] # None PROVE Dated(new[r], r, e.at)
  <2>1. CASE new[r] = rows[r]
    BY <1>3, <2>1
  <2>2. CASE new[r] = NewRouteRow(e)
    <3>1. NewRouteRow(e).changedAt = e.at /\ NewRouteRow(e).state = "UNKNOWN"
      BY DEF NewRouteRow
    <3>2. new[r].changedAt = e.at /\ new[r].state # "QUOTA"
      BY <2>2, <3>1
    <3> QED
      BY <1>1, <3>2, FreshIsDated
  <2>3. CASE new[r] = SuccessRow(old, e) /\ SucceedsRoute(e, running)
    <3>1. ~FailsRoute(e, TRUE)
      BY <2>3 DEF SucceedsRoute, FailsRoute
    <3>2. FollowsEvent(new[r], e)
      BY <1>1, <1>2, <2>3, SuccessFollowed
    <3>3. new[r].changedAt = e.at /\ new[r].state # "QUOTA"
      BY <3>1, <3>2 DEF FollowsEvent, Verdict
    <3> QED
      BY <1>1, <3>3, FreshIsDated
  <2>4. CASE new[r] = FailureRow(old, e) /\ FailsRoute(e, running) /\ r = e.route
    <3> DEFINE failed == [old EXCEPT !.state = FailureState(FailureCategory(e)),
                                     !.changedAt = e.at, !.source = e.id]
    <3>1. FollowsEvent(new[r], e) /\ Verdict(e) = FailureState(FailureCategory(e))
      BY <1>1, <1>2, <2>4, FailureFollowed DEF Verdict, FailsRoute
    <3>2. failed \in RouteRow /\ failed.changedAt = e.at
      BY <1>1, <1>2, FailureStateTyped, EventFields DEF RouteRow
    <3>3. FailureCategory(e) = "quota" => new[r] = QuotaRow(failed, e)
      BY <2>4 DEF FailureRow
    <3> HIDE DEF failed
    <3>4. FailureCategory(e) = "quota" => ResetIsDated(new[r], r)
      BY <2>4, <3>2, <3>3, QuotaRowIsDated
    <3>5. new[r].changedAt = e.at /\ (new[r].state = "QUOTA" => ResetIsDated(new[r], r))
      BY <3>1, <3>4, FailureStateTyped DEF FollowsEvent
    <3> QED
      BY <1>1, <3>5, FreshIsDated
  <2> QED
    BY <1>1, <2>1, <2>2, <2>3, <2>4, RouteOutcome
<1> QED
  BY <1>2, <1>3

-----------------------------------------------------------------------------
(* The loop of decision, launch and report.                                *)

RowsAreDated == \A r \in Routes : routes[r] # None => Dated(routes[r], r, now)

LaunchersHaveLegs ==
    \A p \in Launchers : launcher[p].doing # "idle" => launcher[p].leg \in Routes

DispatchInv == TypeOK /\ RowsAreDated /\ LaunchersHaveLegs

(* What a launcher reports is an event of its leg (ToEvent).               *)
LEMMA ToEventIsReported ==
    ASSUME now \in Nat, NEW type \in EVENT_TYPES, NEW STATE leg, leg \in Routes,
           NEW reason \in ReasonCodes, NEW resetAfter \in Nat, NEW known \in BOOLEAN
    PROVE  /\ Reported(ToEvent(type, leg, reason, resetAfter, known))
           /\ ToEvent(type, leg, reason, resetAfter, known).at = now
           /\ ToEvent(type, leg, reason, resetAfter, known).route = leg
<1> DEFINE id == CHOOSE x \in EventIds : TRUE
<1>1. id \in EventIds
  BY DispatchAssumption
<1> HIDE DEF id
<1> DEFINE e == [id |-> id, type |-> type, at |-> now, route |-> leg, goal |-> None,
                 attempt |-> None, reason |-> reason, signal |-> None,
                 resetAfter |-> resetAfter, resetKnown |-> known,
                 strategy |-> None, freeOnly |-> None]
<1>2. e = ToEvent(type, leg, reason, resetAfter, known)
  BY DEF ToEvent, id
<1>3. e \in EventRecord
  BY <1>1 DEF EventRecord
<1>4. leg # None
  BY EvidenceAssumption
<1>5. e \in Event
  BY <1>3, <1>4 DEF Event
<1> QED
  BY <1>2, <1>5 DEF Reported

LEMMA ReportMovesRows ==
    ASSUME DispatchInv, NEW running \in BOOLEAN, NEW STATE e, Reported(e), e.at = now,
           routes' = ApplyToRoutes(routes, running, e), UNCHANGED now
    PROVE  routes' \in RouteTable /\ RowsAreDated'
<1>1. routes \in RouteTable
  BY DEF DispatchInv, TypeOK, RouteTable
<1>2. \A r \in Routes : routes[r] # None => Dated(routes[r], r, e.at)
  BY DEF DispatchInv, RowsAreDated
<1> DEFINE new == ApplyToRoutes(routes, running, e)
<1>3. new \in RouteTable /\ \A r \in Routes : new[r] # None => Dated(new[r], r, e.at)
  BY <1>1, <1>2, ReportsDateRows
<1>4. routes' = new /\ now' = e.at
  OBVIOUS
<1> HIDE DEF new
<1> QED
  BY <1>3, <1>4 DEF RowsAreDated

Doing == {"idle", "to-probe", "probing", "running"}

LEMMA LauncherMoves ==
    ASSUME DispatchInv, NEW p \in Launchers, NEW STATE row,
           row \in [doing : Doing, leg : Routes \cup {None}],
           row.doing # "idle" => row.leg \in Routes,
           launcher' = [launcher EXCEPT ![p] = row]
    PROVE  /\ launcher' \in [Launchers -> [doing : Doing, leg : Routes \cup {None}]]
           /\ LaunchersHaveLegs'
BY DEF DispatchInv, TypeOK, LaunchersHaveLegs, Doing

LEMMA IdleIsIdle == Idle \in [doing : Doing, leg : Routes \cup {None}] /\ Idle.doing = "idle"
BY DEF Idle, Doing

LEMMA DispatchInvInit == Init => DispatchInv
<1> SUFFICES ASSUME Init PROVE DispatchInv
  OBVIOUS
<1>1. \A p \in Launchers : launcher[p] = Idle
  BY DEF Init
<1>2. TypeOK
  BY <1>1, IdleIsIdle, DispatchAssumption DEF Init, TypeOK, Models, Doing
<1> QED
  BY <1>1, <1>2, IdleIsIdle DEF Init, DispatchInv, RowsAreDated, LaunchersHaveLegs

-----------------------------------------------------------------------------
(* The ladder: the legs of the document, in its order.                     *)

DocRoutes == Doc.routes
Own(i) == DocRoutes[i].accounts

LEMMA DocLists ==
    /\ DOMAIN DocRoutes = 1..Len(DocRoutes) /\ Len(DocRoutes) \in Nat
    /\ \A i \in DOMAIN DocRoutes :
           /\ DocRoutes[i] \in ToSet(DocRoutes)
           /\ DOMAIN Own(i) = 1..Len(Own(i)) /\ Len(Own(i)) \in Nat
           /\ \A k \in DOMAIN Own(i) : Own(i)[k] \in ToSet(Own(i))
           /\ ToSet(Own(i)) \subseteq {x.id : x \in ToSet(Doc.accounts)}
<1>1. /\ DocRoutes \in Seq(ToSet(DocRoutes))
      /\ \A r \in ToSet(DocRoutes) : /\ r.accounts \in Seq(ToSet(r.accounts))
                                     /\ ToSet(r.accounts) \subseteq
                                            {x.id : x \in ToSet(Doc.accounts)}
  BY DispatchAssumption DEF HasLists, DocRoutes, validate_policy, ValidRoute
<1>2. /\ DOMAIN DocRoutes = 1..Len(DocRoutes) /\ Len(DocRoutes) \in Nat
      /\ \A i \in DOMAIN DocRoutes : DocRoutes[i] \in ToSet(DocRoutes)
  BY <1>1
<1>3. ASSUME NEW i \in DOMAIN DocRoutes
      PROVE  /\ DOMAIN Own(i) = 1..Len(Own(i)) /\ Len(Own(i)) \in Nat
             /\ \A k \in DOMAIN Own(i) : Own(i)[k] \in ToSet(Own(i))
             /\ ToSet(Own(i)) \subseteq {x.id : x \in ToSet(Doc.accounts)}
  <2>1. DocRoutes[i] \in ToSet(DocRoutes)
    BY <1>2
  <2>2. Own(i) \in Seq(ToSet(Own(i)))
    BY <1>1, <2>1 DEF Own
  <2>3. DOMAIN Own(i) = 1..Len(Own(i)) /\ Len(Own(i)) \in Nat
    BY <2>2
  <2>4. \A k \in DOMAIN Own(i) : Own(i)[k] \in ToSet(Own(i))
    BY DEF ToSet
  <2>5. ToSet(Own(i)) \subseteq {x.id : x \in ToSet(Doc.accounts)}
    BY <1>1, <2>1 DEF Own
  <2> QED
    BY <2>3, <2>4, <2>5
<1> QED
  BY <1>2, <1>3

(* A rank is a place in the order of accounts or the one after its end.    *)
LEMMA OrderIsFinite ==
    /\ DOMAIN account_order(Doc) \subseteq Nat
    /\ Len(account_order(Doc)) \in Nat
<1> DEFINE usable == {x \in ToSet(Doc.accounts) : Usable(x)}
           sorted == Ordered(usable, ByPriority(usable))
           order == [i \in DOMAIN sorted |-> sorted[i].id]
           N == Cardinality(usable)
<1>1. IsFiniteSet(usable)
  <2>1. Doc.accounts \in Seq(ToSet(Doc.accounts))
    BY DispatchAssumption DEF HasLists
  <2>2. DOMAIN Doc.accounts = 1..Len(Doc.accounts) /\ Len(Doc.accounts) \in Nat
    BY <2>1
  <2>3. IsFiniteSet(DOMAIN Doc.accounts)
    BY <2>2, FS_Interval
  <2>4. Doc.accounts \in Surjection(DOMAIN Doc.accounts, ToSet(Doc.accounts))
    <3>1. Doc.accounts \in [DOMAIN Doc.accounts -> ToSet(Doc.accounts)]
      BY <2>1, <2>2
    <3>2. \A x \in ToSet(Doc.accounts) : \E i \in DOMAIN Doc.accounts : Doc.accounts[i] = x
      BY DEF ToSet
    <3> QED
      BY <3>1, <3>2 DEF Surjection
  <2>5. IsFiniteSet(ToSet(Doc.accounts))
    BY <2>3, <2>4, FS_Surjection
  <2>6. usable \in SUBSET ToSet(Doc.accounts)
    OBVIOUS
  <2> HIDE DEF usable
  <2> QED
    BY <2>5, <2>6, FS_Subset
<1>2. account_order(Doc) = order
  BY DEF account_order
<1> HIDE DEF usable
<1>3. N \in Nat
  BY <1>1, FS_CardinalityType
<1>4. DOMAIN sorted = 1..N
  BY DEF Ordered
<1> HIDE DEF sorted, N
<1>5. order \in [1..N -> {order[i] : i \in 1..N}] /\ DOMAIN order = 1..N
  BY <1>4
<1> HIDE DEF order
<1>6. Len(order) = N
  BY <1>3, <1>5
<1> QED
  BY <1>2, <1>3, <1>5, <1>6

(* Ranking an account list only reorders it.                               *)
Reorders(accounts) ==
    /\ DOMAIN accounts = DOMAIN DocRoutes
    /\ \A i \in DOMAIN DocRoutes :
           /\ \E n \in Nat : DOMAIN accounts[i] = 1..n
           /\ \A k \in DOMAIN accounts[i] : accounts[i][k] \in ToSet(Own(i))
           /\ \A id \in ToSet(Own(i)) : \E k \in DOMAIN accounts[i] : accounts[i][k] = id

LEMMA RankedReorders == Reorders(RankedAccounts(Doc))
<1> DEFINE order == account_order(Doc)
           number(own) == [k \in DOMAIN own |-> Rank(order, own[k])]
           sorted(own) == Ordered(DOMAIN own, ByNumber(DOMAIN own, number(own)))
           ranked(own) == [n \in DOMAIN sorted(own) |-> own[sorted(own)[n]]]
<1>1. RankedAccounts(Doc) = [i \in DOMAIN DocRoutes |-> ranked(Own(i))]
  BY DEF RankedAccounts, Ranked, DocRoutes, Own
<1>2. \A x : Rank(order, x) \in Nat
  BY OrderIsFinite DEF Contains, Rank
<1>3. ASSUME NEW i \in DOMAIN DocRoutes
      PROVE  /\ \E n \in Nat : DOMAIN ranked(Own(i)) = 1..n
             /\ \A k \in DOMAIN ranked(Own(i)) : ranked(Own(i))[k] \in ToSet(Own(i))
             /\ \A id \in ToSet(Own(i)) :
                    \E k \in DOMAIN ranked(Own(i)) : ranked(Own(i))[k] = id
  <2> DEFINE own == Own(i)
             S == DOMAIN own
             N == Cardinality(S)
             p == sorted(own)
  <2>1. S = 1..Len(own) /\ Len(own) \in Nat /\ \A k \in S : own[k] \in ToSet(own)
    BY DocLists
  <2>2. IsFiniteSet(S)
    BY <2>1, FS_Interval
  <2>3. Orders(ByNumber(S, number(own)), S)
    <3>1. S \subseteq Nat /\ \A k \in S : number(own)[k] \in Nat
      BY <1>2, <2>1
    <3> HIDE DEF S, number
    <3> QED
      BY <3>1, ByNumberOrders
  <2> HIDE DEF number
  <2>4. /\ p \in [1..N -> S] /\ N \in Nat
        /\ \A k \in S : \E n \in 1..N : p[n] = k
    BY <2>2, <2>3, OrderedSorts
  <2> DEFINE r == ranked(own)
  <2>5. DOMAIN r = 1..N /\ \A n \in 1..N : r[n] = own[p[n]]
    BY <2>4
  <2> HIDE DEF p, N, ranked, S, r
  <2>6. \A n \in DOMAIN r : r[n] \in ToSet(own)
    BY <2>1, <2>4, <2>5
  <2>7. ASSUME NEW id \in ToSet(own)
        PROVE  \E n \in DOMAIN r : r[n] = id
    <3>1. PICK k \in S : own[k] = id
      BY DEF ToSet, S
    <3> QED
      BY <2>4, <2>5, <3>1
  <2> QED
    BY <2>4, <2>5, <2>6, <2>7 DEF r
<1> HIDE DEF ranked
<1> QED
  BY <1>1, <1>3 DEF Reorders

LEMMA LegsAreFinite ==
    ASSUME NEW chosen \in SUBSET DOMAIN DocRoutes, NEW accounts,
           \A i \in chosen : \E n \in Nat : DOMAIN accounts[i] = 1..n
    PROVE  IsFiniteSet(LegsOf(chosen, accounts)) /\ LegsOf(chosen, accounts) \subseteq Nat \X Nat
<1> DEFINE f == [i \in chosen |-> {i} \X DOMAIN accounts[i]]
           T == {{i} \X DOMAIN accounts[i] : i \in chosen}
<1>1. IsFiniteSet(DOMAIN DocRoutes) /\ DOMAIN DocRoutes \subseteq Nat
  BY DocLists, FS_Interval
<1>2. IsFiniteSet(chosen) /\ chosen \subseteq Nat
  BY <1>1, FS_Subset
<1>3. f \in Surjection(chosen, T)
  <2>1. f \in [chosen -> T] /\ \A t \in T : \E i \in chosen : f[i] = t
    OBVIOUS
  <2> HIDE DEF f, T
  <2> QED
    BY <2>1 DEF Surjection
<1>4. IsFiniteSet(T)
  <2> HIDE DEF f, T
  <2> QED
    BY <1>2, <1>3, FS_Surjection
<1>5. ASSUME NEW i \in chosen
      PROVE  IsFiniteSet({i} \X DOMAIN accounts[i]) /\ {i} \X DOMAIN accounts[i] \subseteq Nat \X Nat
  <2>1. PICK n \in Nat : DOMAIN accounts[i] = 1..n
    OBVIOUS
  <2>2. IsFiniteSet({i}) /\ i \in Nat
    BY <1>2, FS_Singleton
  <2>3. IsFiniteSet(1..n)
    BY FS_Interval
  <2> QED
    BY <2>1, <2>2, <2>3, FS_Product
<1>6. \A t \in T : IsFiniteSet(t) /\ t \subseteq Nat \X Nat
  BY <1>5
<1>7. LegsOf(chosen, accounts) = UNION T
  BY DEF LegsOf
<1> HIDE DEF T
<1> QED
  BY <1>4, <1>6, <1>7, FS_UNION

(* The legs at a set of places, each once and a route after another.       *)
Lists(legs, accounts, places) ==
    \E N \in Nat : \E p \in [1..N -> places] :
        /\ legs = [n \in 1..N |-> LegAt(Doc, accounts, p[n])]
        /\ \A q \in places : \E n \in 1..N : p[n] = q
        /\ \A m, n \in 1..N : m < n => p[m][1] <= p[n][1]

LEMMA ExpandLists ==
    ASSUME NEW accounts, NEW places, IsFiniteSet(places), places \subseteq Nat \X Nat
    PROVE  Lists(Expand(Doc, accounts, places), accounts, places)
<1> DEFINE before == {q \in places \X places :
                         \/ q[1][1] < q[2][1]
                         \/ q[1][1] = q[2][1] /\ q[1][2] < q[2][2]}
           N == Cardinality(places)
           p == Ordered(places, before)
<1>1. Orders(before, places)
  <2>1. \A q \in places : q[1] \in Nat /\ q[2] \in Nat /\ q = <<q[1], q[2]>>
    OBVIOUS
  <2>2. \A q, u \in places :
           <<q, u>> \in before <=> \/ q[1] < u[1]
                                   \/ q[1] = u[1] /\ q[2] < u[2]
    OBVIOUS
  <2> HIDE DEF before
  <2>3. \A q, u \in places : q[1] = u[1] /\ q[2] = u[2] => q = u
    BY <2>1
  <2>4. \A q \in places : <<q, q>> \notin before
    BY <2>1, <2>2
  <2>5. \A q, u, v \in places : <<q, u>> \in before /\ <<u, v>> \in before => <<q, v>> \in before
    <3> SUFFICES ASSUME NEW q \in places, NEW u \in places, NEW v \in places,
                        <<q, u>> \in before, <<u, v>> \in before
                 PROVE  <<q, v>> \in before
      OBVIOUS
    <3>1. /\ q[1] < u[1] \/ (q[1] = u[1] /\ q[2] < u[2])
          /\ u[1] < v[1] \/ (u[1] = v[1] /\ u[2] < v[2])
      BY <2>2
    <3>2. q[1] < v[1] \/ (q[1] = v[1] /\ q[2] < v[2])
      BY <2>1, <3>1
    <3> QED
      BY <2>2, <3>2
  <2>6. \A q, u \in places : q = u \/ <<q, u>> \in before \/ <<u, q>> \in before
    <3>1. \A q, u \in places :
             \/ q[1] = u[1] /\ q[2] = u[2]
             \/ q[1] < u[1] \/ (q[1] = u[1] /\ q[2] < u[2])
             \/ u[1] < q[1] \/ (u[1] = q[1] /\ u[2] < q[2])
      BY <2>1
    <3> QED
      BY <2>2, <2>3, <3>1
  <2> QED
    BY <2>4, <2>5, <2>6 DEF Orders
<1>2. \A q, u \in places : <<q, u>> \in before => q[1] <= u[1]
  OBVIOUS
<1>3. Expand(Doc, accounts, places) = [n \in DOMAIN p |-> LegAt(Doc, accounts, p[n])]
  BY DEF Expand
<1> HIDE DEF before
<1>4. /\ p \in [1..N -> places] /\ N \in Nat
      /\ \A q \in places : \E n \in 1..N : p[n] = q
      /\ \A m, n \in 1..N : m < n => <<p[m], p[n]>> \in before
  BY <1>1, OrderedSorts
<1> HIDE DEF p, N
<1>5. DOMAIN p = 1..N /\ \A m, n \in 1..N : m < n => p[m][1] <= p[n][1]
  BY <1>2, <1>4
<1>6. Expand(Doc, accounts, places) = [n \in 1..N |-> LegAt(Doc, accounts, p[n])]
  BY <1>3, <1>5, Zenon
<1> QED
  BY <1>4, <1>5, <1>6 DEF Lists

(* What lists of legs have in common: they are legs of the document, and   *)
(* come in the order of its routes.                                        *)
Follows(legs, chosen) ==
    /\ legs \in Seq(Routes)
    /\ \E at \in [DOMAIN legs -> chosen] :
          /\ \A n \in DOMAIN legs : legs[n].tier = DocRoutes[at[n]].tier
          /\ \A m, n \in DOMAIN legs : m < n => at[m] <= at[n]

LEMMA ExpandFollows ==
    ASSUME NEW chosen \in SUBSET DOMAIN DocRoutes, NEW accounts, Reorders(accounts),
           NEW places \in SUBSET LegsOf(chosen, accounts)
    PROVE  /\ Follows(Expand(Doc, accounts, places), chosen)
           /\ ToSet(Expand(Doc, accounts, places)) =
                  {LegAt(Doc, accounts, q) : q \in places}
<1> DEFINE legs == Expand(Doc, accounts, places)
<1>1. \A i \in chosen : \E n \in Nat : DOMAIN accounts[i] = 1..n
  BY DEF Reorders
<1>2. IsFiniteSet(places) /\ places \subseteq Nat \X Nat
  BY <1>1, LegsAreFinite, FS_Subset
<1>3. Lists(legs, accounts, places)
  BY <1>2, ExpandLists
<1> HIDE DEF legs
<1>4. PICK N \in Nat : \E p \in [1..N -> places] :
         /\ legs = [n \in 1..N |-> LegAt(Doc, accounts, p[n])]
         /\ \A q \in places : \E n \in 1..N : p[n] = q
         /\ \A m, n \in 1..N : m < n => p[m][1] <= p[n][1]
  BY <1>3 DEF Lists
<1>5. PICK p \in [1..N -> places] :
         /\ legs = [n \in 1..N |-> LegAt(Doc, accounts, p[n])]
         /\ \A q \in places : \E n \in 1..N : p[n] = q
         /\ \A m, n \in 1..N : m < n => p[m][1] <= p[n][1]
  BY <1>4
<1>6. ASSUME NEW q \in places
      PROVE  /\ q[1] \in chosen /\ LegAt(Doc, accounts, q) \in Routes
             /\ LegAt(Doc, accounts, q).tier = DocRoutes[q[1]].tier
  <2>1. q[1] \in chosen /\ q[2] \in DOMAIN accounts[q[1]]
    BY DEF LegsOf
  <2>2. accounts[q[1]][q[2]] \in ToSet(Own(q[1]))
    BY <2>1 DEF Reorders
  <2>3. /\ accounts[q[1]][q[2]] \in {x.id : x \in ToSet(Doc.accounts)}
        /\ DocRoutes[q[1]] \in ToSet(DocRoutes)
    BY <2>1, <2>2, DocLists
  <2>4. LegAt(Doc, accounts, q) = Leg(accounts[q[1]][q[2]], DocRoutes[q[1]])
    BY DEF LegAt, DocRoutes
  <2>5. Routes = {Leg(a, r) : a \in {x.id : x \in ToSet(Doc.accounts)}, r \in ToSet(DocRoutes)}
    BY DispatchAssumption DEF DocRoutes
  <2>6. LegAt(Doc, accounts, q) \in Routes
    BY <2>3, <2>4, <2>5
  <2> QED
    BY <2>1, <2>4, <2>6 DEF Leg
<1> DEFINE at == [n \in 1..N |-> p[n][1]]
<1>7. legs \in [1..N -> Routes] /\ DOMAIN legs = 1..N
  BY <1>5, <1>6
<1>8. legs \in Seq(Routes)
  BY <1>7
<1>9. /\ at \in [DOMAIN legs -> chosen]
      /\ \A n \in DOMAIN legs : legs[n].tier = DocRoutes[at[n]].tier
      /\ \A m, n \in DOMAIN legs : m < n => at[m] <= at[n]
  BY <1>5, <1>6, <1>7
<1> HIDE DEF at
<1>10. Follows(legs, chosen)
  BY <1>8, <1>9 DEF Follows
<1>11. ToSet(legs) = {LegAt(Doc, accounts, q) : q \in places}
  BY <1>5, <1>7 DEF ToSet
<1> QED
  BY <1>10, <1>11 DEF legs

(* What decide asks of the routes, before the cap.                         *)
Asked(s, f) == {i \in routes_for_strategy(s, Doc) : f => Doc.routes[i].tier = TIER_FREE}

Whole(legs, chosen) ==
    /\ Follows(legs, Capped(Doc, chosen))
    /\ ToSet(legs) = {LegAt(Doc, RankedAccounts(Doc), q) :
                         q \in LegsOf(Capped(Doc, chosen), RankedAccounts(Doc))}

LEMMA CappedChooses ==
    ASSUME NEW chosen \in SUBSET DOMAIN DocRoutes
    PROVE  Capped(Doc, chosen) \in SUBSET chosen /\ Capped(Doc, chosen) \in SUBSET DOMAIN DocRoutes
BY DEF Capped

LEMMA AskedOfDoc ==
    ASSUME NEW s, NEW f
    PROVE  Asked(s, f) \in SUBSET DOMAIN DocRoutes
BY DEF Asked, routes_for_strategy, EnabledRoutes, DocRoutes

LEMMA LadderFollows ==
    ASSUME NEW s \in ALL_STRATEGIES, NEW f \in BOOLEAN
    PROVE  Whole(Ladder[s][f], Asked(s, f))
<1> DEFINE accounts == RankedAccounts(Doc)
           chosen == Capped(Doc, Asked(s, f))
           places == LegsOf(chosen, accounts)
<1>1. Ladder[s][f] = Expand(Doc, accounts, places)
  BY Zenon DEF Ladder, Candidates, Asked
<1>2. Asked(s, f) \in SUBSET DOMAIN DocRoutes
  BY AskedOfDoc
<1>3. chosen \in SUBSET DOMAIN DocRoutes
  BY <1>2, CappedChooses
<1>4. Reorders(accounts)
  BY RankedReorders
<1> HIDE DEF chosen, accounts
<1>5. places \in SUBSET places
  OBVIOUS
<1>6. /\ Follows(Expand(Doc, accounts, places), chosen)
      /\ ToSet(Expand(Doc, accounts, places)) = {LegAt(Doc, accounts, q) : q \in places}
  BY <1>3, <1>4, <1>5, ExpandFollows
<1> QED
  BY <1>1, <1>6, Zenon DEF Whole, chosen, accounts

LEMMA LadderFact ==
    ASSUME NEW s \in ALL_STRATEGIES, NEW f \in BOOLEAN
    PROVE  Ladder[s][f] \in Seq(Routes)
BY LadderFollows, Zenon DEF Whole, Follows

(* A cell is a leg that an ordinary question walks.                        *)
THEOREM CellsAreWalked ==
    Cells \in Seq(Routes) /\ ToSet(Cells) \subseteq ToSet(Ladder["free-first"][FALSE])
<1> DEFINE accounts == RankedAccounts(Doc)
           order == account_order(Doc)
           chosen == Capped(Doc, EnabledRoutes(Doc))
           places == LegsOf(chosen, accounts)
           kept == {q \in places : Contains(order, accounts[q[1]][q[2]])}
<1>1. Cells = Expand(Doc, accounts, kept)
  BY Zenon DEF Cells, route_cells
<1>2. EnabledRoutes(Doc) \in SUBSET DOMAIN DocRoutes
  BY DEF EnabledRoutes, DocRoutes
<1>3. chosen \in SUBSET DOMAIN DocRoutes
  BY <1>2, CappedChooses
<1>4. Reorders(accounts) /\ kept \in SUBSET places
  BY RankedReorders
<1>5. Asked("free-first", FALSE) = EnabledRoutes(Doc)
  BY DEF Asked, routes_for_strategy, FOCUSED_STRATEGIES
<1>6. Whole(Ladder["free-first"][FALSE], EnabledRoutes(Doc))
  <2>1. "free-first" \in ALL_STRATEGIES /\ FALSE \in BOOLEAN
    BY DEF ALL_STRATEGIES
  <2> QED
    BY <1>5, <2>1, LadderFollows, Zenon
<1>7. ToSet(Ladder["free-first"][FALSE]) = {LegAt(Doc, accounts, q) : q \in places}
  BY <1>6, Zenon DEF Whole
<1> HIDE DEF chosen, accounts, kept
<1>8. /\ Follows(Expand(Doc, accounts, kept), chosen)
      /\ ToSet(Expand(Doc, accounts, kept)) = {LegAt(Doc, accounts, q) : q \in kept}
  BY <1>3, <1>4, ExpandFollows
<1>9. Cells \in Seq(Routes) /\ ToSet(Cells) = {LegAt(Doc, accounts, q) : q \in kept}
  BY <1>1, <1>8, Zenon DEF Follows
<1> HIDE DEF places
<1> QED
  BY <1>4, <1>7, <1>9

(* A question for free routes walks no other (decide's free_only).         *)
THEOREM FreeQuestionsStayFree ==
    ASSUME NEW s \in ALL_STRATEGIES
    PROVE  \A leg \in ToSet(Ladder[s][TRUE]) : leg.tier = TIER_FREE
<1> DEFINE legs == Ladder[s][TRUE]
           chosen == Asked(s, TRUE)
<1>1. Follows(legs, Capped(Doc, chosen))
  BY LadderFollows, Zenon DEF Whole
<1>2. Capped(Doc, chosen) \in SUBSET chosen
  BY CappedChooses, AskedOfDoc
<1>3. \A i \in chosen : DocRoutes[i].tier = TIER_FREE
  BY DEF Asked, DocRoutes
<1> HIDE DEF legs, chosen
<1>4. \A n \in DOMAIN legs : legs[n].tier = TIER_FREE
  BY <1>1, <1>2, <1>3 DEF Follows
<1>5. \A leg \in ToSet(legs) : leg.tier = TIER_FREE
  BY <1>4 DEF ToSet
<1> QED
  BY <1>5, Zenon DEF legs

(* Free legs come first where the document lists their routes first.       *)
LEMMA FollowsFreeFirst ==
    ASSUME FreeRoutesFirst, NEW chosen \in SUBSET DOMAIN DocRoutes,
           NEW legs, Follows(legs, chosen)
    PROVE  \A i, j \in DOMAIN legs :
              legs[i].tier # TIER_FREE /\ legs[j].tier = TIER_FREE => j < i
<1>1. DOMAIN legs \subseteq Nat /\ DOMAIN DocRoutes \subseteq Nat
  BY DocLists DEF Follows
<1>2. PICK at \in [DOMAIN legs -> chosen] :
         /\ \A n \in DOMAIN legs : legs[n].tier = DocRoutes[at[n]].tier
         /\ \A m, n \in DOMAIN legs : m < n => at[m] <= at[n]
  BY DEF Follows
<1> SUFFICES ASSUME NEW i \in DOMAIN legs, NEW j \in DOMAIN legs,
                    legs[i].tier # TIER_FREE, legs[j].tier = TIER_FREE
             PROVE  j < i
  OBVIOUS
<1>3. /\ at[i] \in DOMAIN DocRoutes /\ at[j] \in DOMAIN DocRoutes
      /\ DocRoutes[at[i]].tier # TIER_FREE /\ DocRoutes[at[j]].tier = TIER_FREE
  BY <1>2
<1>4. at[j] < at[i] /\ at[i] \in Nat /\ at[j] \in Nat
  BY <1>1, <1>3 DEF FreeRoutesFirst, DocRoutes
<1>5. ~(i < j) /\ i # j
  BY <1>2, <1>4
<1> QED
  BY <1>1, <1>5

THEOREM FreeLegsComeFirst ==
    ASSUME FreeRoutesFirst, NEW s \in ALL_STRATEGIES, NEW f \in BOOLEAN,
           NEW i \in DOMAIN Ladder[s][f], NEW j \in DOMAIN Ladder[s][f],
           Ladder[s][f][i].tier # TIER_FREE, Ladder[s][f][j].tier = TIER_FREE
    PROVE  j < i
<1> DEFINE chosen == Capped(Doc, Asked(s, f))
<1>1. Follows(Ladder[s][f], chosen)
  BY LadderFollows, Zenon DEF Whole
<1>2. Asked(s, f) \in SUBSET DOMAIN DocRoutes
  BY AskedOfDoc, Zenon
<1>3. chosen \in SUBSET DOMAIN DocRoutes
  BY <1>2, CappedChooses, Zenon
<1> HIDE DEF chosen
<1> QED
  BY <1>1, <1>3, FollowsFreeFirst, Zenon

LEMMA Appended ==
    ASSUME NEW R
    PROVE  \A s, t \in Seq(R) :
              /\ s \o t \in Seq(R) /\ DOMAIN (s \o t) = 1..(Len(s) + Len(t))
              /\ \A n \in 1..Len(s) : (s \o t)[n] = s[n]
OBVIOUS

LEMMA WholeQueue ==
    ASSUME NEW legs, Whole(legs, Asked("free-first", FALSE))
    PROVE  /\ routeQueue \in Seq(ToSet(routeQueue))
           /\ \A leg \in ToSet(legs) : leg.tier = TIER_FREE =>
                 \E i \in DOMAIN routeQueue :
                    /\ routeQueue[i].account = leg.account /\ routeQueue[i].model = leg.model
                    /\ \A j \in DOMAIN routeQueue :
                           routeQueue[j].tier = TIER_SUBSCRIPTION => i < j
<1> DEFINE own == [i \in DOMAIN Doc.routes |-> Doc.routes[i].accounts]
           none == [i \in DOMAIN Doc.routes |-> <<None>>]
           free == FreeRoutesOf(Doc)
           paid == PaidRoutesOf(Doc)
           mine == LegsOf(free, own)
           rest == LegsOf(paid, none)
<1>1. free \in SUBSET DOMAIN DocRoutes /\ paid \in SUBSET DOMAIN DocRoutes
  BY DEF FreeRoutesOf, PaidRoutesOf, DocRoutes
<1>2. Reorders(own)
  <2>1. DOMAIN own = DOMAIN DocRoutes /\ \A i \in DOMAIN DocRoutes : own[i] = Own(i)
    BY DEF DocRoutes, Own
  <2>2. \A i \in DOMAIN DocRoutes : \A id \in ToSet(Own(i)) :
            \E k \in DOMAIN Own(i) : Own(i)[k] = id
    BY DEF ToSet
  <2> HIDE DEF own
  <2> QED
    BY <2>1, <2>2, DocLists DEF Reorders
<1>3. FreeQueue = Expand(Doc, own, mine) /\ SubscriptionTail = Expand(Doc, none, rest)
  BY DEF FreeQueue, SubscriptionTail
<1>4. \A i \in paid : \E n \in Nat : DOMAIN none[i] = 1..n
  <2>1. \A i \in paid : none[i] = <<None>>
    BY <1>1 DEF DocRoutes
  <2>2. DOMAIN <<None>> = 1..1
    OBVIOUS
  <2> HIDE DEF none, paid
  <2> QED
    BY <2>1, <2>2
<1> HIDE DEF own, none
<1>5. FreeQueue \in Seq(Routes) /\ ToSet(FreeQueue) = {LegAt(Doc, own, q) : q \in mine}
      /\ Follows(FreeQueue, free)
  <2>1. mine \in SUBSET mine
    OBVIOUS
  <2> HIDE DEF mine, free
  <2>2. mine \in SUBSET LegsOf(free, own)
    BY <2>1 DEF mine
  <2>3. Follows(FreeQueue, free) /\ ToSet(FreeQueue) = {LegAt(Doc, own, q) : q \in mine}
    BY <1>1, <1>2, <1>3, <2>2, ExpandFollows
  <2> QED
    BY <2>3 DEF Follows
<1>6. PICK N \in Nat : \E p : SubscriptionTail = [n \in 1..N |-> LegAt(Doc, none, p[n])]
  <2>1. IsFiniteSet(rest) /\ rest \subseteq Nat \X Nat
    BY <1>1, <1>4, LegsAreFinite
  <2> HIDE DEF rest
  <2>2. Lists(SubscriptionTail, none, rest)
    BY <1>3, <2>1, ExpandLists
  <2> QED
    BY <2>2 DEF Lists
<1> DEFINE head == FreeQueue
           tail == SubscriptionTail
           queue == routeQueue
<1>7. /\ head \in Seq(Routes) /\ DOMAIN head = 1..Len(head) /\ Len(head) \in Nat
      /\ \A n \in DOMAIN head : head[n].tier = TIER_FREE
  <2>1. \A i \in free : DocRoutes[i].tier = TIER_FREE
    BY DEF FreeRoutesOf, DocRoutes
  <2> HIDE DEF free, head
  <2>2. Follows(head, free) /\ head \in Seq(Routes)
    BY <1>5 DEF head
  <2>3. \A n \in DOMAIN head : head[n].tier = TIER_FREE
    BY <2>1, <2>2 DEF Follows
  <2> QED
    BY <2>2, <2>3
<1>8. tail \in [1..N -> {tail[n] : n \in 1..N}]
  <2>1. PICK p : tail = [n \in 1..N |-> LegAt(Doc, none, p[n])]
    BY <1>6
  <2> HIDE DEF tail
  <2> QED
    BY <2>1
<1>9. queue = head \o tail
  BY DEF routeQueue
<1> DEFINE T == {tail[n] : n \in 1..N}
           R == Routes \cup T
<1> HIDE DEF head, tail, queue, T
<1>10. /\ queue \in Seq(R) /\ DOMAIN queue = 1..(Len(head) + N)
       /\ \A n \in 1..Len(head) : queue[n] = head[n]
  <2>1. tail \in Seq(T) /\ Len(tail) = N
    <3>1. tail \in [1..N -> T]
      BY <1>8 DEF T
    <3> QED
      BY <3>1
  <2>2. head \in Seq(R) /\ tail \in Seq(R)
    BY <1>7, <2>1
  <2> HIDE DEF R
  <2>3. /\ queue \in Seq(R) /\ DOMAIN queue = 1..(Len(head) + Len(tail))
        /\ \A n \in 1..Len(head) : queue[n] = head[n]
    BY <1>9, <2>2, Appended, Zenon
  <2> QED
    BY <2>1, <2>3
<1> HIDE DEF R
<1>11. queue \in Seq(ToSet(queue))
  <2>1. \A n \in DOMAIN queue : queue[n] \in ToSet(queue)
    BY DEF ToSet
  <2>2. Len(queue) \in Nat /\ DOMAIN queue = 1..Len(queue)
        /\ queue \in [1..Len(queue) -> R]
    BY <1>10
  <2> DEFINE Q == ToSet(queue)
  <2> HIDE DEF Q
  <2>3. queue \in [1..Len(queue) -> Q]
    BY <2>1, <2>2 DEF Q
  <2>4. queue \in Seq(Q)
    BY <2>2, <2>3
  <2> QED
    BY <2>4 DEF Q
<1>12. ASSUME NEW leg \in ToSet(legs), leg.tier = TIER_FREE
       PROVE  \E i \in 1..Len(head) : head[i].account = leg.account /\ head[i].model = leg.model
  <2> DEFINE ranked == RankedAccounts(Doc)
             asked == Asked("free-first", FALSE)
             chosen == Capped(Doc, asked)
  <2>3. PICK q \in LegsOf(chosen, ranked) : leg = LegAt(Doc, ranked, q)
    <3>1. ToSet(legs) = {LegAt(Doc, ranked, q) : q \in LegsOf(chosen, ranked)}
      BY Zenon DEF Whole
    <3> HIDE DEF ranked, chosen
    <3> QED
      BY <1>12, <3>1
  <2>4. chosen \in SUBSET DOMAIN DocRoutes
    BY CappedChooses, AskedOfDoc
  <2>5. Reorders(ranked)
    BY RankedReorders
  <2> HIDE DEF ranked, chosen
  <2>6. q[1] \in DOMAIN DocRoutes /\ q[2] \in DOMAIN ranked[q[1]]
    BY <2>4 DEF LegsOf
  <2>7. leg = Leg(ranked[q[1]][q[2]], DocRoutes[q[1]])
    BY <2>3 DEF LegAt, DocRoutes
  <2>8. q[1] \in free
    BY <1>12, <2>6, <2>7 DEF Leg, FreeRoutesOf, DocRoutes
  <2>9. PICK k \in DOMAIN own[q[1]] : own[q[1]][k] = ranked[q[1]][q[2]]
    BY <1>2, <2>5, <2>6 DEF Reorders
  <2>10. <<q[1], k>> \in mine
    BY <2>8, <2>9 DEF LegsOf
  <2>11. LegAt(Doc, own, <<q[1], k>>) = leg
    BY <2>7, <2>9 DEF LegAt, DocRoutes
  <2> HIDE DEF mine
  <2>12. leg \in ToSet(head)
    BY <1>5, <2>10, <2>11 DEF head
  <2>13. PICK i \in DOMAIN head : head[i] = leg
    BY <2>12 DEF ToSet
  <2> QED
    BY <1>7, <2>13
<1>13. \A j \in DOMAIN queue : queue[j].tier = TIER_SUBSCRIPTION => \A i \in 1..Len(head) : i < j
  <2> SUFFICES ASSUME NEW j \in DOMAIN queue, queue[j].tier = TIER_SUBSCRIPTION,
                      NEW i \in 1..Len(head)
               PROVE  i < j
    OBVIOUS
  <2>1. TIER_FREE # TIER_SUBSCRIPTION
    BY DEF TIER_FREE, TIER_SUBSCRIPTION
  <2>2. ~(j \in 1..Len(head))
    BY <1>7, <1>10, <2>1
  <2> QED
    BY <1>7, <1>10, <2>2
<1>14. ASSUME NEW leg \in ToSet(legs), leg.tier = TIER_FREE
       PROVE  \E i \in DOMAIN queue :
                 /\ queue[i].account = leg.account /\ queue[i].model = leg.model
                 /\ \A j \in DOMAIN queue : queue[j].tier = TIER_SUBSCRIPTION => i < j
  <2>1. PICK i \in 1..Len(head) : head[i].account = leg.account /\ head[i].model = leg.model
    BY <1>12, <1>14
  <2>2. i \in DOMAIN queue /\ queue[i] = head[i]
    BY <1>7, <1>10
  <2> QED
    BY <1>13, <2>1, <2>2
<1> QED
  BY <1>11, <1>14 DEF queue

(* Each free leg that a question walks has its entry in the queue, ahead   *)
(* of the subscription tail (_foundry_route_policy).                       *)
THEOREM QueueServesTheLadder ==
    /\ routeQueue \in Seq(ToSet(routeQueue))
    /\ \A leg \in ToSet(Ladder["free-first"][FALSE]) : leg.tier = TIER_FREE =>
          \E i \in DOMAIN routeQueue :
             /\ routeQueue[i].account = leg.account /\ routeQueue[i].model = leg.model
             /\ \A j \in DOMAIN routeQueue :
                    routeQueue[j].tier = TIER_SUBSCRIPTION => i < j
<1>1. "free-first" \in ALL_STRATEGIES /\ FALSE \in BOOLEAN
  BY DEF ALL_STRATEGIES
<1>2. Whole(Ladder["free-first"][FALSE], Asked("free-first", FALSE))
  BY <1>1, LadderFollows, Zenon
<1> QED
  BY <1>2, WholeQueue, Zenon

-----------------------------------------------------------------------------
(* What a question is answered with: the first leg of its ladder that is   *)
(* not skipped.                                                            *)
AnsweredFrom(d, legs, mayRefuse) ==
    /\ \/ d.leg = None /\ d.action = "BLOCKED"
       \/ \E i \in DOMAIN legs :
             /\ d.leg = legs[i] /\ d.action = Says(legs[i]).action
             /\ Says(legs[i]).action # "SKIP"
             /\ \A j \in DOMAIN legs : j < i => Says(legs[j]).action = "SKIP"
    /\ d.leg = None /\ ~mayRefuse
           => \A i \in DOMAIN legs : Says(legs[i]).action = "SKIP"

LEMMA DecisionFact ==
    ASSUME NEW s \in ALL_STRATEGIES, NEW f \in BOOLEAN
    PROVE  AnsweredFrom(Decision(s, f), Ladder[s][f], s = "standard" /\ f)
<1> DEFINE legs == Ladder[s][f]
           answers == [i \in DOMAIN legs |-> Says(legs[i])]
           I == {i \in 1..Len(answers) : answers[i].action # "SKIP"}
           first == IF I # {} THEN Min(I) ELSE 0
           d == Decision(s, f)
           refused == s = "standard" /\ f
<1>1. legs \in Seq(Routes)
  BY LadderFact, Zenon
<1>2. d = IF refused THEN Blocked("free_only.blocks_subscription")
          ELSE IF first = 0 THEN Blocked("routes.exhausted")
          ELSE [action |-> answers[first].action,
                reason |-> answers[first].reason, leg |-> legs[first]]
  BY Zenon DEF Decision, decide, SelectInSeq, Says
<1> HIDE DEF legs, refused
<1>3. /\ DOMAIN legs = 1..Len(legs) /\ Len(legs) \in Nat /\ Len(answers) = Len(legs)
      /\ \A i \in DOMAIN legs : answers[i] = Says(legs[i])
  BY <1>1
<1> HIDE DEF answers
<1>4. /\ I \subseteq Nat /\ I \subseteq DOMAIN legs /\ 0 \notin I
      /\ \A i \in DOMAIN legs : i \in I <=> answers[i].action # "SKIP"
  BY <1>3
<1> HIDE DEF I
<1>5. first = 0 => I = {}
  BY <1>4, MinOfNaturals
<1>6. first # 0 => first \in I /\ \A i \in I : first <= i
  BY <1>4, MinOfNaturals
<1>7. \A i \in DOMAIN legs : legs[i] # None /\ i \in Nat
  BY <1>1, <1>3, EvidenceAssumption
<1> HIDE DEF first, d
<1>8. refused => AnsweredFrom(d, legs, refused)
  BY <1>2 DEF Blocked, AnsweredFrom
<1>9. ~refused /\ first = 0 => AnsweredFrom(d, legs, refused)
  BY <1>2, <1>3, <1>4, <1>5 DEF Blocked, AnsweredFrom
<1>10. ~refused /\ first # 0 => AnsweredFrom(d, legs, refused)
  <2> SUFFICES ASSUME ~refused, first # 0 PROVE AnsweredFrom(d, legs, refused)
    OBVIOUS
  <2>1. /\ first \in DOMAIN legs /\ d.leg = legs[first]
        /\ d.action = Says(legs[first]).action
        /\ Says(legs[first]).action # "SKIP"
    BY <1>2, <1>3, <1>4, <1>6
  <2>2. \A j \in DOMAIN legs : j < first => Says(legs[j]).action = "SKIP"
    BY <1>3, <1>4, <1>6, <1>7, <2>1
  <2> QED
    BY <1>7, <2>1, <2>2 DEF AnsweredFrom
<1> QED
  BY <1>8, <1>9, <1>10, Zenon DEF legs, d, refused

LEMMA AskKeeps ==
    ASSUME DispatchInv, NEW p \in Launchers, NEW s \in StrategiesAsked, NEW f \in BOOLEAN,
           Ask(p, s, f)
    PROVE  DispatchInv'
<1> DEFINE d == Decision(s, f)
           row == [doing |-> IF d.action = "PROBE" THEN "to-probe" ELSE "running",
                   leg |-> d.leg]
<1>1. s \in ALL_STRATEGIES
  BY DispatchAssumption
<1>2. d.action # "BLOCKED" /\ launcher' = [launcher EXCEPT ![p] = row]
      /\ UNCHANGED <<now, routes, overrides, catalog, deaths>>
  BY DEF Ask
<1> DEFINE legs == Ladder[s][f]
<1>3. d.leg \in Routes
  <2>1. legs \in Seq(Routes)
    BY <1>1, LadderFact, Zenon
  <2>2. AnsweredFrom(d, legs, s = "standard" /\ f)
    BY <1>1, DecisionFact, Zenon
  <2> HIDE DEF legs, d
  <2>3. d.action = "BLOCKED" \/ \E i \in DOMAIN legs : d.leg = legs[i]
    BY <2>2, Zenon DEF AnsweredFrom
  <2> QED
    BY <1>2, <2>1, <2>3
<1> HIDE DEF d
<1>4. row \in [doing : Doing, leg : Routes \cup {None}] /\ row.leg \in Routes
  BY <1>3 DEF Doing
<1> HIDE DEF row
<1>5. /\ launcher' \in [Launchers -> [doing : Doing, leg : Routes \cup {None}]]
      /\ LaunchersHaveLegs'
  BY <1>2, <1>4, LauncherMoves
<1>6. TypeOK'
  BY <1>2, <1>5 DEF DispatchInv, TypeOK, Doing
<1> QED
  BY <1>2, <1>5, <1>6 DEF DispatchInv, RowsAreDated

(* A step that reports an event and moves its launcher on.                 *)
LEMMA ReportingKeeps ==
    ASSUME DispatchInv, NEW p \in Launchers, NEW STATE e, Reported(e), e.at = now,
           routes' = ApplyToRoutes(routes, FALSE, e), NEW STATE row,
           row \in [doing : Doing, leg : Routes \cup {None}],
           row.doing # "idle" => row.leg \in Routes,
           launcher' = [launcher EXCEPT ![p] = row],
           UNCHANGED <<now, overrides, catalog, deaths>>
    PROVE  DispatchInv'
<1>1. routes' \in RouteTable /\ RowsAreDated'
  BY ReportMovesRows
<1>2. /\ launcher' \in [Launchers -> [doing : Doing, leg : Routes \cup {None}]]
      /\ LaunchersHaveLegs'
  BY LauncherMoves
<1>3. TypeOK'
  BY <1>1, <1>2 DEF DispatchInv, TypeOK, Doing, RouteTable
<1> QED
  BY <1>1, <1>2, <1>3 DEF DispatchInv

LEMMA BeginProbeKeeps ==
    ASSUME DispatchInv, NEW p \in Launchers, BeginProbe(p)
    PROVE  DispatchInv'
<1> DEFINE leg == launcher[p].leg
           type == "route.probe.started"
           reason == "other"
           after == 0
           known == FALSE
           e == ToEvent(type, leg, reason, after, known)
           row == [launcher[p] EXCEPT !.doing = "probing"]
<1>1. leg \in Routes /\ now \in Nat /\ launcher[p] \in [doing : Doing, leg : Routes \cup {None}]
  BY DEF BeginProbe, DispatchInv, LaunchersHaveLegs, TypeOK, Doing
<1>2. Reported(e) /\ e.at = now
  <2>1. /\ type \in EVENT_TYPES /\ reason \in ReasonCodes
        /\ after \in Nat /\ known \in BOOLEAN
    BY DEF EVENT_TYPES, ROUTE_EVENTS, ProbeTypes, ReasonCodes
  <2> HIDE DEF leg, type, reason, after, known
  <2> QED
    BY <1>1, <2>1, ToEventIsReported
<1>3. row \in [doing : Doing, leg : Routes \cup {None}] /\ row.leg \in Routes
  BY <1>1 DEF Doing
<1>4. /\ routes' = ApplyToRoutes(routes, FALSE, e)
      /\ launcher' = [launcher EXCEPT ![p] = row]
      /\ UNCHANGED <<now, overrides, catalog, deaths>>
  BY <1>1 DEF BeginProbe, DispatchInv, TypeOK
<1> HIDE DEF e, row, leg
<1> QED
  BY <1>2, <1>3, <1>4, ReportingKeeps

(* Whatever is found at a leg makes an event of it (OutcomeReason).        *)
LEMMA OutcomeIsReported ==
    ASSUME now \in Nat, NEW type \in EVENT_TYPES, NEW STATE leg, leg \in Routes,
           NEW outcome \in OutcomeSet, NEW reset \in Resets
    PROVE  /\ Reported(Outcome(type, leg, outcome, reset))
           /\ Outcome(type, leg, outcome, reset).at = now
<1> DEFINE reason == OutcomeReason[outcome]
           after == IF outcome \in {"quota.named", "quota.known"} THEN reset ELSE 0
           known == outcome = "quota.known"
<1>1. reason \in ReasonCodes
  <2>1. reason \in {"quota.confirmed", "auth.required", "transient.failure",
                    "capability.not_offered", "other"}
    BY DEF OutcomeReason
  <2>2. /\ FAILURE_TAXONOMY["quota"] \subseteq ReasonCodes
        /\ FAILURE_TAXONOMY["auth"] \subseteq ReasonCodes
        /\ FAILURE_TAXONOMY["transient"] \subseteq ReasonCodes
        /\ FAILURE_TAXONOMY["capability"] \subseteq ReasonCodes
        /\ "other" \in ReasonCodes
    BY DEF ReasonCodes, Categories
  <2>3. /\ "quota.confirmed" \in FAILURE_TAXONOMY["quota"]
        /\ "auth.required" \in FAILURE_TAXONOMY["auth"]
        /\ "transient.failure" \in FAILURE_TAXONOMY["transient"]
        /\ "capability.not_offered" \in FAILURE_TAXONOMY["capability"]
    BY DEF FAILURE_TAXONOMY
  <2> HIDE DEF reason
  <2> QED
    BY <2>1, <2>2, <2>3
<1>2. after \in Nat /\ known \in BOOLEAN
  BY DispatchAssumption
<1>3. Outcome(type, leg, outcome, reset) = ToEvent(type, leg, reason, after, known)
  BY DEF Outcome
<1> HIDE DEF reason, after, known
<1> QED
  BY <1>1, <1>2, <1>3, ToEventIsReported

LEMMA ReportKeeps ==
    ASSUME DispatchInv, NEW p \in Launchers, NEW outcome \in Outcomes, NEW reset \in Resets,
           Report(p, outcome, reset)
    PROVE  DispatchInv'
<1> DEFINE leg == launcher[p].leg
           ended == IF launcher[p].doing = "probing" THEN "route.probe." ELSE "attempt."
           type == CASE ended = "route.probe." /\ outcome = "ok" -> "route.probe.succeeded"
                     [] ended = "route.probe." /\ outcome # "ok" -> "route.probe.failed"
                     [] ended = "attempt." /\ outcome = "ok"     -> "attempt.completed"
                     [] ended = "attempt." /\ outcome # "ok"     -> "attempt.failed"
           e == Outcome(type, leg, outcome, reset)
<1>1. leg \in Routes /\ now \in Nat /\ outcome \in OutcomeSet
  BY DispatchAssumption DEF Report, DispatchInv, LaunchersHaveLegs, TypeOK
<1>2. type \in EVENT_TYPES
  BY DEF EVENT_TYPES, ROUTE_EVENTS, ProbeTypes, AttemptTypes
<1>3. /\ routes' = ApplyToRoutes(routes, FALSE, e)
      /\ launcher' = [launcher EXCEPT ![p] = Idle]
      /\ UNCHANGED <<now, overrides, catalog, deaths>>
  BY DEF Report
<1> HIDE DEF type, leg
<1>4. Reported(e) /\ e.at = now
  BY <1>1, <1>2, OutcomeIsReported
<1> HIDE DEF e
<1> QED
  BY <1>3, <1>4, IdleIsIdle, ReportingKeeps

LEMMA RecheckKeeps ==
    ASSUME DispatchInv, NEW leg \in Rechecked, NEW outcome \in RecheckOutcomes,
           NEW reset \in Resets, Recheck(leg, outcome, reset)
    PROVE  DispatchInv'
<1> DEFINE type == IF outcome = "ok" THEN "route.recheck.succeeded"
                   ELSE "route.recheck.failed"
           e == Outcome(type, leg, outcome, reset)
<1>1. leg \in Routes /\ now \in Nat /\ outcome \in OutcomeSet
  BY DispatchAssumption DEF DispatchInv, TypeOK
<1>2. type \in EVENT_TYPES
  BY DEF EVENT_TYPES, ROUTE_EVENTS, SettleTypes
<1>3. /\ routes' = ApplyToRoutes(routes, TRUE, e)
      /\ UNCHANGED <<now, overrides, catalog, launcher, deaths>>
  BY DEF Recheck
<1> HIDE DEF type
<1>4. Reported(e) /\ e.at = now
  BY <1>1, <1>2, OutcomeIsReported
<1> HIDE DEF e
<1>5. routes' \in RouteTable /\ RowsAreDated'
  BY <1>3, <1>4, ReportMovesRows
<1>6. TypeOK'
  BY <1>3, <1>5 DEF DispatchInv, TypeOK, RouteTable
<1> QED
  BY <1>3, <1>5, <1>6 DEF DispatchInv, LaunchersHaveLegs

LEMMA DispatchInvNext ==
    ASSUME DispatchInv, [Next]_vars
    PROVE  DispatchInv'
<1>1. ASSUME UNCHANGED <<routes, launcher>>, now' \in Nat, now <= now', TypeOK'
      PROVE  DispatchInv'
  <2>1. now \in Nat /\ \A r \in Routes : routes[r] # None => routes[r].changedAt \in Nat
    BY DEF DispatchInv, TypeOK, RouteRow
  <2>2. ASSUME NEW r \in Routes, routes'[r] # None PROVE Dated(routes'[r], r, now')
    <3>1. routes[r] # None /\ Dated(routes[r], r, now) /\ routes[r].changedAt \in Nat
      BY <1>1, <2>1, <2>2 DEF DispatchInv, RowsAreDated
    <3>2. Dated(routes[r], r, now')
      BY <1>1, <2>1, <3>1 DEF Dated
    <3> QED
      BY <1>1, <3>2
  <2> QED
    BY <1>1, <2>2 DEF DispatchInv, RowsAreDated, LaunchersHaveLegs
<1>2. now \in Nat
  BY DEF DispatchInv, TypeOK
<1>3. ASSUME NEW id \in OverrideIds, NEW leg \in Routes, NEW n \in OverrideLengths,
             CreateOverride(id, leg, n)
      PROVE  DispatchInv'
  <2>1. [id |-> id, route |-> leg, expires |-> ExpiresAt(n)]
            \in [id : OverrideIds, route : Routes, expires : Nat \cup {None}]
    BY <1>2, DispatchAssumption DEF ExpiresAt
  <2>2. TypeOK'
    BY <1>3, <2>1 DEF CreateOverride, DispatchInv, TypeOK
  <2> QED
    BY <1>1, <1>2, <1>3, <2>2 DEF CreateOverride
<1>4. ASSUME NEW id \in OverrideIds, NEW leg \in Routes, ClearOverride(id, leg)
      PROVE  DispatchInv'
  <2>1. TypeOK'
    BY <1>4 DEF ClearOverride, DispatchInv, TypeOK
  <2> QED
    BY <1>1, <1>2, <1>4, <2>1 DEF ClearOverride
<1>5. ASSUME NEW fresh \in BOOLEAN, NEW m \in Models, CatalogSays(fresh, {m})
      PROVE  DispatchInv'
  <2>1. [fresh |-> fresh, unavailable |-> {m}] \in [fresh : BOOLEAN, unavailable : SUBSET Models]
    OBVIOUS
  <2>2. TypeOK'
    BY <1>5, <2>1 DEF CatalogSays, DispatchInv, TypeOK
  <2> QED
    BY <1>1, <1>2, <1>5, <2>2 DEF CatalogSays
<1>6. ASSUME Tick PROVE DispatchInv'
  <2>1. TypeOK' /\ now' \in Nat /\ now <= now' /\ UNCHANGED <<routes, launcher>>
    BY <1>2, <1>6, DispatchAssumption DEF Tick, DispatchInv, TypeOK
  <2> QED
    BY <1>1, <2>1
<1>7. ASSUME NEW p \in Launchers, Die(p) PROVE DispatchInv'
  <2>1. /\ launcher' = [launcher EXCEPT ![p] = Idle] /\ deaths' = deaths + 1
        /\ deaths < MaxDeaths /\ UNCHANGED <<now, routes, overrides, catalog>>
    BY <1>7 DEF Die
  <2>2. /\ launcher' \in [Launchers -> [doing : Doing, leg : Routes \cup {None}]]
        /\ LaunchersHaveLegs'
    BY <2>1, IdleIsIdle, LauncherMoves
  <2>3. TypeOK'
    BY <2>1, <2>2, DispatchAssumption DEF DispatchInv, TypeOK, Doing
  <2> QED
    BY <2>1, <2>2, <2>3 DEF DispatchInv, RowsAreDated
<1>8. CASE UNCHANGED vars
  <2>1. TypeOK'
    BY <1>8 DEF vars, DispatchInv, TypeOK
  <2> QED
    BY <1>1, <1>2, <1>8, <2>1 DEF vars
<1> QED
  BY <1>3, <1>4, <1>5, <1>6, <1>7, <1>8, AskKeeps, BeginProbeKeeps, ReportKeeps,
     RecheckKeeps
  DEF Next, Step

LEMMA DispatchInvHolds == ExportsSpec => []DispatchInv
<1>1. ExportsInit => DispatchInv
  BY DispatchInvInit DEF ExportsInit
<1>2. DispatchInv /\ [ExportsNext]_<<vars, abandoned>> => DispatchInv'
  BY DispatchInvNext DEF ExportsNext, Abandon, Next
<1> QED
  BY <1>1, <1>2, PTL DEF ExportsSpec

-----------------------------------------------------------------------------
(* What a leg under quota says, and what its row says of the reset.        *)
LEMMA QuotaSays ==
    ASSUME DispatchInv, NEW leg \in Routes, routes[leg] # None,
           routes[leg].state = "QUOTA"
    PROVE  LET row == routes[leg]
               end == row.changedAt + row.resetAfter
           IN  /\ row \in RouteRow /\ ResetIsDated(row, leg)
               /\ QuotaExpired(row, now) <=> ~(now < end)
               /\ leg \notin Skipped =>
                      /\ Says(leg).reason = "quota.confirmed" <=> now < end
                      /\ ~(now < end) => Says(leg).reason = "quota.reset_unknown"
                      /\ Says(leg).action = IF now < end THEN "SKIP" ELSE "PROBE"
<1> DEFINE row == routes[leg]
           end == row.changedAt + row.resetAfter
<1>1. row \in RouteRow /\ ResetIsDated(row, leg) /\ now \in Nat
  BY DEF DispatchInv, TypeOK, RowsAreDated, Dated
<1>2. row.changedAt \in Nat /\ row.resetAfter \in Nat /\ row.resetAfter # 0
  BY <1>1 DEF RouteRow, ResetIsDated
<1>3. QuotaExpired(row, now) <=> ~(now < end)
  BY <1>1, <1>2 DEF QuotaExpired
<1>4. leg \notin Skipped =>
         Says(leg) = IF QuotaExpired(row, now)
                       THEN [action |-> "PROBE", reason |-> "quota.reset_unknown"]
                       ELSE [action |-> "SKIP", reason |-> "quota.confirmed"]
  BY DEF Says, Answer, _effective_state
<1> QED
  BY <1>1, <1>3, <1>4

LEMMA SkippedSays ==
    ASSUME NEW leg, leg \in Skipped
    PROVE  Says(leg).action = "SKIP" /\ Says(leg).reason = "manual.override"
BY DEF Says, Answer

(* A quota holds until the instant its evidence names, an override until   *)
(* it expires or is cleared, and neither any longer (_apply_route_failure, *)
(* decide).                                                                *)
THEOREM ExpiriesStayKept == ExportsSpec => []ExpiriesAreKept
<1>1. DispatchInv => QuotaWaitEndsWithItsReset
  <2> SUFFICES ASSUME DispatchInv, NEW leg \in Routes \ Skipped,
                      routes[leg] # None, routes[leg].state = "QUOTA"
               PROVE  LET row == routes[leg]
                          end == CASE row.resetKnown  -> row.resetAt
                                   [] Unvouched(leg) -> row.changedAt + row.resetAfter
                                   [] OTHER          -> row.nextCheckAt
                      IN  (Says(leg).reason = "quota.confirmed") <=> now < end
    BY DEF QuotaWaitEndsWithItsReset
  <2> DEFINE row == routes[leg]
             due == row.changedAt + row.resetAfter
             end == CASE row.resetKnown  -> row.resetAt
                      [] Unvouched(leg) -> row.changedAt + row.resetAfter
                      [] OTHER          -> row.nextCheckAt
  <2>1. ResetIsDated(row, leg) /\ (Says(leg).reason = "quota.confirmed" <=> now < due)
    BY QuotaSays
  <2>2. end = due
    BY <2>1 DEF ResetIsDated, Unvouched
  <2> HIDE DEF end
  <2>3. Says(leg).reason = "quota.confirmed" <=> now < end
    BY <2>1, <2>2
  <2> QED
    BY <2>3 DEF end
<1>2. DispatchInv => OverrideHolds
  <2> SUFFICES ASSUME DispatchInv, NEW o \in overrides, o.expires = None \/ now < o.expires,
                      NEW s \in ALL_STRATEGIES, NEW f \in BOOLEAN
               PROVE  Decision(s, f).leg # o.route
    BY DEF OverrideHolds
  <2> DEFINE d == Decision(s, f)
             legs == Ladder[s][f]
  <2>1. /\ o.route \in Routes /\ o.expires \in Nat \cup {None} /\ now \in Nat
        /\ o.route # None
    BY EvidenceAssumption DEF DispatchInv, TypeOK
  <2>2. o.route \in Skipped
    BY <2>1 DEF Skipped, Skips, InForce
  <2>3. Says(o.route).action = "SKIP"
    BY <2>2, SkippedSays
  <2>4. AnsweredFrom(d, legs, s = "standard" /\ f)
    BY DecisionFact, Zenon
  <2> HIDE DEF d, legs
  <2>5. d.leg # o.route
    BY <2>1, <2>3, <2>4, Zenon DEF AnsweredFrom
  <2> QED
    BY <2>5 DEF d
<1>3. DispatchInv => ExpiriesAreKept
  BY <1>1, <1>2 DEF ExpiriesAreKept
<1> QED
  BY <1>3, DispatchInvHolds, PTL

-----------------------------------------------------------------------------
(* What is shown of a leg that is in no override's way, by its row.        *)
LEMMA ShownByRow ==
    ASSUME DispatchInv, OneAgeLimit, NEW leg \in Routes, leg \notin Skipped
    PROVE  LET row == routes[leg] IN
           /\ row = None \/ row \in RouteRow
           /\ Shows(leg) = "AVAILABLE" =>
                  Says(leg) = [action |-> "LAUNCH", reason |-> "verified.launch"]
           /\ Shows(leg) \in {"UNKNOWN", "STALE"} /\ ~Omitted(leg) =>
                  Says(leg).action = "PROBE"
           /\ Shows(leg) = "QUOTA_EXPIRED" => Says(leg).action = "PROBE"
           /\ Shows(leg) = "TRANSIENT" => Says(leg).action \in {"LAUNCH", "SKIP"}
           /\ Shows(leg) = "CAPABILITY_UNAVAILABLE" /\ ~Omitted(leg) =>
                  Says(leg).action = "SKIP"
           /\ Shows(leg) \in {"QUOTA", "AUTH_BLOCKED", "PROBING"} =>
                  Says(leg).action = "SKIP"
           /\ Shows(leg) \in {"QUOTA", "QUOTA_EXPIRED"} =>
                  row # None /\ row.state = "QUOTA"
           /\ Shows(leg) \in {"AVAILABLE", "UNKNOWN", "STALE", "QUOTA", "QUOTA_EXPIRED",
                              "TRANSIENT", "AUTH_BLOCKED", "PROBING",
                              "CAPABILITY_UNAVAILABLE"}
           /\ Says(leg).action \in {"LAUNCH", "PROBE", "SKIP"}
<1> DEFINE row == routes[leg]
<1>1. row = None \/ row \in RouteRow
  BY DEF DispatchInv, TypeOK
<1>2. row # None => row.state \in RouteStates
  BY <1>1 DEF RouteRow
<1> DEFINE says == Answer(leg, routes, Skipped, catalog, Doc, now)
           shows == _build_cell(leg, routes, Skipped, catalog, Doc, now)
<1>3. row = routes[leg] /\ says = Says(leg) /\ shows = Shows(leg)
  BY Zenon DEF Says, Shows
<1> HIDE DEF row, says, shows
<1>4. CASE row = None
  <2>1. Says(leg) = [action |-> "PROBE", reason |-> "unknown.probe"]
    BY <1>3, <1>4 DEF row, says, Answer
  <2>2. Shows(leg) = IF Omitted(leg) THEN "CAPABILITY_UNAVAILABLE" ELSE "UNKNOWN"
    BY <1>3, <1>4 DEF row, shows, _build_cell, Omitted
  <2> QED
    BY <1>3, <1>4, <2>1, <2>2
<1>5. CASE row # None /\ row.state = "QUOTA"
  BY <1>1, <1>3, <1>5 DEF says, shows, Answer, _build_cell, _effective_state, QuotaExpired
<1>6. CASE row # None /\ row.state = "AVAILABLE"
  BY <1>1, <1>3, <1>6 DEF says, shows, Answer, _build_cell, _effective_state, OneAgeLimit, Omitted
<1>7. CASE row # None /\ row.state \in RouteStates \ {"QUOTA", "AVAILABLE"}
  BY <1>1, <1>3, <1>7 DEF says, shows, Answer, _build_cell, _effective_state, Omitted, RouteStates
<1> QED
  BY <1>2, <1>4, <1>5, <1>6, <1>7 DEF row

LEMMA SkippedShows ==
    ASSUME NEW leg, leg \in Skipped
    PROVE  Shows(leg) = "FORCE_SKIP"
BY DEF Shows, _build_cell

LEMMA CellIsALeg ==
    /\ \A leg \in ToSet(Cells) : leg \in Routes
    /\ \A i \in DOMAIN Cells : i \in Nat /\ Cells[i] \in ToSet(Cells)
    /\ DOMAIN Cells = 1..Len(Cells) /\ Len(Cells) \in Nat
<1> DEFINE cells == Cells
<1>1. cells \in Seq(Routes)
  BY CellsAreWalked, Zenon
<1> HIDE DEF cells
<1>2. /\ \A leg \in ToSet(cells) : leg \in Routes
      /\ \A i \in DOMAIN cells : i \in Nat /\ cells[i] \in ToSet(cells)
      /\ DOMAIN cells = 1..Len(cells) /\ Len(cells) \in Nat
  BY <1>1 DEF ToSet
<1> QED
  BY <1>2 DEF cells

(* The decision engine and the snapshot compute the state of a leg apart,  *)
(* and agree on it at every instant, across both expiries (Answer,         *)
(* _build_cell).                                                           *)
THEOREM CellsTellTheDecision ==
    ASSUME OneAgeLimit
    PROVE  ExportsSpec => []CellTellsTheDecision
<1>1. DispatchInv => CellTellsTheDecision
  <2> SUFFICES ASSUME DispatchInv, NEW leg \in Routes, ~Omitted(leg)
               PROVE  Says(leg).action \in Meaning(Shows(leg))
    BY CellIsALeg DEF CellTellsTheDecision
  <2>1. CASE leg \in Skipped
    BY <2>1, SkippedSays, SkippedShows DEF Meaning
  <2>2. CASE leg \notin Skipped
    BY <2>2, ShownByRow DEF Meaning
  <2> QED
    BY <2>1, <2>2
<1> QED
  BY <1>1, DispatchInvHolds, PTL

-----------------------------------------------------------------------------
LEMMA SaysOneOfThree ==
    ASSUME DispatchInv, OneAgeLimit, NEW leg \in Routes
    PROVE  Says(leg).action \in {"LAUNCH", "PROBE", "SKIP"}
<1>1. CASE leg \in Skipped
  BY <1>1, SkippedSays
<1>2. CASE leg \notin Skipped
  BY <1>2, ShownByRow
<1> QED
  BY <1>1, <1>2

(* The decision of the ordinary question answers no free leg only when     *)
(* every free cell is skipped.                                             *)
LEMMA NoFreeLegIsPassedOver ==
    ASSUME FreeRoutesFirst, NEW leg \in ToSet(Cells), leg.tier = TIER_FREE,
           LET d == Decision("free-first", FALSE)
           IN  d.leg = None \/ d.leg.tier # TIER_FREE
    PROVE  Says(leg).action = "SKIP"
<1> DEFINE s == "free-first"
           f == FALSE
           legs == Ladder[s][f]
           d == Decision(s, f)
<1>1. s \in ALL_STRATEGIES /\ f \in BOOLEAN /\ ~(s = "standard" /\ f)
  BY DEF ALL_STRATEGIES
<1>2. /\ leg \in ToSet(legs)
      /\ \A i, j \in DOMAIN legs :
            legs[i].tier # TIER_FREE /\ legs[j].tier = TIER_FREE => j < i
      /\ d.leg = None \/ d.leg.tier # TIER_FREE
  BY <1>1, CellsAreWalked, FreeLegsComeFirst, Zenon
<1> HIDE DEF s, f
<1>3. AnsweredFrom(d, legs, s = "standard" /\ f) /\ legs \in Seq(Routes)
  BY <1>1, DecisionFact, LadderFact, Zenon
<1> HIDE DEF legs, d
<1>4. PICK k \in DOMAIN legs : leg = legs[k]
  BY <1>2, <1>3 DEF ToSet
<1>5. CASE d.leg = None
  BY <1>1, <1>3, <1>4, <1>5, Zenon DEF AnsweredFrom
<1>6. CASE d.leg # None
  <2>1. PICK i \in DOMAIN legs :
           /\ d.leg = legs[i]
           /\ \A j \in DOMAIN legs : j < i => Says(legs[j]).action = "SKIP"
    BY <1>3, <1>6, Zenon DEF AnsweredFrom
  <2>2. k < i
    BY <1>2, <1>4, <1>6, <2>1, Zenon
  <2> QED
    BY <1>4, <2>1, <2>2, Zenon
<1> QED
  BY <1>5, <1>6

LEMMA TiersAreTwo ==
    ASSUME NEW leg \in Routes
    PROVE  leg.tier \in {TIER_FREE, TIER_SUBSCRIPTION}
<1>1. PICK a \in {x.id : x \in ToSet(Doc.accounts)}, r \in ToSet(Doc.routes) : leg = Leg(a, r)
  BY DispatchAssumption
<1>2. r.tier \in ALLOWED_TIERS
  BY DispatchAssumption DEF validate_policy, ValidRoute
<1> QED
  BY <1>1, <1>2 DEF Leg, ALLOWED_TIERS

(* The subscription is spent only when the snapshot shows every free leg   *)
(* as blocked, and never for who asked for free only (decide).             *)
THEOREM TheSubscriptionComesLast ==
    ASSUME OneAgeLimit, FreeRoutesFirst
    PROVE  ExportsSpec => []SubscriptionComesLast
<1>1. DispatchInv => PaidOnlyWhenFreeIsBlocked
  <2> SUFFICES ASSUME DispatchInv, Decision("free-first", FALSE).leg # None,
                      Decision("free-first", FALSE).leg.tier = TIER_SUBSCRIPTION,
                      NEW leg \in ToSet(Cells), leg.tier # TIER_SUBSCRIPTION,
                      ~Omitted(leg)
               PROVE  Shows(leg) \in {"FORCE_SKIP", "QUOTA", "AUTH_BLOCKED", "PROBING",
                                     "TRANSIENT", "CAPABILITY_UNAVAILABLE"}
    BY Zenon DEF PaidOnlyWhenFreeIsBlocked
  <2>1. leg \in Routes /\ leg.tier = TIER_FREE
    BY CellIsALeg, TiersAreTwo
  <2>2. Says(leg).action = "SKIP"
    <3> DEFINE d == Decision("free-first", FALSE)
    <3>1. d.leg.tier = TIER_SUBSCRIPTION
      OBVIOUS
    <3>2. TIER_SUBSCRIPTION # TIER_FREE
      BY DEF TIER_SUBSCRIPTION, TIER_FREE
    <3> QED
      BY <2>1, <3>1, <3>2, NoFreeLegIsPassedOver, Zenon
  <2>3. CASE leg \in Skipped
    BY <2>3, SkippedShows
  <2>4. CASE leg \notin Skipped
    BY <2>1, <2>2, <2>4, ShownByRow
  <2> QED
    BY <2>3, <2>4
<1>2. DispatchInv => FreeOnlyNeverPays
  <2> SUFFICES ASSUME NEW s \in ALL_STRATEGIES, Decision(s, TRUE).leg # None
               PROVE  Decision(s, TRUE).leg.tier = TIER_FREE
    BY Zenon DEF FreeOnlyNeverPays
  <2> DEFINE f == TRUE
             legs == Ladder[s][f]
             d == Decision(s, f)
  <2>1. CASE s = "standard"
    <3>1. d = Blocked("free_only.blocks_subscription")
      BY <2>1, Zenon DEF Decision, decide
    <3>2. d.leg # None
      OBVIOUS
    <3> HIDE DEF d
    <3> QED
      BY <3>1, <3>2 DEF Blocked
  <2>2. CASE s # "standard"
    <3>1. f \in BOOLEAN /\ d.leg # None /\ \A leg \in ToSet(legs) : leg.tier = TIER_FREE
      BY FreeQuestionsStayFree, Zenon
    <3> HIDE DEF f
    <3>2. AnsweredFrom(d, legs, s = "standard" /\ f) /\ legs \in Seq(Routes)
      BY <3>1, DecisionFact, LadderFact, Zenon
    <3> HIDE DEF legs, d
    <3>3. d.leg \in ToSet(legs)
      BY <3>1, <3>2 DEF AnsweredFrom, ToSet
    <3>4. d.leg.tier = TIER_FREE
      BY <3>1, <3>3
    <3> QED
      BY <3>4 DEF d, f
  <2> QED
    BY <2>1, <2>2
<1>3. DispatchInv => SubscriptionComesLast
  BY <1>1, <1>2 DEF SubscriptionComesLast, DispatchInv
<1> QED
  BY <1>3, DispatchInvHolds, PTL

-----------------------------------------------------------------------------
LEMMA EligibleIsLaunchable ==
    ASSUME DispatchInv, OneAgeLimit
    PROVE  EligibleMeansLaunchable
<1> DEFINE s == "free-first"
           f == FALSE
           legs == Ladder[s][f]
<1> SUFFICES ASSUME NEW entry \in ToSet(routeQueue), Eligible(entry)
             PROVE  \E leg \in ToSet(legs) :
                       /\ leg.model = entry.model /\ entry.account \in {None, leg.account}
                       /\ Says(leg).action = "LAUNCH"
  BY Zenon DEF EligibleMeansLaunchable
<1> DEFINE I == {i \in 1..Len(Cells) : /\ Cells[i].model = entry.model
                                       /\ entry.account \in {None, Cells[i].account}}
           at == IF I # {} THEN Min(I) ELSE 0
           cell == CellOf[entry]
<1>1. cell = IF at = 0 THEN None ELSE Cells[at]
  BY Zenon DEF CellOf, SelectInSeq
<1>2. I \subseteq Nat /\ I \subseteq DOMAIN Cells
  BY CellIsALeg
<1>3. /\ \A i \in I : /\ Cells[i].model = entry.model
                      /\ entry.account \in {None, Cells[i].account}
      /\ ToSet(Cells) \subseteq ToSet(legs)
  BY CellsAreWalked, Zenon
<1>4. cell # None /\ Shows(cell) = "AVAILABLE"
  BY Zenon DEF Eligible
<1> HIDE DEF legs, I, cell
<1>5. at \in I
  BY <1>1, <1>2, <1>4, MinOfNaturals
<1>6. /\ cell = Cells[at] /\ cell \in ToSet(Cells) /\ cell \in Routes
      /\ cell.model = entry.model /\ entry.account \in {None, cell.account}
  BY <1>1, <1>2, <1>3, <1>4, <1>5, CellIsALeg
<1>7. cell \notin Skipped
  BY <1>4, SkippedShows
<1>8. Says(cell).action = "LAUNCH"
  BY <1>4, <1>6, <1>7, ShownByRow
<1> QED
  BY <1>3, <1>6, <1>8, Zenon

LEMMA LedgerAgrees ==
    ASSUME DispatchInv, OneAgeLimit
    PROVE  LedgerAgreesOnQuota
<1> SUFFICES ASSUME NEW leg \in Routes, Shows(leg) \in QuotaShown
             PROVE  /\ Says(leg).reason = "quota.confirmed" =>
                          now < blockedUntil(leg) \/ NamesMore(leg)
                    /\ now < blockedUntil(leg) =>
                          Says(leg).reason = "quota.confirmed" \/ NamesLess(leg)
  BY CellIsALeg DEF LedgerAgreesOnQuota, Ledger
<1> DEFINE row == routes[leg]
           due == row.changedAt + row.resetAfter
<1>1. leg \notin Skipped
  BY SkippedShows DEF QuotaShown
<1>2. row # None /\ row.state = "QUOTA"
  BY <1>1, ShownByRow DEF QuotaShown
<1>3. /\ row \in RouteRow /\ ResetIsDated(row, leg)
      /\ Says(leg).reason = "quota.confirmed" <=> now < due
  BY <1>1, <1>2, QuotaSays
<1> DEFINE default == row.changedAt + DefaultReset(leg)
<1>4. /\ row.changedAt \in Nat /\ row.resetAfter \in Nat /\ row.resetKnown \in BOOLEAN
      /\ DefaultReset(leg) \in Nat /\ now \in Nat /\ row.resetAfter # 0
  BY <1>3, DefaultResetTyped DEF RouteRow, ResetIsDated, DispatchInv, TypeOK
<1>5. blockedUntil(leg) = IF row.resetKnown = TRUE THEN due ELSE default
  BY <1>2, <1>3 DEF blockedUntil, FALLBACK_RESET, ResetIsDated
<1>6. CASE row.resetKnown = TRUE
  BY <1>3, <1>5, <1>6
<1>7. CASE row.resetKnown = FALSE
  <2>1. /\ NamesLess(leg) <=> row.resetAfter < DefaultReset(leg)
        /\ NamesMore(leg) <=> row.resetAfter > DefaultReset(leg)
    BY <1>2, <1>4, <1>7 DEF NamesLess, NamesMore, Unvouched
  <2>2. /\ now < due => now < default \/ row.resetAfter > DefaultReset(leg)
        /\ now < default => now < due \/ row.resetAfter < DefaultReset(leg)
    BY <1>4
  <2> HIDE DEF due, default
  <2> QED
    BY <1>3, <1>5, <1>7, <2>1, <2>2
<1> QED
  BY <1>4, <1>6, <1>7

(* What the export says of a model: the state of a set of free cells.      *)
LEMMA AvailabilityIsOfCells ==
    ASSUME NEW m \in ToSet(_pi_route_availability)
    PROVE  /\ m.legs \subseteq {c \in ToSet(Cells) : c.tier = TIER_FREE}
           /\ m.state = ModelState(m.legs)
<1> DEFINE order == Ascending(FirstCells)
           model == [i \in DOMAIN order |-> Cells[order[i]].model]
<1>1. _pi_route_availability =
         [i \in DOMAIN order |-> ModelEntry(model[i], FreeCells(model[i]))]
  BY Zenon DEF _pi_route_availability
<1> HIDE DEF order, model
<1>2. PICK x : m = ModelEntry(x, FreeCells(x))
  BY <1>1, Zenon DEF ToSet
<1>3. m.legs = FreeCells(x) /\ m.state = ModelState(FreeCells(x))
  BY <1>2 DEF ModelEntry
<1> QED
  BY <1>3, Zenon DEF FreeCells

LEMMA AvailabilityFollows ==
    ASSUME DispatchInv, OneAgeLimit
    PROVE  AvailabilityFollowsDecisions
<1> SUFFICES ASSUME NEW m \in ToSet(_pi_route_availability)
             PROVE  /\ m.state = "QUOTA" => \A leg \in m.legs :
                           Says(leg).reason \in {"quota.confirmed", "quota.reset_unknown"}
                    /\ m.state = "AVAILABLE" => \E leg \in m.legs :
                           Says(leg).reason = "verified.launch"
  BY DEF AvailabilityFollowsDecisions
<1>1. m.state = ModelState(m.legs) /\ m.legs \subseteq Routes
  BY AvailabilityIsOfCells, CellIsALeg
<1>2. ASSUME m.state = "QUOTA", NEW leg \in m.legs
      PROVE  Says(leg).reason \in {"quota.confirmed", "quota.reset_unknown"}
  <2>1. Shows(leg) \in QuotaShown /\ leg \in Routes
    BY <1>1, <1>2 DEF ModelState
  <2>2. leg \notin Skipped
    BY <2>1, SkippedShows DEF QuotaShown
  <2>3. routes[leg] # None /\ routes[leg].state = "QUOTA"
    BY <2>1, <2>2, ShownByRow DEF QuotaShown
  <2> QED
    BY <2>1, <2>2, <2>3, QuotaSays
<1>3. ASSUME m.state = "AVAILABLE"
      PROVE  \E leg \in m.legs : Says(leg).reason = "verified.launch"
  <2>1. PICK leg \in m.legs : Shows(leg) = "AVAILABLE"
    BY <1>1, <1>3 DEF ModelState
  <2>2. leg \in Routes /\ leg \notin Skipped
    BY <1>1, <2>1, SkippedShows
  <2> QED
    BY <2>1, <2>2, ShownByRow
<1> QED
  BY <1>2, <1>3

LEMMA StatusFits ==
    ASSUME DispatchInv, OneAgeLimit, FreeRoutesFirst
    PROVE  StatusFitsAvailability
<1> DEFINE s == "free-first"
           f == FALSE
           legs == Ladder[s][f]
           d == Decision(s, f)
<1> SUFFICES ASSUME GuardianStatus(d) \in {"NO-ROUTE", "SUB-IN-USE"},
                    NEW m \in ToSet(_pi_route_availability), m.state = "AVAILABLE"
             PROVE  FALSE
  BY Zenon DEF StatusFitsAvailability
<1>1. s \in ALL_STRATEGIES /\ f \in BOOLEAN
  BY DEF ALL_STRATEGIES
<1>2. \A leg \in ToSet(Cells) : leg.tier = TIER_FREE /\ (d.leg = None \/ d.leg.tier # TIER_FREE)
         => Says(leg).action = "SKIP"
  BY NoFreeLegIsPassedOver, Zenon
<1> HIDE DEF s, f
<1>3. AnsweredFrom(d, legs, s = "standard" /\ f) /\ legs \in Seq(Routes)
  BY <1>1, DecisionFact, LadderFact, Zenon
<1> HIDE DEF legs, d
<1>4. d.leg = None \/ d.action \in {"LAUNCH", "PROBE"}
  <2>1. SUFFICES ASSUME d.leg # None PROVE d.action \in {"LAUNCH", "PROBE"}
    OBVIOUS
  <2>2. PICK i \in DOMAIN legs :
           d.action = Says(legs[i]).action /\ Says(legs[i]).action # "SKIP"
    BY <1>3, <2>1, Zenon DEF AnsweredFrom
  <2>3. legs[i] \in Routes
    BY <1>3
  <2> QED
    BY <2>2, <2>3, SaysOneOfThree
<1>5. d.leg = None \/ d.leg.tier # TIER_FREE
  BY <1>4 DEF GuardianStatus, TIER_FREE, TIER_SUBSCRIPTION
<1>6. PICK leg \in m.legs : Shows(leg) = "AVAILABLE"
  BY AvailabilityIsOfCells DEF ModelState
<1>7. leg \in ToSet(Cells) /\ leg.tier = TIER_FREE /\ leg \in Routes
  BY AvailabilityIsOfCells, CellIsALeg
<1>8. Says(leg).action = "SKIP"
  BY <1>2, <1>5, <1>7
<1>9. leg \notin Skipped
  BY <1>6, SkippedShows
<1> QED
  BY <1>6, <1>7, <1>8, <1>9, ShownByRow

(* Four files, each derived on its own from the snapshot, say what a       *)
(* decision at that instant would do, the ledger within the default where  *)
(* nobody vouched for a reset (_foundry_route_policy,                      *)
(* _pi_route_availability, _guardian_status, _quota_state).                *)
THEOREM ExportsAgreeWithDecisions ==
    ASSUME OneAgeLimit, FreeRoutesFirst
    PROVE  ExportsSpec => []ExportsTellTheDecision
<1>1. DispatchInv => ExportsTellTheDecision
  BY EligibleIsLaunchable, LedgerAgrees, AvailabilityFollows, StatusFits
  DEF ExportsTellTheDecision
<1> QED
  BY <1>1, DispatchInvHolds, PTL

-----------------------------------------------------------------------------
LEMMA LegsAreNamed ==
    ASSUME NEW a \in Routes, NEW b \in Routes, a.account = b.account, a.model = b.model
    PROVE  a = b
<1> DEFINE Named == {y.id : y \in ToSet(Doc.accounts)}
<1>0. \A leg \in Routes : \E x \in Named, i \in DOMAIN Doc.routes :
                                leg = Leg(x, Doc.routes[i])
  BY DispatchAssumption DEF ToSet
<1> HIDE DEF Named
<1>1. PICK x \in Named, i \in DOMAIN Doc.routes : a = Leg(x, Doc.routes[i])
  BY <1>0
<1>2. PICK z \in Named, j \in DOMAIN Doc.routes : b = Leg(z, Doc.routes[j])
  BY <1>0
<1>3. IsInjective([k \in DOMAIN Doc.routes |-> Doc.routes[k].model])
  BY DispatchAssumption DEF validate_policy
<1>4. x = z /\ Doc.routes[i].model = Doc.routes[j].model
  BY <1>1, <1>2 DEF Leg
<1>5. i = j
  BY <1>3, <1>4 DEF IsInjective
<1> QED
  BY <1>1, <1>2, <1>4, <1>5

(* A leg that the ledger still blocks is one that decisions skip.          *)
LEMMA SpentIsSkipped ==
    ASSUME DispatchInv, OneAgeLimit, NEW leg \in Spent, ~Omitted(leg), ~NamesLess(leg)
    PROVE  leg \in Routes /\ Says(leg).action = "SKIP"
<1>1. /\ leg \in Ledger /\ leg \in Routes /\ now < blockedUntil(leg)
      /\ Shows(leg) \in QuotaShown \cup {"AUTH_BLOCKED", "CAPABILITY_UNAVAILABLE"}
  BY CellIsALeg DEF Spent, Ledger
<1>2. leg \notin Skipped
  BY <1>1, SkippedShows DEF QuotaShown
<1>3. CASE Shows(leg) \in QuotaShown
  <2>1. Says(leg).reason = "quota.confirmed"
    BY <1>1, <1>3, LedgerAgrees DEF LedgerAgreesOnQuota
  <2>2. routes[leg] # None /\ routes[leg].state = "QUOTA"
    BY <1>1, <1>2, <1>3, ShownByRow DEF QuotaShown
  <2> QED
    BY <1>1, <1>2, <2>1, <2>2, QuotaSays
<1>4. CASE Shows(leg) \in {"AUTH_BLOCKED", "CAPABILITY_UNAVAILABLE"}
  BY <1>1, <1>2, <1>4, ShownByRow
<1> QED
  BY <1>1, <1>3, <1>4

(* The launcher that walks the exported queue past the exported ledger     *)
(* pays no sooner than the decisions, unless evidence named a reset that   *)
(* is shorter than the default and nobody vouched for                      *)
(* (Resolve-CmoFoundryNextStep, decide, _quota_state).                     *)
THEOREM TheLauncherPaysNoSooner ==
    ASSUME OneAgeLimit
    PROVE  ExportsSpec => []LauncherPaysNoSooner
<1>1. DispatchInv => LauncherPaysNoSooner
  <2> DEFINE s == "free-first"
             f == FALSE
             legs == Ladder[s][f]
             d == Decision(s, f)
             queue == routeQueue
             step == NextStep(Spent)
             Open(entry) == \A leg \in Spent :
                               leg.model # entry.model \/ leg.account # entry.account
             I == {i \in 1..Len(queue) : Open(queue[i])}
             at == IF I # {} THEN Min(I) ELSE 0
  <2> SUFFICES ASSUME DispatchInv, \A leg \in Routes : ~Omitted(leg) /\ ~NamesLess(leg),
                      step # None, step.tier = TIER_SUBSCRIPTION,
                      d.leg # None
               PROVE  d.leg.tier = TIER_SUBSCRIPTION
    BY Zenon DEF LauncherPaysNoSooner
  <2>1. s \in ALL_STRATEGIES /\ f \in BOOLEAN
    BY DEF ALL_STRATEGIES
  <2>2. step = IF at = 0 THEN None ELSE queue[at]
    BY Zenon DEF NextStep, SelectInSeq
  <2>3. /\ queue \in Seq(ToSet(queue))
        /\ \A leg \in ToSet(legs) : leg.tier = TIER_FREE =>
              \E i \in DOMAIN queue :
                 /\ queue[i].account = leg.account /\ queue[i].model = leg.model
                 /\ \A j \in DOMAIN queue : queue[j].tier = TIER_SUBSCRIPTION => i < j
    BY QueueServesTheLadder, Zenon
  <2> HIDE DEF s, f
  <2>4. AnsweredFrom(d, legs, s = "standard" /\ f) /\ legs \in Seq(Routes)
    BY <2>1, DecisionFact, LadderFact, Zenon
  <2> HIDE DEF legs, d, queue, step
  <2>5. d.leg \in ToSet(legs) /\ d.leg \in Routes /\ Says(d.leg).action # "SKIP"
    BY <2>4 DEF AnsweredFrom, ToSet
  <2> SUFFICES ASSUME d.leg.tier = TIER_FREE PROVE FALSE
    BY <2>5, TiersAreTwo
  <2>6. DOMAIN queue = 1..Len(queue) /\ Len(queue) \in Nat
    BY <2>3
  <2> HIDE DEF Open
  <2>7. at \in I /\ \A i \in I : at <= i
    <3>1. I \subseteq Nat
      BY <2>6
    <3>2. I # {}
      BY <2>2
    <3> HIDE DEF I
    <3> QED
      BY <3>1, <3>2, MinOfNaturals
  <2>8. at \in DOMAIN queue /\ at # 0 /\ queue[at].tier = TIER_SUBSCRIPTION
    BY <2>2, <2>6, <2>7
  <2>9. PICK i \in DOMAIN queue : /\ queue[i].account = d.leg.account
                                  /\ queue[i].model = d.leg.model
                                  /\ i < at
    BY <2>3, <2>5, <2>8
  <2> HIDE DEF at
  <2>10. ~Open(queue[i])
    BY <2>6, <2>7, <2>8, <2>9
  <2>11. PICK leg \in Spent : leg.model = d.leg.model /\ leg.account = d.leg.account
    BY <2>9, <2>10 DEF Open
  <2>12. leg \in Routes
    BY CellIsALeg DEF Spent, Ledger
  <2>13. Says(leg).action = "SKIP"
    BY <2>12, SpentIsSkipped
  <2>14. leg = d.leg
    BY <2>5, <2>11, <2>12, LegsAreNamed
  <2> QED
    BY <2>5, <2>13, <2>14
<1> QED
  BY <1>1, DispatchInvHolds, PTL
=============================================================================
