------------------------------ MODULE Dispatch ------------------------------
(***************************************************************************)
(* The loop that CMO exists for: a launcher (the Pi adapter) asks for a    *)
(* decision, probes or launches the leg it was given and reports back, the *)
(* report moves the route row, and the next decision reads that row.       *)
(* Operators add and clear overrides and have legs rechecked by the        *)
(* service's own worker, and the catalog changes meanwhile.                *)
(*                                                                         *)
(* A decision is one read of the store; what is reported, and when, is the *)
(* launcher's affair, so anything may happen between the two, including    *)
(* the death of the launcher.  Launchers are not part of the source: they  *)
(* follow docs/cmo-v2-interface.md.                                        *)
(***************************************************************************)
EXTENDS Decision

CONSTANTS
    Doc,                \* the active policy
    Launchers,          \* who asks for decisions and runs attempts
    StrategiesAsked,    \* the strategies they ask for
    Outcomes,           \* what an attempt or probe may report
    Rechecked,          \* the legs operators ask a recheck of
    RecheckOutcomes,    \* what the worker may settle a recheck with
    Resets,             \* the resets quota evidence may name
    OverrideLengths,    \* reset_after_ms of override.created, 0 for none
    OverrideIds,        \* event ids of overrides
    LastReport,         \* bound: no report or new override after this minute
    MaxTime,            \* bound: the clock stops here
    MaxDeaths           \* bound: launchers that die

(* Quota evidence names no reset, names one, or vouches for the one it     *)
(* names: reset_after_ms and reset_known are two fields of an event.       *)
OutcomeSet == {"ok", "quota", "quota.named", "quota.known", "auth", "transient",
               "unknown", "capability"}

(* The policy is fixed, so what is derived from it alone is, too: the legs *)
(* each question walks, and the cells of every snapshot.                   *)
Ladder == [s \in ALL_STRATEGIES |-> [f \in BOOLEAN |-> Candidates(s, f, Doc)]]

Cells == route_cells(Doc)

(* The lists of a document are lists.                                      *)
HasLists(doc) ==
    /\ doc.accounts \in Seq(ToSet(doc.accounts))
    /\ doc.routes \in Seq(ToSet(doc.routes))
    /\ \A r \in ToSet(doc.routes) : r.accounts \in Seq(ToSet(r.accounts))

ASSUME DispatchAssumption ==
    /\ validate_policy(Doc) /\ HasLists(Doc)
    /\ Routes = {Leg(a, r) : a \in {x.id : x \in ToSet(Doc.accounts)},
                             r \in ToSet(Doc.routes)}
    /\ FreeRoutes = {leg \in Routes : leg.tier = TIER_FREE}
    /\ EventIds # {}
    /\ Outcomes \subseteq OutcomeSet
    /\ Rechecked \subseteq Routes
    /\ RecheckOutcomes \subseteq OutcomeSet \ {"quota.known", "unknown"}
    /\ StrategiesAsked \subseteq ALL_STRATEGIES
    /\ OverrideLengths \subseteq Nat
    /\ Resets \subseteq Nat \ {0} /\ Resets # {}
    /\ MaxTime \in Nat \ {0}
    /\ {LastReport, MaxDeaths} \subseteq Nat

(* What some proofs ask of the document beyond what validate_policy checks;*)
(* the canonical document has both.  One age limit: the decision's         *)
(* success_ttl_ms and the dashboard's evidence_ttl_ms are two members.     *)
OneAgeLimit == Doc.defaults["success_ttl_ms"] = Doc.defaults["evidence_ttl_ms"]

(* The document lists its free routes first.                               *)
FreeRoutesFirst ==
    \A i, j \in DOMAIN Doc.routes :
        Doc.routes[i].tier # TIER_FREE /\ Doc.routes[j].tier = TIER_FREE => j < i

VARIABLES
    now,                \* the wall clock, in minutes
    routes,             \* the route_state table
    overrides,          \* rows of the overrides table
    catalog,            \* [fresh, unavailable] as the snapshot derives them
    launcher,           \* launcher -> what it is doing
    deaths

vars == <<now, routes, overrides, catalog, launcher, deaths>>

Idle == [doing |-> "idle", leg |-> None]

Init ==
    /\ now = 1
    /\ routes = [r \in Routes |-> None]
    /\ overrides = {}
    /\ catalog = [fresh |-> FALSE, unavailable |-> {}]
    /\ launcher = [p \in Launchers |-> Idle]
    /\ deaths = 0

-----------------------------------------------------------------------------
Skipped == Skips(overrides, now)

Decision(strategy, freeOnly) ==
    decide(Ladder[strategy][freeOnly], routes, Skipped, strategy, freeOnly, catalog, Doc,
           now)

Says(leg) == Answer(leg, routes, Skipped, catalog, Doc, now)

Shows(leg) == _build_cell(leg, routes, Skipped, catalog, Doc, now)

ToEvent(type, leg, reason, resetAfter, known) ==
    [id |-> CHOOSE id \in EventIds : TRUE, type |-> type, at |-> now,
     route |-> leg, goal |-> None, attempt |-> None, reason |-> reason,
     signal |-> None, resetAfter |-> resetAfter, resetKnown |-> known,
     strategy |-> None, freeOnly |-> None]

(* route decide, then act on the answer.  A PROBE is announced by          *)
(* route.probe.started; a LAUNCH moves no route until it ends.             *)
Ask(p, strategy, freeOnly) ==
    LET d == Decision(strategy, freeOnly)
    IN  /\ launcher[p].doing = "idle"
        /\ now <= LastReport
        /\ d.action # "BLOCKED"
        /\ launcher' = [launcher EXCEPT ![p] =
               [doing |-> IF d.action = "PROBE" THEN "to-probe" ELSE "running",
                leg |-> d.leg]]
        /\ UNCHANGED <<now, routes, overrides, catalog, deaths>>

BeginProbe(p) ==
    /\ launcher[p].doing = "to-probe"
    /\ routes' = ApplyToRoutes(routes, FALSE,
           ToEvent("route.probe.started", launcher[p].leg, "other", 0, FALSE))
    /\ launcher' = [launcher EXCEPT ![p].doing = "probing"]
    /\ UNCHANGED <<now, overrides, catalog, deaths>>

OutcomeReason ==
    [o \in OutcomeSet |->
        CASE o \in {"quota", "quota.named", "quota.known"} -> "quota.confirmed"
          [] o = "auth"       -> "auth.required"
          [] o = "transient"  -> "transient.failure"
          [] o = "capability" -> "capability.not_offered"
          [] OTHER            -> "other"]

(* Evidence of an outcome at a leg; a reset is read with two of them only. *)
Outcome(type, leg, outcome, reset) ==
    ToEvent(type, leg, OutcomeReason[outcome],
            IF outcome \in {"quota.named", "quota.known"} THEN reset ELSE 0,
            outcome = "quota.known")

(* The end of a probe or attempt, reported under the reason the launcher   *)
(* found.                                                                  *)
Report(p, outcome, reset) ==
    LET ended == IF launcher[p].doing = "probing" THEN "route.probe." ELSE "attempt."
        type == CASE ended = "route.probe." /\ outcome = "ok" -> "route.probe.succeeded"
                  [] ended = "route.probe." /\ outcome # "ok" -> "route.probe.failed"
                  [] ended = "attempt." /\ outcome = "ok"     -> "attempt.completed"
                  [] ended = "attempt." /\ outcome # "ok"     -> "attempt.failed"
    IN  /\ launcher[p].doing \in {"probing", "running"}
        /\ now <= LastReport
        /\ routes' = ApplyToRoutes(routes, FALSE,
               Outcome(type, launcher[p].leg, outcome, reset))
        /\ launcher' = [launcher EXCEPT ![p] = Idle]
        /\ UNCHANGED <<now, overrides, catalog, deaths>>

(* The worker settles a recheck the operator asked for, of any leg.  Its   *)
(* reason codes are others of the same categories, and it passes the reset *)
(* a probe names on without ever vouching for it.                          *)
Recheck(leg, outcome, reset) ==
    LET type == IF outcome = "ok" THEN "route.recheck.succeeded"
                ELSE "route.recheck.failed"
    IN  /\ now <= LastReport
        /\ routes' = ApplyToRoutes(routes, TRUE, Outcome(type, leg, outcome, reset))
        /\ UNCHANGED <<now, overrides, catalog, launcher, deaths>>

(* The launcher dies, or its report is lost.                               *)
Die(p) ==
    /\ launcher[p].doing # "idle"
    /\ deaths < MaxDeaths
    /\ deaths' = deaths + 1
    /\ launcher' = [launcher EXCEPT ![p] = Idle]
    /\ UNCHANGED <<now, routes, overrides, catalog>>

-----------------------------------------------------------------------------
ExpiresAt(length) == IF length = 0 THEN None ELSE now + length

(* override.created: the row is keyed by the event id and an id that is    *)
(* already there is left alone.  The dashboard sends 30 minutes when none  *)
(* are given; a length of zero never expires.                              *)
CreateOverride(id, leg, length) ==
    /\ now <= LastReport
    /\ overrides' = IF \E o \in overrides : o.id = id THEN overrides
                    ELSE overrides \cup
                         {[id |-> id, route |-> leg, expires |-> ExpiresAt(length)]}
    /\ UNCHANGED <<now, routes, catalog, launcher, deaths>>

(* override.cleared by id, and by route when the event names one.  Rows    *)
(* past their expiry stay in the table until something clears them.        *)
ClearOverride(id, leg) ==
    /\ overrides' = {o \in overrides : o.id # id /\ o.route # leg}
    /\ overrides' # overrides
    /\ UNCHANGED <<now, routes, catalog, launcher, deaths>>

(* The catalog reads fresh or not, and lists some models as unavailable.   *)
CatalogSays(fresh, unavailable) ==
    /\ now <= LastReport
    /\ catalog' = [fresh |-> fresh, unavailable |-> unavailable]
    /\ UNCHANGED <<now, routes, overrides, launcher, deaths>>

Tick ==
    /\ now < MaxTime
    /\ now' = now + 1
    /\ UNCHANGED <<routes, overrides, catalog, launcher, deaths>>

Models == {r.model : r \in ToSet(Doc.routes)}

Step ==
    \/ \E p \in Launchers :
          \/ \E s \in StrategiesAsked, f \in BOOLEAN : Ask(p, s, f)
          \/ BeginProbe(p)
          \/ \E o \in Outcomes, n \in Resets : Report(p, o, n)
    \/ \E leg \in Rechecked, o \in RecheckOutcomes, n \in Resets : Recheck(leg, o, n)
    \/ \E id \in OverrideIds, leg \in Routes :
          \/ \E n \in OverrideLengths : CreateOverride(id, leg, n)
          \/ ClearOverride(id, leg)
    \/ \E fresh \in BOOLEAN, m \in Models : CatalogSays(fresh, {m})
    \/ Tick

Next == Step \/ \E p \in Launchers : Die(p)

(* Nobody has to ask, report or override; only time has to pass.           *)
Spec == Init /\ [][Next]_vars /\ WF_vars(Tick)

-----------------------------------------------------------------------------
TypeOK ==
    /\ now \in 1..MaxTime
    /\ routes \in [Routes -> RouteRow \cup {None}]
    /\ overrides \subseteq
          [id : OverrideIds, route : Routes, expires : Nat \cup {None}]
    /\ catalog \in [fresh : BOOLEAN, unavailable : SUBSET Models]
    /\ launcher \in
          [Launchers -> [doing : {"idle", "to-probe", "probing", "running"},
                         leg : Routes \cup {None}]]
    /\ deaths \in 0..MaxDeaths

(* Whatever the evidence says, a free-only decision never answers with a   *)
(* subscription leg, under any strategy (decide's filter and its refusal   *)
(* of the standard strategy).                                              *)
FreeOnlyNeverPays ==
    \A s \in ALL_STRATEGIES :
        LET d == Decision(s, TRUE) IN d.leg # None => d.leg.tier = TIER_FREE

Omitted(leg) == catalog.fresh /\ leg.model \in catalog.unavailable

(* A decision spends the subscription only when the dashboard shows every  *)
(* enabled free leg as blocked or its model is omitted: the two compute a  *)
(* leg's state separately (_effective_state and Answer, _build_cell), and  *)
(* no leg the one shows as usable is passed over by the other.             *)
PaidOnlyWhenFreeIsBlocked ==
    LET d == Decision("free-first", FALSE)
    IN  d.leg # None /\ d.leg.tier = TIER_SUBSCRIPTION =>
            \A leg \in ToSet(Cells) :
                \/ leg.tier = TIER_SUBSCRIPTION
                \/ Omitted(leg)
                \/ Shows(leg) \in {"FORCE_SKIP", "QUOTA", "AUTH_BLOCKED", "PROBING",
                                   "TRANSIENT", "CAPABILITY_UNAVAILABLE"}

Meaning(shown) ==
    CASE shown = "AVAILABLE" -> {"LAUNCH"}
      [] shown \in {"UNKNOWN", "STALE", "QUOTA_EXPIRED"} -> {"PROBE"}
      [] shown = "TRANSIENT" -> {"LAUNCH", "SKIP"}
      [] OTHER -> {"SKIP"}

(* What a cell displays is what a decision would do with the leg, at every *)
(* instant and across both expiries (models the catalog omits apart).      *)
CellTellsTheDecision ==
    \A leg \in ToSet(Cells) :
        ~Omitted(leg) => Says(leg).action \in Meaning(Shows(leg))

(* The leg is under quota by evidence that names a reset without vouching  *)
(* for it: the row keeps it next to the default check the tier has.        *)
Unvouched(leg) ==
    LET row == routes[leg]
    IN  /\ row # None /\ row.state = "QUOTA"
        /\ row.resetKnown = FALSE /\ row.resetAfter # DefaultReset(leg)

(* A leg under quota is skipped exactly until the reset its evidence       *)
(* named, vouched for or not, or until its tier's default window has       *)
(* passed: the decision engine computes the end from other columns than    *)
(* the projection writes it to (reset_at, next_check_at).                  *)
QuotaWaitEndsWithItsReset ==
    \A leg \in Routes \ Skipped :
        LET row == routes[leg]
            end == CASE row.resetKnown  -> row.resetAt
                     [] Unvouched(leg) -> row.changedAt + row.resetAfter
                     [] OTHER          -> row.nextCheckAt
        IN  row # None /\ row.state = "QUOTA" =>
                ((Says(leg).reason = "quota.confirmed") <=> now < end)

(* An override keeps its leg out of every decision until it expires or is  *)
(* cleared, whatever evidence arrives for the leg in between.              *)
OverrideHolds ==
    \A o \in overrides : (o.expires = None \/ now < o.expires) =>
        \A s \in ALL_STRATEGIES, f \in BOOLEAN : Decision(s, f).leg # o.route

(* A quota never blocks a leg for good: with no report at all, time alone  *)
(* brings every leg under quota back to the decisions.                     *)
QuotaLegComesBack ==
    \A leg \in Routes :
        Says(leg).reason = "quota.confirmed" ~> Says(leg).reason # "quota.confirmed"

-----------------------------------------------------------------------------
(* Promises of the repository that the code breaks: TLC finds each of      *)
(* these violated (README, Divergences).                                   *)

(* "every surface reports the same evidence" (docstring of snapshot.py): a *)
(* cell reads "Not offered" when the decision passes the leg over for that *)
(* reason, and only then.                                                  *)
SurfacesAgreeOnOmission ==
    \A leg \in ToSet(Cells) :
        Shows(leg) = "CAPABILITY_UNAVAILABLE"
            <=> Says(leg).reason = "capability.not_offered"

(* "PROBE - no leg has valid evidence" (docs/cmo-v2-interface.md): a probe *)
(* is asked for only when no leg of the ladder is recently verified.       *)
ProbeMeansNoEvidence ==
    Decision("free-first", FALSE).action = "PROBE" =>
        \A leg \in ToSet(Cells) : Says(leg).action # "LAUNCH"

(* "next check" (the page's word for next_check_at, app.js:382): a leg     *)
(* under quota is passed over until the instant its cell names.            *)
WaitEndsWithTheNextCheck ==
    \A leg \in Routes \ Skipped :
        LET row == routes[leg]
        IN  row # None /\ row.state = "QUOTA" /\ row.nextCheckAt # None =>
                ((Says(leg).reason = "quota.confirmed") <=> now < row.nextCheckAt)

(* "another probe holds this route (lease)" (decide's reason for passing   *)
(* over a leg that is PROBING): somebody is probing it.                    *)
InFlightMeansAProbe ==
    \A leg \in Routes : Says(leg).reason = "probe.in_flight" =>
        \E p \in Launchers : launcher[p].doing = "probing" /\ launcher[p].leg = leg

(* "each model is tried across enabled accounts in priority order" (decide)*)
OnlyEnabledAccounts ==
    \A s \in ALL_STRATEGIES, f \in BOOLEAN :
        LET d == Decision(s, f)
        IN  d.leg # None => Contains(account_order(Doc), d.leg.account)
=============================================================================
