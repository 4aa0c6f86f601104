------------------------------ MODULE Exports -------------------------------
(***************************************************************************)
(* What the compatibility exports say of the legs: the route queue with    *)
(* its live eligibility, the availability of the free models, the quota    *)
(* ledger and the guardian's status, each a view of the snapshot, and the  *)
(* launcher of CmoFoundryRoute.ps1 that walks the queue.                   *)
(*                                                                         *)
(* The views are taken of one instant of Dispatch; how the files come to   *)
(* be written is the matter of ExportFiles.  An attempt whose launcher     *)
(* died stays in the attempts table as running, so its leg stays in use.   *)
(***************************************************************************)
EXTENDS Dispatch

VARIABLE abandoned      \* legs of attempts nobody will ever end

ExportsInit == Init /\ abandoned = {}

Abandon(p) ==
    /\ Die(p)
    /\ abandoned' = IF launcher[p].doing = "running"
                      THEN abandoned \cup {launcher[p].leg} ELSE abandoned

ExportsNext ==
    \/ Step /\ UNCHANGED abandoned
    \/ \E p \in Launchers : Abandon(p)

ExportsSpec == ExportsInit /\ [][ExportsNext]_<<vars, abandoned>>

-----------------------------------------------------------------------------
in_use(leg) ==
    \/ leg \in abandoned
    \/ \E p \in Launchers : launcher[p].doing = "running" /\ launcher[p].leg = leg

FreeRoutesOf(doc) == {i \in DOMAIN doc.routes : doc.routes[i].tier = TIER_FREE}
PaidRoutesOf(doc) == {i \in DOMAIN doc.routes : doc.routes[i].tier = TIER_SUBSCRIPTION}

(* Every free route with its own list of accounts, disabled ones too.      *)
FreeQueue ==
    LET own == [i \in DOMAIN Doc.routes |-> Doc.routes[i].accounts]
    IN  Expand(Doc, own, LegsOf(FreeRoutesOf(Doc), own))

(* One entry for a subscription model, whatever its accounts.              *)
SubscriptionTail ==
    LET none == [i \in DOMAIN Doc.routes |-> <<None>>]
    IN  Expand(Doc, none, LegsOf(PaidRoutesOf(Doc), none))

routeQueue == FreeQueue \o SubscriptionTail

(* The first cell of the model, of the entry's account when it has one.    *)
CellOf ==
    [entry \in ToSet(routeQueue) |->
        LET mine(c) == c.model = entry.model /\ entry.account \in {None, c.account}
            at == SelectInSeq(Cells, mine)
        IN  IF at = 0 THEN None ELSE Cells[at]]

(* Slip: the leg is looked up in the table, not among the cells.           *)
Eligible_Stored(entry) ==
    \E leg \in Routes :
        /\ leg.model = entry.model /\ entry.account \in {None, leg.account}
        /\ routes[leg] # None /\ routes[leg].state = "AVAILABLE"

Eligible(entry) ==
    LET cell == CellOf[entry]
    IN  cell # None /\ Shows(cell) = "AVAILABLE" /\ ~in_use(cell)

-----------------------------------------------------------------------------
QuotaShown == {"QUOTA", "QUOTA_EXPIRED"}

(* Slip: one account under quota closes the model.                         *)
ModelState_AnyQuota(legs) ==
    CASE \E leg \in legs : Shows(leg) = "AVAILABLE" -> "AVAILABLE"
      [] \E leg \in legs : Shows(leg) \in QuotaShown -> "QUOTA"
      [] OTHER -> "UNKNOWN"

ModelState(legs) ==
    CASE \E leg \in legs : Shows(leg) = "AVAILABLE" -> "AVAILABLE"
      [] \A leg \in legs : Shows(leg) \in QuotaShown -> "QUOTA"
      [] OTHER -> "UNKNOWN"

FreeCells(model) == {c \in ToSet(Cells) : c.tier = TIER_FREE /\ c.model = model}

(* Where a free model has its first cell.                                  *)
FirstCells ==
    {i \in DOMAIN Cells :
        /\ Cells[i].tier = TIER_FREE
        /\ \A j \in 1..(i - 1) : Cells[j] \notin FreeCells(Cells[i].model)}

ModelEntry(model, legs) == [model |-> model, legs |-> legs, state |-> ModelState(legs)]

(* The free models that have cells, in their order, with their states.     *)
_pi_route_availability ==
    LET order == Ascending(FirstCells)
        model == [i \in DOMAIN order |-> Cells[order[i]].model]
    IN  [i \in DOMAIN order |-> ModelEntry(model[i], FreeCells(model[i]))]

(* Slip: everything that is not a launch counts as no route.               *)
GuardianStatus_NoProbe(d) ==
    IF d.action # "LAUNCH" THEN "NO-ROUTE"
    ELSE IF d.leg.tier = TIER_SUBSCRIPTION THEN "SUB-IN-USE" ELSE "OK-FREE-OPTIMAL"

GuardianStatus(d) ==
    CASE d.action = "LAUNCH" -> IF d.leg.tier = TIER_SUBSCRIPTION
                                  THEN "SUB-IN-USE" ELSE "OK-FREE-OPTIMAL"
      [] d.action = "PROBE"  -> "CHECKING"
      [] OTHER               -> "NO-ROUTE"

-----------------------------------------------------------------------------
(* quota-state.json, the ledger of the Pi account router.                  *)

Ledger == {leg \in ToSet(Cells) :
              Shows(leg) \in QuotaShown \cup {"AUTH_BLOCKED", "CAPABILITY_UNAVAILABLE"}}

FALLBACK_RESET(leg) == DefaultReset(leg)

(* Slip: the window counts from the export.                                *)
blockedUntil_FromNow(leg) ==
    LET row == routes[leg]
    IN  now + (IF row # None /\ row.resetKnown = TRUE /\ row.resetAfter # 0
                 THEN row.resetAfter ELSE FALLBACK_RESET(leg))

(* Slip: the reset the provider named is not used.                         *)
blockedUntil_Fallback(leg) ==
    (IF routes[leg] = None THEN now ELSE routes[leg].changedAt) + FALLBACK_RESET(leg)

(* The evidence's own reset when the provider named it, else the fallback, *)
(* from the evidence or, where there is none, from the export.             *)
blockedUntil(leg) ==
    LET row == routes[leg]
    IN  IF row = None THEN now + FALLBACK_RESET(leg)
        ELSE row.changedAt + (IF row.resetKnown = TRUE /\ row.resetAfter # 0
                                THEN row.resetAfter ELSE FALLBACK_RESET(leg))

Spent == {leg \in Ledger : now < blockedUntil(leg)}

(* Resolve-CmoFoundryNextStep: the first entry that is not spent.          *)
NextStep(spent) ==
    LET open(entry) == \A leg \in spent :
                           leg.model # entry.model \/ leg.account # entry.account
        at == SelectInSeq(routeQueue, open)
    IN  IF at = 0 THEN None ELSE routeQueue[at]

-----------------------------------------------------------------------------
(* An entry of the queue is eligible only when a decision would launch one *)
(* of its legs at this instant, also when the success it rests on has aged *)
(* since (_foundry_route_policy, decide).                                  *)
EligibleMeansLaunchable ==
    \A entry \in ToSet(routeQueue) : Eligible(entry) =>
        \E leg \in ToSet(Ladder["free-first"][FALSE]) :
            /\ leg.model = entry.model /\ entry.account \in {None, leg.account}
            /\ Says(leg).action = "LAUNCH"

(* A free model is reported under quota only when every leg a decision may *)
(* pick of it waits for a reset or has just served its wait, and available *)
(* only when one of them would be launched (_pi_route_availability).       *)
AvailabilityFollowsDecisions ==
    \A m \in ToSet(_pi_route_availability) :
        /\ m.state = "QUOTA" => \A leg \in m.legs :
               Says(leg).reason \in {"quota.confirmed", "quota.reset_unknown"}
        /\ m.state = "AVAILABLE" => \E leg \in m.legs :
               Says(leg).reason = "verified.launch"

(* The guardian's status and its table come from different parts of the    *)
(* snapshot and agree: no route means that no free model is available, and *)
(* neither is one when the subscription is in use.                         *)
StatusFitsAvailability ==
    GuardianStatus(Decision("free-first", FALSE)) \in {"NO-ROUTE", "SUB-IN-USE"} =>
        \A m \in ToSet(_pi_route_availability) : m.state # "AVAILABLE"

(* The reset an unvouched leg names is shorter, or longer, than the        *)
(* default that the ledger puts in its place.                              *)
NamesLess(leg) == Unvouched(leg) /\ routes[leg].resetAfter < DefaultReset(leg)
NamesMore(leg) == Unvouched(leg) /\ routes[leg].resetAfter > DefaultReset(leg)

(* The ledger blocks a leg under quota exactly as long as the decisions    *)
(* skip it, though blockedUntil is computed a third time, from other       *)
(* columns; where a reset was named and not vouched for, it errs only to   *)
(* the side of the default that _quota_state falls back to.                *)
LedgerAgreesOnQuota ==
    \A leg \in Ledger : Shows(leg) \in QuotaShown =>
        LET blocked == now < blockedUntil(leg)
            waits   == Says(leg).reason = "quota.confirmed"
        IN  /\ waits => blocked \/ NamesMore(leg)
            /\ blocked => waits \/ NamesLess(leg)

(* A launcher that walks the exported queue past the legs the exported     *)
(* ledger blocks comes to the subscription no sooner than the decisions do *)
(* (models the catalog omits and shorter resets nobody vouched for apart). *)
LauncherPaysNoSooner ==
    LET step == NextStep(Spent)
        d == Decision("free-first", FALSE)
    IN  /\ \A leg \in Routes : ~Omitted(leg) /\ ~NamesLess(leg)
        /\ step # None /\ step.tier = TIER_SUBSCRIPTION
        => d.leg = None \/ d.leg.tier = TIER_SUBSCRIPTION

-----------------------------------------------------------------------------
(* Promises of the repository that the code breaks: TLC finds each of      *)
(* these violated (README, Divergences).                                   *)

(* "Generated from one snapshot + revision so every consumer sees the same *)
(* evidence" (compat.py): the consumers of the ledger hold a leg under     *)
(* quota back as long as the decisions of the same snapshot do.            *)
LedgerTellsTheDecision ==
    \A leg \in Ledger : Shows(leg) \in QuotaShown =>
        (now < blockedUntil(leg) <=> Says(leg).reason = "quota.confirmed")

(* "The subscription tail runs only after every free leg is exhausted" (the*)
(* orderRule of foundry-route-policy.json): no decision launches it while  *)
(* a free cell is recently verified or yet to be probed.                   *)
OrderRuleIsKept ==
    LET d == Decision("free-first", FALSE)
    IN  d.action = "LAUNCH" /\ d.leg.tier = TIER_SUBSCRIPTION =>
            \A leg \in ToSet(Cells) : leg.tier = TIER_FREE =>
                Says(leg).action = "SKIP"

(* "an unknown leg is never reported as available or exhausted" (the note  *)
(* in guardian-status.json): the ledger names no leg without evidence.     *)
UnknownIsNotExhausted == \A leg \in Ledger : routes[leg] # None

(* "auth: credential problem - do NOT mark the leg spent"                  *)
(* (docs/ROUTING-OWNERSHIP.md): the ledger blocks no leg that only needs   *)
(* its sign-in.                                                            *)
AuthIsNotSpent == \A leg \in Spent : Shows(leg) # "AUTH_BLOCKED"

(* "A verified leg must be reflected as eligible live state"               *)
(* (tests/test_cmo_compat.py): a leg shown as recently verified and not in *)
(* use has an eligible entry.                                              *)
VerifiedLegIsEligible ==
    \A leg \in ToSet(Cells) : Shows(leg) = "AVAILABLE" /\ ~in_use(leg) =>
        \E entry \in ToSet(routeQueue) :
            /\ entry.model = leg.model /\ entry.account \in {None, leg.account}
            /\ Eligible(entry)
=============================================================================
