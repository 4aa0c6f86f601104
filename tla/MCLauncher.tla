----------------------------- MODULE MCLauncher -----------------------------
(***************************************************************************)
(* Exports, and with it Dispatch and Decision, on a small ladder: a free   *)
(* model on two accounts and a subscription model.  Minutes are scaled     *)
(* (quota windows 2 and 1, evidence lives 1), which keeps the order of the *)
(* code's 15, 5 and 15.                                                    *)
(*                                                                         *)
(* Overrides are in force only while the catalog has said nothing and no   *)
(* launcher has died: they veto a leg before either is looked at.          *)
(*                                                                         *)
(* A behaviour has rechecks or it has the rest of what may happen to a leg *)
(* beside the launcher's own reports; both together outgrow the run.       *)
(***************************************************************************)
EXTENDS Exports

VARIABLE rechecking     \* bound: whether this behaviour has rechecks

Account(id, priority) ==
    [id |-> id, enabled |-> TRUE, priority |-> priority, status |-> "tracked",
     profile |-> id]

MCDefaults ==
    [evidence_ttl_ms |-> 1, success_ttl_ms |-> 1, free_reset_after_ms |-> 2,
     subscription_reset_after_ms |-> 1, max_transient_retries |-> 1,
     heartbeat_ms |-> 1, disconnected_after_ms |-> 1]

MCRoutes ==
    <<[model |-> "glm", family |-> "glm-5.3-flash", tier |-> "free",
       provider |-> "cline", accounts |-> <<1, 2>>, enabled |-> TRUE],
      [model |-> "pass", family |-> "glm-5.3-flash", tier |-> "subscription",
       provider |-> "cline-pass", accounts |-> <<1>>, enabled |-> TRUE]>>

MCAccounts == <<Account(1, 1), Account(2, 0)>>

MCDoc == canonical_policy_document
MCLegs == {Leg(a, r) : a \in {x.id : x \in ToSet(CanonicalAccounts)},
                       r \in ToSet(CANONICAL_ROUTES)}
MCFreeLegs == {leg \in MCLegs : leg.tier = TIER_FREE}

(* The legs of the ladder: the subscription model has the first account.   *)
MCRechecked == {leg \in MCLegs : leg.tier = TIER_FREE \/ leg.account = 1}

Silent == ~catalog.fresh /\ catalog.unavailable = {}

(* No recheck: a row moves only with the launcher that reports it, and the *)
(* resets that are named have two minutes.                                 *)
LaunchersOnly ==
    /\ UNCHANGED routes \/ launcher' # launcher
    /\ \A leg \in Routes : routes'[leg] # None =>
            routes'[leg].resetAfter \in {0, DefaultReset(leg), 2}

(* Rechecks, and reports of the outcomes that quota evidence competes with.*)
QuotaOnly ==
    /\ overrides = {} /\ Silent /\ deaths = 0
    /\ \A leg \in Routes : routes[leg] # None =>
            routes[leg].state \in {"AVAILABLE", "PROBING", "QUOTA"}

MCInit == ExportsInit /\ rechecking \in BOOLEAN

MCNext ==
    /\ ExportsNext
    /\ UNCHANGED rechecking
    /\ (overrides = {} \/ (Silent /\ deaths = 0))'
    /\ IF rechecking THEN QuotaOnly' ELSE LaunchersOnly

MCSpec == MCInit /\ [][MCNext]_<<vars, abandoned, rechecking>> /\ WF_vars(Tick)

-----------------------------------------------------------------------------
(* The subscription comes after the free ladder: never for who asked for   *)
(* free only, and for others when no free leg is shown as usable.          *)
SubscriptionComesLast == TypeOK /\ FreeOnlyNeverPays /\ PaidOnlyWhenFreeIsBlocked

(* A quota and an override hold until the instant they name and no longer, *)
(* whichever columns their readers compute it from.                        *)
ExpiriesAreKept == QuotaWaitEndsWithItsReset /\ OverrideHolds

(* Queue, availability, status and ledger, each derived on its own from    *)
(* the snapshot, say what a decision at that instant would do (compat.py), *)
(* the ledger within the default where nobody vouched for a reset.         *)
ExportsTellTheDecision ==
    /\ EligibleMeansLaunchable
    /\ AvailabilityFollowsDecisions
    /\ StatusFitsAvailability
    /\ LedgerAgreesOnQuota
=============================================================================
