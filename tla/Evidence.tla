------------------------------ MODULE Evidence ------------------------------
(***************************************************************************)
(* The vocabulary every other module speaks: the identities of cmo.event/v1*)
(* (routes, goals, attempts), the normalized event record that             *)
(* normalize_event produces, and the failure taxonomy of policy.py.        *)
(*                                                                         *)
(* An event carries the fields the projections read.  Free text (repo,     *)
(* session_ref, safe_detail, source names, capability) is left out; the    *)
(* only thing the code derives from text, the taxonomy category whose      *)
(* signal words occur in it, is the field "signal".                        *)
(***************************************************************************)
EXTENDS Naturals

CONSTANTS
    EventIds,              \* event_id values, chosen by producers or random
    Routes,                \* route keys account|provider|model|tier
    MalformedKeys,         \* the keys of incomplete identities, as "|||"
    Goals,                 \* goal_id values
    Attempts,              \* attempt_id values
    FreeRoutes,            \* the routes whose tier is free, not subscription
    FreeReset,             \* default quota reset of a free leg (15 minutes)
    SubscriptionReset,     \* default quota reset of a subscription leg (5 min)
    None                   \* SQL NULL / Python None

ASSUME EvidenceAssumption ==
    /\ FreeRoutes \subseteq Routes
    /\ FreeReset \in Nat \ {0}
    /\ SubscriptionReset \in Nat \ {0}
    /\ Routes \cap MalformedKeys = {}
    /\ None \notin EventIds \cup Routes \cup MalformedKeys \cup Goals \cup Attempts
    /\ None \notin Nat \cup BOOLEAN \cup STRING

-----------------------------------------------------------------------------
(* The failure taxonomy: FAILURE_TAXONOMY maps each category to its reason *)
(* codes.  "other" stands for any code the taxonomy does not list.         *)

Categories == {"quota", "auth", "transient", "capability", "context"}

FAILURE_TAXONOMY ==
    [quota      |-> {"quota.confirmed", "quota.reset_unknown",
                     "quota.probe_confirmed"},
     auth       |-> {"auth.required", "auth.probe_failed"},
     transient  |-> {"transient.failure", "recheck.timeout"},
     capability |-> {"capability.not_offered"},
     context    |-> {"context.exhausted"}]

ReasonCodes == {"other"} \cup UNION {FAILURE_TAXONOMY[c] : c \in Categories}

(* A listed code decides the category; otherwise the first category whose  *)
(* signal words occur in the code or the detail; otherwise "unknown".      *)
classify_reason(reason, signal) ==
    IF \E c \in Categories : reason \in FAILURE_TAXONOMY[c]
      THEN CHOOSE c \in Categories : reason \in FAILURE_TAXONOMY[c]
      ELSE IF signal = None THEN "unknown" ELSE signal

-----------------------------------------------------------------------------
(* Event types.  GOAL_STATUS names the status a goal event assigns.        *)

GOAL_STATUS ==
    [t \in {"goal.started", "goal.resumed", "goal.paused", "goal.blocked",
            "goal.cancelled", "goal.disconnected", "goal.completed",
            "goal.failed"} |->
       CASE t \in {"goal.started", "goal.resumed"} -> "active"
         [] t = "goal.paused"       -> "paused"
         [] t = "goal.blocked"      -> "blocked"
         [] t = "goal.cancelled"    -> "cancelled"
         [] t = "goal.disconnected" -> "disconnected"
         [] t = "goal.completed"    -> "completed"
         [] t = "goal.failed"       -> "failed"]

Statuses == {"active", "paused", "blocked", "cancelled", "disconnected",
             "completed", "failed"}

ProbeTypes   == {"route.probe.started", "route.probe.succeeded",
                 "route.probe.failed"}
AttemptTypes == {"attempt.started", "attempt.heartbeat", "attempt.completed",
                 "attempt.failed"}
SettleTypes  == {"route.recheck.succeeded", "route.recheck.failed",
                 "route.recheck.blocked"}

(* The types whose identity fields normalize_event requires.               *)
ROUTE_EVENTS == ProbeTypes \cup AttemptTypes \cup SettleTypes
                    \cup {"route.recheck.started"}

(* The types with an effect on routes, rechecks, goals or attempts.        *)
EVENT_TYPES == DOMAIN GOAL_STATUS \cup ROUTE_EVENTS
                   \cup {"goal.context_escalated", "route.recheck.requested"}

Strategies == {"free-first", "standard", "focused"}

(* route is the key of the identity the event carries; normalize_event     *)
(* gives an incomplete identity no key, and a replay gives it a malformed  *)
(* one (Rebuild).                                                          *)
(*                                                                         *)
(* resetAfter = 0 stands for an absent or zero reset_after_ms: the code    *)
(* tests it for truth only.                                                *)
EventRecord ==
    [id : EventIds, type : EVENT_TYPES, at : Nat,
     route : Routes \cup MalformedKeys \cup {None}, goal : Goals \cup {None},
     attempt : Attempts \cup {None},
     reason : ReasonCodes, signal : Categories \cup {None},
     resetAfter : Nat, resetKnown : BOOLEAN,
     strategy : Strategies \cup {None}, freeOnly : BOOLEAN \cup {None}]

(* What normalize_event lets through: a route event has its identity.      *)
Event == {e \in EventRecord : e.type \in ROUTE_EVENTS => e.route \in Routes}

(* What it makes of the deliveries: no key is a malformed one.             *)
Normalized == {e \in Event : e.route \notin MalformedKeys}
=============================================================================
