------------------------------ MODULE Decision ------------------------------
(***************************************************************************)
(* DecisionEngine.decide and the cell of the snapshot that shows the same  *)
(* leg: pure operators on the active policy, the route_state table, the    *)
(* overrides in the table and the catalog.                                 *)
(*                                                                         *)
(* A route row is the one RouteProjection writes; Routes is the set of     *)
(* legs.  The catalog is the pair of a freshness flag and the models it    *)
(* lists as unavailable.                                                   *)
(***************************************************************************)
EXTENDS Policy, RouteProjection

(* An override in force: FORCE_SKIP rows that have no expiry or a later    *)
(* one than now.                                                           *)
InForce(o, now) == o.expires = None \/ o.expires > now

Skips(overrides, now) == {o.route : o \in {x \in overrides : InForce(x, now)}}

(* AVAILABLE ages to STALE; every other state is taken as stored.          *)
_effective_state(row, doc, now) ==
    IF row.state = "AVAILABLE"
       /\ now - row.changedAt > doc.defaults["success_ttl_ms"]
      THEN "STALE" ELSE row.state

(* Slip: a reset that is due at this instant is still waited for.          *)
QuotaExpired_Late(row, now) ==
    row.resetAfter # 0 /\ now > row.changedAt + row.resetAfter

(* Slip: only a reset the provider named is ever due.                      *)
QuotaExpired_KnownOnly(row, now) ==
    row.resetKnown = TRUE /\ now >= row.changedAt + row.resetAfter

(* Known or not, the window counts from the quota evidence.                *)
QuotaExpired(row, now) ==
    row.resetAfter # 0 /\ now >= row.changedAt + row.resetAfter

(* Slip: the override is looked for after the evidence.                    *)
Answer_EvidenceFirst(leg, rows, skips, catalog, doc, now) ==
    IF rows[leg] # None /\ rows[leg].state = "AVAILABLE"
      THEN [action |-> "LAUNCH", reason |-> "verified.launch"]
    ELSE IF leg \in skips
      THEN [action |-> "SKIP", reason |-> "manual.override"]
      ELSE [action |-> "PROBE", reason |-> "unknown.probe"]

(* The body of decide's loop: what one leg answers.                        *)
Answer(leg, rows, skips, catalog, doc, now) ==
    LET row == rows[leg]
        state == IF row = None THEN "NO-ROW" ELSE _effective_state(row, doc, now)
        Says(action, reason) == [action |-> action, reason |-> reason]
    IN  IF leg \in skips THEN Says("SKIP", "manual.override") ELSE
        CASE state = "NO-ROW" -> Says("PROBE", "unknown.probe")
          [] state = "AVAILABLE" -> Says("LAUNCH", "verified.launch")
          [] state = "QUOTA" ->
               IF QuotaExpired(row, now) THEN Says("PROBE", "quota.reset_unknown")
               ELSE Says("SKIP", "quota.confirmed")
          [] state = "TRANSIENT" ->
               Says(IF row.retries < doc.defaults["max_transient_retries"]
                      THEN "LAUNCH" ELSE "SKIP", "transient.failure")
          [] state = "AUTH_BLOCKED" -> Says("SKIP", "auth.required")
          [] state = "CAPABILITY_UNAVAILABLE" ->
               Says("SKIP", "capability.not_offered")
          [] state = "PROBING" -> Says("SKIP", "probe.in_flight")
          [] state \in {"UNKNOWN", "STALE"} ->
               IF catalog.fresh /\ leg.model \in catalog.unavailable
                 THEN Says("SKIP", "capability.not_offered")
                 ELSE Says("PROBE", IF state = "STALE" THEN "stale.probe"
                                    ELSE "unknown.probe")

(* Slip: the free-only filter is applied to nothing.                       *)
Candidates_Paying(strategy, freeOnly, doc) ==
    LET accounts == RankedAccounts(doc)
    IN  Expand(doc, accounts,
               LegsOf(Capped(doc, routes_for_strategy(strategy, doc)), accounts))

(* The legs decide walks: the strategy's routes, the free ones only when   *)
(* asked, then the cap; each with its ranked accounts and, after them, the *)
(* ones without a rank.                                                    *)
Candidates(strategy, freeOnly, doc) ==
    LET accounts == RankedAccounts(doc)
        asked == {i \in routes_for_strategy(strategy, doc) :
                      freeOnly => doc.routes[i].tier = TIER_FREE}
    IN  Expand(doc, accounts, LegsOf(Capped(doc, asked), accounts))

Blocked(reason) == [action |-> "BLOCKED", reason |-> reason, leg |-> None]

(* The first of the candidates that is not skipped.                        *)
decide(legs, rows, skips, strategy, freeOnly, catalog, doc, now) ==
    LET answers == [i \in DOMAIN legs |->
                        Answer(legs[i], rows, skips, catalog, doc, now)]
        chosen(a) == a.action # "SKIP"
        first == SelectInSeq(answers, chosen)
    IN  IF strategy = "standard" /\ freeOnly
          THEN Blocked("free_only.blocks_subscription")
        ELSE IF first = 0 THEN Blocked("routes.exhausted")
        ELSE [action |-> answers[first].action,
              reason |-> answers[first].reason, leg |-> legs[first]]

-----------------------------------------------------------------------------
(* Slip: the time-to-live of the evidence is not folded in.                *)
_build_cell_Stored(leg, rows, skips, catalog, doc, now) ==
    IF leg \in skips THEN "FORCE_SKIP"
    ELSE IF rows[leg] = None THEN "UNKNOWN" ELSE rows[leg].state

(* The state a cell displays for a leg.                                    *)
_build_cell(leg, rows, skips, catalog, doc, now) ==
    LET row == rows[leg]
        state == IF row = None THEN "UNKNOWN" ELSE row.state
    IN  IF leg \in skips THEN "FORCE_SKIP" ELSE
        CASE state = "UNKNOWN" ->
               IF catalog.fresh /\ leg.model \in catalog.unavailable
                 THEN "CAPABILITY_UNAVAILABLE" ELSE "UNKNOWN"
          [] state = "AVAILABLE" ->
               IF now - row.changedAt > doc.defaults["evidence_ttl_ms"]
                 THEN "STALE" ELSE "AVAILABLE"
          [] state = "QUOTA" ->
               IF row.resetAfter # 0 /\ now >= row.changedAt + row.resetAfter
                 THEN "QUOTA_EXPIRED" ELSE "QUOTA"
          [] OTHER -> state
=============================================================================
