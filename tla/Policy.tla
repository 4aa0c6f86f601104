------------------------------- MODULE Policy -------------------------------
(***************************************************************************)
(* cmo.route-policy/v2 documents: what validate_policy accepts, and the    *)
(* orders every reader derives from an accepted document.                  *)
(*                                                                         *)
(* Account ids are naturals, so that (priority, id) is an order.  A model  *)
(* is a name with a family, the substring the focused strategies look for. *)
(* The free text of a document (labels, descriptions, thinking, aliases)   *)
(* is left out; `keys` are the names of its top-level members.             *)
(***************************************************************************)
EXTENDS Sorting, SequencesExt

CONSTANTS
    CANONICAL_ROUTES,       \* the ladder of a store where nothing was saved
    CanonicalAccounts,      \* its account registry
    CanonicalDefaults       \* its defaults: DefaultKeys -> Nat

TIER_FREE == "free"
TIER_SUBSCRIPTION == "subscription"
ALLOWED_TIERS == {TIER_FREE, TIER_SUBSCRIPTION}
PROVIDER_CLINE == "cline"
PROVIDER_CLINE_PASS == "cline-pass"

FOCUSED_STRATEGIES == {"muse-flash", "glm-flash", "deepseek-flash"}
FOCUSED_MODEL_MATCH ==
    [s \in FOCUSED_STRATEGIES |->
        CASE s = "muse-flash" -> "muse-spark"
          [] s = "glm-flash"  -> "glm-5.3-flash"
          [] OTHER            -> "deepseek-v4.1-flash"]
ALL_STRATEGIES == {"free-first", "standard"} \cup FOCUSED_STRATEGIES

FORBIDDEN_POLICY_KEYS ==
    {"payg", "pay_as_you_go", "paid", "paid_providers", "allowedTiers"}
REQUIRED_TOP_KEYS == {"schema", "routes", "defaults"}
ALLOWED_TOP_KEYS == REQUIRED_TOP_KEYS \cup
    {"owner", "policyVersion", "neverPayg", "tiers", "accounts", "strategies",
     "failureTaxonomy", "orderRule", "description"}

ACCOUNT_STATUSES ==
    {"tracked", "profile", "signin-needed", "verified", "auth-problem", "disabled"}

RequiredDefaults ==
    {"evidence_ttl_ms", "free_reset_after_ms", "subscription_reset_after_ms",
     "max_transient_retries", "heartbeat_ms", "disconnected_after_ms"}

canonical_policy_document ==
    [keys |-> ALLOWED_TOP_KEYS \ {"orderRule", "description"},
     neverPayg |-> TRUE, strategies |-> ALL_STRATEGIES,
     accounts |-> CanonicalAccounts, routes |-> CANONICAL_ROUTES,
     defaults |-> CanonicalDefaults]

-----------------------------------------------------------------------------
Usable(account) == account.enabled /\ account.status # "disabled"

_validate_accounts(accounts) ==
    /\ accounts # <<>>
    /\ IsInjective([i \in DOMAIN accounts |-> accounts[i].id])
    /\ \A a \in ToSet(accounts) : a.priority >= 0 /\ a.status \in ACCOUNT_STATUSES

ValidRoute(route, known) ==
    /\ route.tier \in ALLOWED_TIERS
    /\ route.provider = IF route.tier = TIER_FREE THEN PROVIDER_CLINE
                        ELSE PROVIDER_CLINE_PASS
    /\ route.accounts # <<>>
    /\ IsInjective(route.accounts)
    /\ ToSet(route.accounts) \subseteq known

ValidDefaults(defaults) ==
    /\ RequiredDefaults \subseteq DOMAIN defaults
    /\ \A k \in RequiredDefaults :
           defaults[k] >= (IF k = "max_transient_retries" THEN 0 ELSE 1)
    /\ "max_enabled_free_models" \in DOMAIN defaults =>
           defaults["max_enabled_free_models"] > 0

(* Slip: the registry of accounts is not consulted for the routes.         *)
validate_policy_Dangling(doc) ==
    /\ REQUIRED_TOP_KEYS \subseteq doc.keys
    /\ doc.keys \subseteq ALLOWED_TOP_KEYS
    /\ doc.neverPayg
    /\ \E a \in ToSet(doc.accounts) : Usable(a)
    /\ ValidDefaults(doc.defaults)
    /\ ALL_STRATEGIES \subseteq doc.strategies

(* TRUE when the code returns the document, FALSE when it raises.          *)
validate_policy(doc) ==
    /\ REQUIRED_TOP_KEYS \subseteq doc.keys
    /\ doc.keys \cap FORBIDDEN_POLICY_KEYS = {}
    /\ doc.keys \subseteq ALLOWED_TOP_KEYS
    /\ doc.neverPayg
    /\ doc.routes # <<>>
    /\ _validate_accounts(doc.accounts)
    /\ \E a \in ToSet(doc.accounts) : Usable(a)
    /\ IsInjective([i \in DOMAIN doc.routes |-> doc.routes[i].model])
    /\ \A r \in ToSet(doc.routes) :
           ValidRoute(r, {a.id : a \in ToSet(doc.accounts)})
    /\ ValidDefaults(doc.defaults)
    /\ ALL_STRATEGIES \subseteq doc.strategies

-----------------------------------------------------------------------------
ByPriority(accounts) ==
    {p \in accounts \X accounts :
        \/ p[1].priority < p[2].priority
        \/ p[1].priority = p[2].priority /\ p[1].id < p[2].id}

(* Enabled account ids in saved priority order (priority, then id).        *)
account_order(doc) ==
    LET usable == {a \in ToSet(doc.accounts) : Usable(a)}
        sorted == Ordered(usable, ByPriority(usable))
    IN  [i \in DOMAIN sorted |-> sorted[i].id]

Rank(order, a) ==
    IF Contains(order, a) THEN CHOOSE i \in DOMAIN order : order[i] = a
    ELSE Len(order) + 1

(* A list of accounts in rank order; sorted() is stable, so those without  *)
(* a rank follow in the order of the list itself.                          *)
Ranked(own, order) ==
    LET places == Ordered(DOMAIN own, ByNumber(DOMAIN own,
                              [k \in DOMAIN own |-> Rank(order, own[k])]))
    IN  [n \in DOMAIN places |-> own[places[n]]]

(* The accounts of each route in rank order.                               *)
RankedAccounts(doc) ==
    [i \in DOMAIN doc.routes |-> Ranked(doc.routes[i].accounts, account_order(doc))]

(* Routes are chosen by their places in the document, whose order they     *)
(* keep: the first max_enabled_free_models free ones, and all others.      *)
Capped(doc, chosen) ==
    LET free(i) == {j \in chosen : j <= i /\ doc.routes[j].tier = TIER_FREE}
    IN  {i \in chosen :
            "max_enabled_free_models" \in DOMAIN doc.defaults
                /\ doc.routes[i].tier = TIER_FREE
                => Cardinality(free(i)) <= doc.defaults["max_enabled_free_models"]}

EnabledRoutes(doc) == {i \in DOMAIN doc.routes : doc.routes[i].enabled}

(* A leg is one route with one of its accounts.                            *)
Leg(account, route) ==
    [account |-> account, model |-> route.model, tier |-> route.tier]

(* The places of legs: a route's, and one in its list of accounts.         *)
LegsOf(chosen, accounts) ==
    UNION {{i} \X DOMAIN accounts[i] : i \in chosen}

LegAt(doc, accounts, place) ==
    Leg(accounts[place[1]][place[2]], doc.routes[place[1]])

(* Slip: an account is tried with every model before the next account.     *)
Expand_AccountMajor(doc, accounts, places) ==
    LET order == Ordered(places, {p \in places \X places :
                     \/ p[1][2] < p[2][2]
                     \/ p[1][2] = p[2][2] /\ p[1][1] < p[2][1]})
    IN  [n \in DOMAIN order |-> LegAt(doc, accounts, order[n])]

(* The legs, model-major: each route with its accounts in turn.            *)
Expand(doc, accounts, places) ==
    LET order == Ordered(places, {p \in places \X places :
                     \/ p[1][1] < p[2][1]
                     \/ p[1][1] = p[2][1] /\ p[1][2] < p[2][2]})
    IN  [n \in DOMAIN order |-> LegAt(doc, accounts, order[n])]

(* Every cell the dashboard and the exports show: enabled routes under the *)
(* cap, each with its enabled accounts only.                               *)
route_cells(doc) ==
    LET accounts == RankedAccounts(doc)
        order == account_order(doc)
    IN  Expand(doc, accounts,
               {p \in LegsOf(Capped(doc, EnabledRoutes(doc)), accounts) :
                    Contains(order, accounts[p[1]][p[2]])})

(* The enabled routes of a strategy.                                       *)
routes_for_strategy(strategy, doc) ==
    {i \in EnabledRoutes(doc) :
        CASE strategy = "standard" -> doc.routes[i].tier = TIER_SUBSCRIPTION
          [] strategy \in FOCUSED_STRATEGIES ->
                 doc.routes[i].family = FOCUSED_MODEL_MATCH[strategy]
          [] OTHER -> TRUE}
=============================================================================
