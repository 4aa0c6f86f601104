---------------------------- MODULE AccountEdits ----------------------------
(***************************************************************************)
(* What the dashboard's policy requests make of a policy document: the     *)
(* account operations of _mutate_account, the free-model list of           *)
(* _save_simple_models, and the audit events _policy_diff derives from two *)
(* documents.  Pure operators; Refused stands for every 4xx answer that    *)
(* leaves the store alone.                                                 *)
(***************************************************************************)
EXTENDS Policy

CONSTANTS
    MAX_ACCOUNTS,           \* accounts an add may bring the registry to (5)
    SIMPLE_CAP,             \* max_enabled_free_models of the simple list (4)
    None

Refused == [refused |-> TRUE]

Ids(doc) == {a.id : a \in ToSet(doc.accounts)}

AccountOf(doc, id) == CHOOSE a \in ToSet(doc.accounts) : a.id = id

Siblings(doc, id) == {a.profile : a \in {b \in ToSet(doc.accounts) : b.id # id}}

ModelsOf(doc) == {r.model : r \in ToSet(doc.routes)}

Attached(doc, id) == {r.model : r \in {x \in ToSet(doc.routes) :
                                           Contains(x.accounts, id)}}

(* The account keeps its place in the list.                                *)
WithAccount(doc, account) ==
    [doc EXCEPT !.accounts = [i \in DOMAIN @ |->
        IF @[i].id = account.id THEN account ELSE @[i]]]

(* Every route replaced by its edited form; edited is a function of routes.*)
OnRoutes(doc, edited) ==
    [doc EXCEPT !.routes = [i \in DOMAIN @ |-> edited[@[i]]]]

(* Every edit is validated as a whole before anything is saved.            *)
Checked(doc) == IF validate_policy(doc) THEN doc ELSE Refused

-----------------------------------------------------------------------------
(* Slip: a profile another account already maps is accepted.               *)
AddAccount_Shared(doc, id, profile, models, enabled, priority) ==
    IF id \in Ids(doc) THEN Refused
    ELSE [doc EXCEPT !.accounts = Append(@,
             [id |-> id, enabled |-> enabled, status |-> "tracked",
              priority |-> Len(@), profile |-> profile])]

(* add: without a priority in the request (None), the account comes last.  *)
AddAccount(doc, id, profile, models, enabled, priority) ==
    LET next == 1 + Max({a.priority : a \in ToSet(doc.accounts)})
        attach == [r \in ToSet(doc.routes) |->
                      IF r.model \in models /\ ~Contains(r.accounts, id)
                        THEN [r EXCEPT !.accounts = Append(@, id)] ELSE r]
    IN  IF \/ Len(doc.accounts) >= MAX_ACCOUNTS
           \/ id \in Ids(doc)
           \/ profile \in Siblings(doc, id)
           \/ ~(models \subseteq ModelsOf(doc))
          THEN Refused
          ELSE Checked(OnRoutes([doc EXCEPT !.accounts = Append(@,
                   [id |-> id, enabled |-> enabled, status |-> "tracked",
                    priority |-> IF priority = None THEN next ELSE priority,
                    profile |-> profile])], attach))

(* update: any of profile, status, enabled and priority; None leaves one   *)
(* alone.  A request for the status "verified" is refused; a verified      *)
(* account that changes its profile stays verified.                        *)
UpdateAccount(doc, id, profile, status, enabled, priority) ==
    LET new(value, old) == IF value = None THEN old ELSE value
        before == AccountOf(doc, id)
        after == [before EXCEPT !.profile = new(profile, @),
                                !.status = new(status, @),
                                !.enabled = new(enabled, @),
                                !.priority = new(priority, @)]
    IN  IF \/ id \notin Ids(doc)
           \/ status = "verified"
           \/ after.profile \in Siblings(doc, id)
          THEN Refused
          ELSE Checked(WithAccount(doc, after))

MoveAccount(doc, id, priority) ==
    IF id \notin Ids(doc) THEN Refused
    ELSE Checked(WithAccount(doc, [AccountOf(doc, id) EXCEPT !.priority = priority]))

(* remove: an attached account goes only when its routes are detached too. *)
(* (No two accounts of an accepted policy have the same id.)               *)
RemoveAccount(doc, id, detach) ==
    LET place == CHOOSE i \in DOMAIN doc.accounts : doc.accounts[i].id = id
        detached == [r \in ToSet(doc.routes) |->
                        IF detach THEN [r EXCEPT !.accounts = Remove(@, id)] ELSE r]
    IN  IF \/ id \notin Ids(doc)
           \/ Attached(doc, id) # {} /\ ~detach
          THEN Refused
          ELSE Checked(OnRoutes([doc EXCEPT !.accounts = RemoveAt(@, place)],
                                detached))

(* verify: the account gets the status the files of its profile show.      *)
VerifyAccount(doc, id, found) ==
    IF \/ id \notin Ids(doc)
       \/ AccountOf(doc, id).profile \in Siblings(doc, id)
      THEN Refused
      ELSE Checked(WithAccount(doc, [AccountOf(doc, id) EXCEPT !.status = found]))

(* _profile_check: which of the profile's directories and files exist.     *)
_profile_check(dirs, auth) ==
    CASE "agent" \in dirs /\ auth  -> "verified"
      [] "agent" \in dirs /\ ~auth -> "signin-needed"
      [] dirs = {"profile"}        -> "profile"
      [] OTHER                     -> "tracked"

-----------------------------------------------------------------------------
NewFreeRoute(doc, model) ==
    [model |-> model, family |-> "other", tier |-> TIER_FREE,
     provider |-> PROVIDER_CLINE, enabled |-> TRUE,
     accounts |-> [i \in DOMAIN doc.accounts |-> doc.accounts[i].id]]

(* The chosen free models in order, enabled; then the other free routes,   *)
(* disabled; then the subscription routes as they were.                    *)
FreeModels(doc) == {r.model : r \in {x \in ToSet(doc.routes) : x.tier = TIER_FREE}}

SimpleRoutes(doc, models) ==
    LET paid(r) == r.tier # TIER_FREE
        others(r) == r.tier = TIER_FREE /\ ~Contains(models, r.model)
        rest == SelectSeq(doc.routes, others)
        chosen == [i \in DOMAIN models |->
            IF models[i] \in FreeModels(doc)
              THEN [(CHOOSE r \in ToSet(doc.routes) : r.model = models[i])
                        EXCEPT !.enabled = TRUE]
              ELSE NewFreeRoute(doc, models[i])]
        unchosen == [i \in DOMAIN rest |-> [rest[i] EXCEPT !.enabled = FALSE]]
    IN  chosen \o unchosen \o SelectSeq(doc.routes, paid)

(* _save_simple_models: a model the policy does not know must be offered   *)
(* by the provider.                                                        *)
SimpleModels(doc, models, offered) ==
    IF \/ models = <<>> \/ Len(models) > SIMPLE_CAP
       \/ ~IsInjective(models)
       \/ ~((ToSet(models) \ FreeModels(doc)) \subseteq offered)
      THEN Refused
      ELSE Checked([doc EXCEPT
               !.routes = SimpleRoutes(doc, models),
               !.defaults = ("max_enabled_free_models" :> SIMPLE_CAP) @@ @])

(* _catalog_gate: once the catalog has a row, a model that is new to the   *)
(* policy must be among them, however old the rows are.                    *)
_catalog_gate(doc, current, listed) ==
    \/ listed = {}
    \/ ModelsOf(doc) \subseteq ModelsOf(current) \cup listed

(* _policy_diff: one audit event per account added, removed or changed.    *)
_policy_diff(old, new) ==
    {[type |-> "account.added", account |-> id] : id \in Ids(new) \ Ids(old)}
    \cup
    {[type |-> "account.removed", account |-> id] : id \in Ids(old) \ Ids(new)}
    \cup
    {[type |-> "account.updated", account |-> id] :
         id \in {i \in Ids(old) \cap Ids(new) : AccountOf(old, i) # AccountOf(new, i)}}
=============================================================================
