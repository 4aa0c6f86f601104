---------------------------- MODULE AccountUsage ----------------------------
(***************************************************************************)
(* Plan and usage of one account: account_usage reads the saved access     *)
(* token and asks the provider three times with it; the service keeps each *)
(* result for a while under (alias, profile, label) and renews the token   *)
(* first when the user asks for a refresh.  Cache and network are not      *)
(* under one lock: requests for one account overlap.                       *)
(*                                                                         *)
(* An e-mail address is who a login belongs to, and what a label names.    *)
(* A result that shows an active plan is told from all others, which show  *)
(* none: no sign-in, an expired token, an identity that cannot be read or  *)
(* does not match, no plan, and everything the provider may refuse with.   *)
(***************************************************************************)
EXTENDS Integers

CONSTANTS
    Requests,           \* request threads of the service
    Emails,
    None,
    KeepFor,            \* how long a cached result is served (30 s)
    LongestCheck,       \* bound: renewal and requests, each under a timeout
    MaxTime             \* bound: the clock stops here

UsageAssumption ==
    /\ None \notin Emails
    /\ KeepFor \in Nat \ {0}
    /\ {LongestCheck, MaxTime} \subseteq Nat

VARIABLES
    now,
    label,              \* policy: the e-mail the account is labelled with
    saved,              \* auth.json: [login, state]
    usage_cache,        \* label -> None or [at, result]
    request,            \* request -> [pc, label, renew, since, token, result]
    answer              \* the last answer given: what it showed, and how old

vars == <<now, label, saved, usage_cache, request, answer>>

(* A result: whose active plan it shows, or None, and when it was read.    *)
NoResult == [shows |-> None, readAt |-> 0]
Idle == [pc |-> "idle", label |-> None, renew |-> FALSE, since |-> 0,
         token |-> None, result |-> NoResult]

Init ==
    /\ now = 1
    /\ label \in Emails
    /\ saved \in [login : Emails, state : {"missing", "expired", "current"}]
    /\ usage_cache = [e \in Emails |-> None]
    /\ request = [h \in Requests |-> Idle]
    /\ answer = None

-----------------------------------------------------------------------------
Goto(h, pc) == request' = [request EXCEPT ![h].pc = pc]

(* _result, stamped with checked_at.                                       *)
Finish(h, shows) ==
    request' = [request EXCEPT ![h].pc = "storing",
                               ![h].result = [shows |-> shows, readAt |-> now]]

AnswerWith(l, renew, since, result) ==
    answer' = [label |-> l, shows |-> result.shows, age |-> now - result.readAt,
               stale |-> renew /\ result.readAt < since]

(* Slip: a refresh may be answered from the cache as well.                 *)
Cached_AnyRequest(l, renew) ==
    usage_cache[l] # None /\ now - usage_cache[l].at < KeepFor

(* Slip: a result is kept for ever once it is there.                       *)
Cached_Forever(l, renew) == ~renew /\ usage_cache[l] # None

Cached(l, renew) ==
    ~renew /\ usage_cache[l] # None /\ now - usage_cache[l].at < KeepFor

(* The policy names the label; then the cache is looked up.                *)
Begin(h, renew) ==
    /\ request[h].pc = "idle"
    /\ IF Cached(label, renew)
         THEN /\ AnswerWith(label, renew, now, usage_cache[label].result)
              /\ UNCHANGED request
         ELSE /\ request' = [request EXCEPT ![h] =
                     [Idle EXCEPT !.pc = IF renew THEN "renewing" ELSE "reading",
                                  !.label = label, !.renew = renew, !.since = now]]
              /\ UNCHANGED answer
    /\ UNCHANGED <<now, label, saved, usage_cache>>

(* renew_cline: an expired token is renewed, a current one left alone, and *)
(* it may always fail; a profile that is busy or cannot be renewed is the  *)
(* result.                                                                 *)
Renew(h) ==
    /\ request[h].pc = "renewing"
    /\ \/ /\ saved' = [saved EXCEPT !.state = IF @ = "expired" THEN "current" ELSE @]
          /\ Goto(h, "reading")
       \/ /\ Finish(h, None)
          /\ UNCHANGED saved
    /\ UNCHANGED <<now, label, usage_cache, answer>>

(* The token is read once, and every question is asked with it.            *)
ReadAuth(h) ==
    /\ request[h].pc = "reading"
    /\ IF saved.state = "current"
         THEN request' = [request EXCEPT ![h].pc = "user", ![h].token = saved.login]
         ELSE Finish(h, None)
    /\ UNCHANGED <<now, label, saved, usage_cache, answer>>

(* The provider does not answer, refuses, hides the address, or reports no *)
(* active plan.                                                            *)
ProviderRefuses(h) ==
    /\ request[h].pc \in {"user", "plan"}
    /\ Finish(h, None)
    /\ UNCHANGED <<now, label, saved, usage_cache, answer>>

(* GET users/me: the label must name the address of the login.             *)
FetchUser(h) ==
    /\ request[h].pc = "user"
    /\ request[h].token = request[h].label
    /\ Goto(h, "plan")
    /\ UNCHANGED <<now, label, saved, usage_cache, answer>>

(* GET users/me/plan names a plan, a subscription and a period not over;   *)
(* without them the answer is one of those that show nothing.              *)
FetchPlan(h) ==
    /\ request[h].pc = "plan"
    /\ Goto(h, "limits")
    /\ UNCHANGED <<now, label, saved, usage_cache, answer>>

(* GET users/me/plan/usage-limits: the plan is active whatever it answers. *)
FetchLimits(h) ==
    /\ request[h].pc = "limits"
    /\ Finish(h, request[h].token)
    /\ UNCHANGED <<now, label, saved, usage_cache, answer>>

(* Slip: the result is kept under the label the policy names by now.       *)
Store_CurrentLabel(h) ==
    /\ request[h].pc = "storing"
    /\ usage_cache' = [usage_cache EXCEPT
           ![label] = [at |-> now, result |-> request[h].result]]
    /\ AnswerWith(request[h].label, request[h].renew, request[h].since, request[h].result)
    /\ request' = [request EXCEPT ![h] = Idle]
    /\ UNCHANGED <<now, label, saved>>

(* Whatever came in meanwhile is replaced.                                 *)
Store(h) ==
    /\ request[h].pc = "storing"
    /\ usage_cache' = [usage_cache EXCEPT
           ![request[h].label] = [at |-> now, result |-> request[h].result]]
    /\ AnswerWith(request[h].label, request[h].renew, request[h].since, request[h].result)
    /\ request' = [request EXCEPT ![h] = Idle]
    /\ UNCHANGED <<now, label, saved>>

-----------------------------------------------------------------------------
(* The policy is edited, the profile signed in anew or its token expires.  *)
Relabel(e) ==
    /\ label' = e
    /\ UNCHANGED <<now, saved, usage_cache, request, answer>>

SignIn(e) ==
    /\ saved' = [login |-> e, state |-> "current"]
    /\ UNCHANGED <<now, label, usage_cache, request, answer>>

Expire ==
    /\ saved.state = "current"
    /\ saved' = [saved EXCEPT !.state = "expired"]
    /\ UNCHANGED <<now, label, usage_cache, request, answer>>

Tick ==
    /\ now < MaxTime
    /\ \A h \in Requests : request[h].pc # "idle" => now < request[h].since + LongestCheck
    /\ now' = now + 1
    /\ UNCHANGED <<label, saved, usage_cache, request, answer>>

Next ==
    \/ \E h \in Requests :
          \/ \E renew \in BOOLEAN : Begin(h, renew)
          \/ Renew(h) \/ ReadAuth(h) \/ ProviderRefuses(h) \/ FetchUser(h)
          \/ FetchPlan(h) \/ FetchLimits(h) \/ Store(h)
    \/ \E e \in Emails : Relabel(e) \/ SignIn(e)
    \/ Expire \/ Tick

Spec == Init /\ [][Next]_vars

-----------------------------------------------------------------------------
(* A plan is shown only for the login the label names, whatever the policy *)
(* and the profile become while the provider is asked and while the result *)
(* is kept (test_mismatched_email_never_displays_someone_elses_usage).     *)
NeverSomeoneElsesPlan ==
    answer # None /\ answer.shows # None => answer.shows = answer.label

(* A refresh shows what was read after it was asked for, never what an     *)
(* overlapping request left in the cache (_refresh_account_usage).         *)
RefreshReadsAnew == answer # None => ~answer.stale

(* No answer is older than the cache's keeping time and one check.         *)
AnswersAreRecent == answer # None => answer.age < KeepFor + LongestCheck
=============================================================================
