----------------------------- MODULE MCService ------------------------------
(***************************************************************************)
(* What the service does for its page, at once and in threads: policy      *)
(* edits, catalog refreshes, snapshots and the revision stream, usage      *)
(* checks, resumes and account terminals.                                  *)
(*                                                                         *)
(* The six share no state that a property looks at, so interleaving them   *)
(* shows nothing that each does not show alone: a behaviour picks one of   *)
(* them as its subject and the others rest in their initial states.        *)
(***************************************************************************)
EXTENDS PolicyVersions

CONSTANTS
    Threads,                                        \* request threads
    Models, ServiceRefreshers, CliRefreshers,
    ListBound, catalog_refresh_ms, LastRefresh,     \* Catalog
    Loads, MaxChanges, MaxSaves, MaxRebuilds, MaxDrops, MaxFailures,
    Emails, KeepFor, LongestCheck, LastMinute,      \* AccountUsage
    GoalIds, MaxLaunches,                           \* Resume
    Accounts, Terminals, MaxRestarts                \* AccountSetup

VARIABLES
    subject,
    catalog_now, provider, catalog_models, catalog_last_success_at,
    catalog_last_error_at, refresher, listings,
    tables, revision, unaudited, spent, load, shown, error, live,
    last_revision, announced,
    usage_now, label, saved, usage_cache, usage_request, answer,
    eligible, finished, launch, active_launches, lock, handler, unseen, foreign,
    enabled, agent, auth, terminal, login_processes, login_lock,
    setup_request, clipboard, restarts

Cat == INSTANCE Catalog WITH now <- catalog_now, MaxTime <- LastRefresh
Dash == INSTANCE Dashboard WITH Evidence <- {"routes", "rechecks"},
            ReadOrder <- <<"policy", "routes", "revision", "rechecks">>
Usage == INSTANCE AccountUsage WITH Requests <- Threads, now <- usage_now,
            request <- usage_request, MaxTime <- LastMinute
Res == INSTANCE Resume WITH Handlers <- Threads
Setup == INSTANCE AccountSetup WITH Requests <- Threads,
            request <- setup_request

ASSUME ServiceAssumption ==
    /\ Cat!CatalogAssumption /\ Dash!DashboardAssumption
    /\ Usage!UsageAssumption /\ Res!ResumeAssumption /\ Setup!SetupAssumption

Subjects == {"policies", "catalog", "page", "usage", "resume", "setup"}

-----------------------------------------------------------------------------
(* One account and one free model that the policy starts from, a model the *)
(* provider offers besides, three profiles and ten requests.              *)
MCDefaults ==
    [evidence_ttl_ms |-> 1, free_reset_after_ms |-> 1, heartbeat_ms |-> 1,
     subscription_reset_after_ms |-> 1, max_transient_retries |-> 0,
     disconnected_after_ms |-> 1]

MCAccounts ==
    <<[id |-> 1, enabled |-> TRUE, status |-> "tracked", priority |-> 0,
       profile |-> 11]>>

MCRoutes ==
    <<[model |-> "glm", family |-> "glm-5.3-flash", tier |-> "free",
       provider |-> "cline", accounts |-> <<1>>, enabled |-> TRUE]>>

MCFiles ==
    [p \in {11, 12, 13} |-> [dirs |-> {"profile", "agent"}, auth |-> p = 11]]

Add(id, profile, models) ==
    [op |-> "add", id |-> id, profile |-> profile, models |-> models,
     enabled |-> models # {}, priority |-> IF models = {} THEN 0 ELSE None]
Update(id, profile, status) ==
    [op |-> "update", id |-> id, profile |-> profile, status |-> status,
     enabled |-> None]
Drop(id, detach) == [op |-> "remove", id |-> id, detach |-> detach]

(* A document whose second account maps the profile of the first.          *)
MCShared ==
    [canonical_policy_document EXCEPT !.accounts =
        @ \o <<[id |-> 2, enabled |-> TRUE, status |-> "tracked", priority |-> 1,
                profile |-> 11]>>]

MCRequests ==
    {Add(2, 12, {"glm"}), Add(2, 13, {}), Drop(1, TRUE), Drop(2, FALSE),
     Update(1, 13, None), Update(1, None, "disabled"),
     [op |-> "move", id |-> 1, priority |-> 1], [op |-> "verify", id |-> 1],
     [op |-> "simple", models |-> <<"new", "glm">>],
     [op |-> "post", doc |-> MCShared]}

-----------------------------------------------------------------------------
ServiceInit ==
    /\ subject \in Subjects
    /\ Init /\ Cat!Init /\ Dash!Init /\ Res!Init /\ Usage!Init /\ Setup!Init
    /\ label = CHOOSE e \in Emails : TRUE
    /\ saved.login = label
    /\ subject # "usage" => saved.state = "missing"
    /\ subject # "setup" => \A a \in Accounts : ~enabled[a] /\ ~agent[a]

catalogVars == <<catalog_now, provider, catalog_models, catalog_last_success_at,
                 catalog_last_error_at, refresher, listings>>
pageVars    == <<tables, revision, unaudited, spent, load, shown, error, live,
                 last_revision, announced>>
usageVars   == <<usage_now, label, saved, usage_cache, usage_request, answer>>
resumeVars  == <<eligible, finished, launch, active_launches, lock, handler,
                 unseen, foreign>>
setupVars   == <<enabled, agent, auth, terminal, login_processes, login_lock,
                 setup_request, clipboard, restarts>>

(* Bound: labels and logins change in the first minute only.               *)
UsageNext ==
    /\ Usage!Next
    /\ usage_now = 1 \/ (label' = label /\ saved'.login = saved.login)

(* Policy edits come to an end with MaxVersions; nothing else may stop.    *)
ServiceNext ==
    /\ UNCHANGED subject
    /\ \/ /\ subject = "policies" /\ (Next \/ UNCHANGED vars)
          /\ UNCHANGED <<catalogVars, pageVars, usageVars, resumeVars, setupVars>>
       \/ /\ UNCHANGED vars
          /\ \/ /\ subject = "catalog" /\ Cat!Next
                /\ UNCHANGED <<pageVars, usageVars, resumeVars, setupVars>>
             \/ /\ subject = "page" /\ Dash!Next
                /\ UNCHANGED <<catalogVars, usageVars, resumeVars, setupVars>>
             \/ /\ subject = "usage" /\ UsageNext
                /\ UNCHANGED <<catalogVars, pageVars, resumeVars, setupVars>>
             \/ /\ subject = "resume" /\ Res!Next
                /\ UNCHANGED <<catalogVars, pageVars, usageVars, setupVars>>
             \/ /\ subject = "setup" /\ Setup!Next
                /\ UNCHANGED <<catalogVars, pageVars, usageVars, resumeVars>>

allVars == <<subject, vars, catalogVars, pageVars, usageVars, resumeVars, setupVars>>

ServiceSpec == ServiceInit /\ [][ServiceNext]_allVars

-----------------------------------------------------------------------------
(* The properties of the parts, taken together where they tell one story.  *)

(* Policies, through overlapping edits, rollbacks and crashes: the version *)
(* readers take is the last one saved, every version leaves an account to  *)
(* route to, none but a posted document brings two accounts to one         *)
(* profile, and no version is rewritten.                                   *)
PoliciesStaySound ==
    /\ [](ActiveIsLatest /\ VersionsRoutable /\ SharedProfilesWerePosted)
    /\ HistoryIsAppendOnly

(* Catalog: the rows are those of the last refresh that succeeded and look *)
(* as old as it is, whatever fails, dies or comes late.                    *)
CatalogKeepsItsWord ==
    /\ [](Cat!TypeOK /\ Cat!SeenIsTheLastSuccess /\ Cat!RowsWereListed)
    /\ Cat!OnlyListingsMoveRows

(* Dashboard: no snapshot holds a route row newer than the revision it     *)
(* names; the routes stand for all that is read before the revision.       *)
NothingNewerThanItsRevision == Dash!NothingNewerThanItsRevision

(* AccountUsage: a plan is shown only for the login its label names, was   *)
(* read after a refresh asked for it, and is never older than it may be.   *)
AnswersAreCurrent ==
    /\ Usage!NeverSomeoneElsesPlan
    /\ Usage!RefreshReadsAnew
    /\ Usage!AnswersAreRecent

(* Resume: racing requests start one launcher for a goal, and one router   *)
(* unless another was still starting.                                      *)
LaunchesAreExclusive == Res!OneLauncherPerGoal /\ Res!OneRouterInTheOpen

(* AccountSetup: one of the service's terminals per account, and readiness *)
(* knows of it.                                                            *)
TerminalsAreKnown ==
    Setup!OneTerminalPerAccount /\ Setup!ReadinessKnowsOpenTerminals
=============================================================================
