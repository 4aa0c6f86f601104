------------------------------- MODULE Resume -------------------------------
(***************************************************************************)
(* The supervised resume of a saved goal: POST /api/simple/resume takes a  *)
(* snapshot for the route decision and then, under RESUME_LOCK, looks at   *)
(* its own launches, the saved session and the running routers before it   *)
(* starts the launcher.  Each look is a step of its own; launchers,        *)
(* routers, goals and a person at a shell go on between the steps.         *)
(*                                                                         *)
(* A launch is the launcher process, which starts the router (the process  *)
(* that _no_competing_router counts) and exits once the goal shook hands,  *)
(* and the router, which outlives it.                                      *)
(***************************************************************************)
EXTENDS Naturals, FiniteSets

CONSTANTS
    GoalIds,            \* goals with a telemetry record of the pilot
    Handlers,           \* request threads of the service
    MaxLaunches,        \* bound: launchers ever started
    None

ResumeAssumption == MaxLaunches \in Nat /\ None \notin GoalIds \cup Handlers \cup Nat

LaunchIds == 1..MaxLaunches

VARIABLES
    eligible,           \* goals whose snapshot decides PROBE or LAUNCH, free-only
    finished,           \* goals whose session file says completed or failed
    launch,             \* LaunchIds -> [goal, launcher, router]
    active_launches,    \* ACTIVE_LAUNCHES: goal -> launch id or None
    lock,               \* RESUME_LOCK: its holder or None
    handler,            \* Handlers -> [pc, goal]
    unseen,             \* for the properties: the routers were counted
                        \* while a launcher had not started its own yet
    foreign             \* for the properties: a launcher was started at a
                        \* shell, or ran when the service restarted

vars == <<eligible, finished, launch, active_launches, lock, handler, unseen, foreign>>

NoLaunch == [goal |-> None, launcher |-> "none", router |-> "none"]
Idle == [pc |-> "idle", goal |-> None]

Init ==
    /\ eligible = GoalIds
    /\ finished = {}
    /\ launch = [n \in LaunchIds |-> NoLaunch]
    /\ active_launches = [g \in GoalIds |-> None]
    /\ lock = None
    /\ handler = [h \in Handlers |-> Idle]
    /\ unseen = FALSE
    /\ foreign = FALSE

-----------------------------------------------------------------------------
Routers == {n \in LaunchIds : launch[n].router = "up"}
Starting == {n \in LaunchIds : launch[n].launcher = "running" /\ launch[n].router = "none"}

LauncherOf(g) ==
    IF active_launches[g] = None THEN "none" ELSE launch[active_launches[g]].launcher

-----------------------------------------------------------------------------
(* request_resume.                                                         *)

Goto(h, pc) == handler' = [handler EXCEPT ![h].pc = pc]

(* Slip: a check that refuses returns without releasing the lock.          *)
Reject_Holding(h) ==
    /\ handler' = [handler EXCEPT ![h] = Idle]
    /\ UNCHANGED <<eligible, finished, launch, active_launches, lock, unseen, foreign>>

Reject(h) ==
    /\ handler' = [handler EXCEPT ![h] = Idle]
    /\ lock' = None
    /\ UNCHANGED <<eligible, finished, launch, active_launches, unseen, foreign>>

(* _resume_goal: the decision is taken from a snapshot, before the lock.   *)
Decide(h, g) ==
    /\ handler[h].pc = "idle"
    /\ g \in eligible
    /\ handler' = [handler EXCEPT ![h] = [pc |-> "decided", goal |-> g]]
    /\ UNCHANGED <<eligible, finished, launch, active_launches, lock, unseen, foreign>>

(* Slip: the checks are made without the lock.                             *)
Acquire_Unlocked(h) ==
    /\ handler[h].pc = "decided"
    /\ Goto(h, "locked")
    /\ UNCHANGED <<eligible, finished, launch, active_launches, lock, unseen, foreign>>

Acquire(h) ==
    /\ handler[h].pc = "decided"
    /\ lock = None
    /\ lock' = h
    /\ Goto(h, "locked")
    /\ UNCHANGED <<eligible, finished, launch, active_launches, unseen, foreign>>

CheckLaunches(h) ==
    /\ handler[h].pc = "locked"
    /\ IF LauncherOf(handler[h].goal) = "running" THEN Reject(h)
       ELSE /\ Goto(h, "unlaunched")
            /\ UNCHANGED <<eligible, finished, launch, active_launches, lock, unseen, foreign>>

CheckSession(h) ==
    /\ handler[h].pc = "unlaunched"
    /\ IF handler[h].goal \in finished THEN Reject(h)
       ELSE /\ Goto(h, "resumable")
            /\ UNCHANGED <<eligible, finished, launch, active_launches, lock, unseen, foreign>>

(* Slip: a process list that cannot be read counts as empty.               *)
CheckRouters_FailOpen(h) ==
    /\ handler[h].pc = "resumable"
    /\ \/ Routers # {} /\ Reject(h)
       \/ /\ Goto(h, "clear")
          /\ unseen' = (unseen \/ Starting # {})
          /\ UNCHANGED <<eligible, finished, launch, active_launches, lock, foreign>>

(* _no_competing_router: the count is taken, or cannot be and is refused.  *)
CheckRouters(h) ==
    /\ handler[h].pc = "resumable"
    /\ \/ Reject(h)
       \/ /\ Routers = {}
          /\ Goto(h, "clear")
          /\ unseen' = (unseen \/ Starting # {})
          /\ UNCHANGED <<eligible, finished, launch, active_launches, lock, foreign>>

StartedAs(n, g) ==
    /\ launch[n] = NoLaunch
    /\ launch' = [launch EXCEPT ![n] = [goal |-> g, launcher |-> "running", router |-> "none"]]

(* Popen returns, or raises and the request is refused.                    *)
Launch(h) ==
    /\ handler[h].pc = "clear"
    /\ \/ /\ \E n \in LaunchIds :
                /\ \A m \in 1..(n - 1) : launch[m] # NoLaunch
                /\ StartedAs(n, handler[h].goal)
                /\ active_launches' = [active_launches EXCEPT ![handler[h].goal] = n]
          /\ handler' = [handler EXCEPT ![h] = Idle]
          /\ lock' = None
          /\ UNCHANGED <<eligible, finished, unseen, foreign>>
       \/ Reject(h)

-----------------------------------------------------------------------------
(* The rest of the machine.                                                *)

ShellLaunch(n, g) ==
    /\ \A m \in 1..(n - 1) : launch[m] # NoLaunch
    /\ launch[n] = NoLaunch
    /\ launch' = [launch EXCEPT ![n] = [goal |-> g, launcher |-> "running", router |-> "none"]]
    /\ foreign' = TRUE
    /\ UNCHANGED <<eligible, finished, active_launches, lock, handler, unseen>>

RouterUp(n) ==
    /\ n \in Starting
    /\ launch' = [launch EXCEPT ![n].router = "up"]
    /\ UNCHANGED <<eligible, finished, active_launches, lock, handler, unseen, foreign>>

RouterDown(n) ==
    /\ n \in Routers
    /\ launch' = [launch EXCEPT ![n].router = "down"]
    /\ UNCHANGED <<eligible, finished, active_launches, lock, handler, unseen, foreign>>

(* The launcher ends: well once the router is there, or having failed.     *)
LauncherExits(n) ==
    /\ launch[n].launcher = "running"
    /\ \/ launch[n].router # "none" /\ launch' = [launch EXCEPT ![n].launcher = "exited"]
       \/ launch' = [launch EXCEPT ![n].launcher = "failed"]
    /\ UNCHANGED <<eligible, finished, active_launches, lock, handler, unseen, foreign>>

GoalFinishes(n) ==
    /\ n \in Routers
    /\ finished' = finished \cup {launch[n].goal}
    /\ UNCHANGED <<eligible, launch, active_launches, lock, handler, unseen, foreign>>

EvidenceChanges(g) ==
    /\ eligible' = IF g \in eligible THEN eligible \ {g} ELSE eligible \cup {g}
    /\ UNCHANGED <<finished, launch, active_launches, lock, handler, unseen, foreign>>

(* A new service process has an empty ACTIVE_LAUNCHES; launchers live on.  *)
Restart ==
    /\ active_launches' = [g \in GoalIds |-> None]
    /\ lock' = None
    /\ handler' = [h \in Handlers |-> Idle]
    /\ foreign' = (foreign \/ \E n \in LaunchIds : launch[n].launcher = "running")
    /\ UNCHANGED <<eligible, finished, launch, unseen>>

Step(h) ==
    Acquire(h) \/ CheckLaunches(h) \/ CheckSession(h) \/ CheckRouters(h) \/ Launch(h)

Next ==
    \/ \E h \in Handlers : Step(h) \/ \E g \in GoalIds : Decide(h, g)
    \/ \E n \in LaunchIds :
          \/ \E g \in GoalIds : ShellLaunch(n, g)
          \/ RouterUp(n) \/ RouterDown(n) \/ LauncherExits(n) \/ GoalFinishes(n)
    \/ \E g \in GoalIds : EvidenceChanges(g)
    \/ Restart

(* A request thread runs on: every wait inside the lock has a timeout.     *)
Spec == Init /\ [][Next]_vars /\ \A h \in Handlers : WF_vars(Step(h))

-----------------------------------------------------------------------------
(* Requests that race for one goal never have two launchers running for it *)
(* unless one was started at a shell or outlived a restart (RESUME_LOCK    *)
(* and ACTIVE_LAUNCHES).                                                   *)
OneLauncherPerGoal ==
    ~foreign => \A n, m \in LaunchIds :
        launch[n].goal = launch[m].goal /\ launch[n].launcher = "running"
            /\ launch[m].launcher = "running" => n = m

(* A second router needs a launch the process list did not show: as long   *)
(* as the routers are never counted while a launch is starting, there is   *)
(* at most one, though a check may fail and launches follow each other.    *)
OneRouterInTheOpen == ~unseen /\ ~foreign => Cardinality(Routers) <= 1

(* The lock comes free again and again, whichever check refuses.           *)
LockIsReleased == []<>(lock = None)

-----------------------------------------------------------------------------
(* Promises of the repository that the code breaks: TLC finds each of      *)
(* these violated (README, Divergences).                                   *)

(* "A Shiftio Pi router is already running; no duplicate was started"      *)
(* (_no_competing_router): with every launch made through the service, no  *)
(* second router comes up.                                                 *)
NoDuplicateRouter == ~foreign => Cardinality(Routers) <= 1

(* "Saved Goal lineage or resumable status does not match" (_saved_goal):  *)
(* no launcher is started for a goal that has finished.                    *)
OnlyResumableGoalsLaunch ==
    [][\A n \in LaunchIds :
          launch[n] = NoLaunch /\ launch'[n] # NoLaunch /\ lock # None
              => launch'[n].goal \notin finished]_vars
=============================================================================
