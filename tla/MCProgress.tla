----------------------------- MODULE MCProgress -----------------------------
(***************************************************************************)
(* What has to go on happening in the service: locks come free, requests   *)
(* are answered and the page comes to show the store.                      *)
(*                                                                         *)
(* The renewal of a credential, the resume of a goal, the account          *)
(* terminals and the page share no state, so a behaviour picks one of them *)
(* as its subject and the others rest; fairness is asked of the subject's  *)
(* actions only, as a resting component takes none.                        *)
(***************************************************************************)
EXTENDS Renewal, TLC

CONSTANTS
    Threads,                            \* request threads
    GoalIds, MaxLaunches,               \* Resume
    Accounts, Terminals, MaxRestarts,   \* AccountSetup
    Loads, MaxChanges, MaxSaves, MaxRebuilds, MaxDrops, MaxFailures

VARIABLES
    subject,
    eligible, finished, launch, active_launches, resume_lock, handler, unseen,
    foreign,
    enabled, agent, auth, terminal, login_processes, login_lock, request,
    clipboard, restarts,
    tables, revision, unaudited, spent, load, shown, error, live,
    last_revision, announced

Res == INSTANCE Resume WITH Handlers <- Threads, lock <- resume_lock
Setup == INSTANCE AccountSetup WITH Requests <- Threads
Dash == INSTANCE Dashboard WITH Evidence <- {"routes"},
            ReadOrder <- <<"policy", "routes", "revision">>

ASSUME ProgressAssumption ==
    Res!ResumeAssumption /\ Setup!SetupAssumption /\ Dash!DashboardAssumption

resumeVars == <<eligible, finished, launch, active_launches, resume_lock,
                handler, unseen, foreign>>
setupVars  == <<enabled, agent, auth, terminal, login_processes, login_lock,
                request, clipboard, restarts>>
pageVars   == <<tables, revision, unaudited, spent, load, shown, error, live,
                last_revision, announced>>
allVars    == <<subject, vars, resumeVars, setupVars, pageVars>>

ProgressInit ==
    /\ subject \in {"renewal", "resume", "setup", "page"}
    /\ Init /\ Res!Init /\ Setup!Init /\ Dash!Init
    /\ subject # "setup" => \A a \in Accounts : ~enabled[a] /\ ~agent[a]

ProgressNext ==
    /\ UNCHANGED subject
    /\ \/ subject = "renewal" /\ Next /\ UNCHANGED <<resumeVars, setupVars, pageVars>>
       \/ subject = "resume" /\ Res!Next /\ UNCHANGED <<vars, setupVars, pageVars>>
       \/ subject = "setup" /\ Setup!Next /\ UNCHANGED <<vars, resumeVars, pageVars>>
       \/ subject = "page" /\ Dash!Next /\ UNCHANGED <<vars, resumeVars, setupVars>>

(* The fairness each part states, of the part that is not at rest.         *)
RenewalFairness ==
    /\ \A u \in Users : WF_vars(subject = "renewal" /\ Step(u))
    /\ WF_vars(subject = "renewal" /\ PiLeaves)
    /\ WF_vars(subject = "renewal" /\ PiClearsOrphan)

ResumeFairness == \A h \in Threads : WF_resumeVars(subject = "resume" /\ Res!Step(h))

SetupFairness ==
    \A h \in Threads :
        /\ WF_setupVars(subject = "setup" /\ Setup!Step(h))
        /\ SF_setupVars(subject = "setup" /\ Setup!Acquire(h))

PageFairness ==
    /\ \A l \in Loads :
          /\ WF_pageVars(subject = "page" /\ Dash!ReadTable(l))
          /\ WF_pageVars(subject = "page" /\ Dash!ReadRevision(l))
          /\ WF_pageVars(subject = "page" /\ Dash!Receive(l))
    /\ WF_pageVars(subject = "page" /\ \E l \in Loads : Dash!TimerLoad(l))
    /\ WF_pageVars(subject = "page" /\ Dash!Announce)
    /\ WF_pageVars(subject = "page" /\ Dash!Hear)

ProgressSpec ==
    /\ ProgressInit /\ [][ProgressNext]_allVars
    /\ RenewalFairness /\ ResumeFairness /\ SetupFairness /\ PageFairness

-----------------------------------------------------------------------------
(* The properties of the parts, taken together where they tell one story.  *)

(* The lock directory of a profile and RESUME_LOCK come free again and     *)
(* again, and no request waits for login_lock for good, whatever fails.    *)
LocksComeFree ==
    LockIsReleased /\ Res!LockIsReleased /\ Setup!RequestsAreAnswered

(* A page whose stream stays down shows the store again and again, and a   *)
(* stream that stays up announces the revision the store comes to rest at. *)
PageKeepsUp ==
    /\ subject = "page" => Dash!PollingConverges
    /\ Dash!FinalRevisionIsAnnounced
=============================================================================
