---------------------------- MODULE AccountSetup ----------------------------
(***************************************************************************)
(* Account setup from the dashboard: the requests that open an onboarding  *)
(* or a sign-in terminal on Windows, the one that copies its command, and  *)
(* the readiness answer.  Requests run in threads; they read the policy    *)
(* and the profile's files first and take login_lock only then.            *)
(*                                                                         *)
(* Terminals are helper scripts outside the source: one may provision the  *)
(* profile, save a sign-in, and be closed, at any time and in that order.  *)
(***************************************************************************)
EXTENDS Integers, FiniteSets

CONSTANTS
    Accounts,
    Requests,           \* request threads of the service
    Terminals,          \* terminals that may be opened
    None,
    MaxRestarts         \* bound: restarts of the service

SetupAssumption ==
    /\ None \notin Requests \cup Terminals \cup Accounts
    /\ MaxRestarts \in Nat

VARIABLES
    enabled,            \* policy: account -> enabled
    agent,              \* account -> its agent directory exists
    auth,               \* account -> "absent", "other" providers, or "cline"
    terminal,           \* terminal -> [account, kind, state, service]
    login_processes,    \* account -> the terminal the service remembers
    login_lock,         \* the request that holds it, or None
    request,            \* request -> [pc, kind, account, terminal]
    clipboard,          \* [account, copied] of the last copy, or None
    restarts

world == <<enabled, agent, auth>>
vars == <<world, terminal, login_processes, login_lock, request, clipboard, restarts>>

Idle == [pc |-> "idle", kind |-> None, account |-> None, terminal |-> None]
Commands == {"provision command", "signin command"}

Unused == [account |-> None, kind |-> None, state |-> "unused", service |-> 0]

Init ==
    /\ enabled \in [Accounts -> BOOLEAN]
    /\ agent \in [Accounts -> BOOLEAN]
    /\ auth = [a \in Accounts |-> "absent"]
    /\ terminal = [t \in Terminals |-> Unused]
    /\ login_processes = [a \in Accounts |-> None]
    /\ login_lock = None
    /\ request = [h \in Requests |-> Idle]
    /\ clipboard = None
    /\ restarts = 0

-----------------------------------------------------------------------------
Open(t) == terminal[t].state = "open"

(* poll(): the remembered process is still running.                        *)
Running(a) == login_processes[a] # None /\ Open(login_processes[a])

Goto(h, pc) == request' = [request EXCEPT ![h].pc = pc]

Answer(h) == request' = [request EXCEPT ![h] = Idle]

(* The policy is read first; an onboarding is for a disabled slot only.    *)
ReadPolicy(h, kind, a) ==
    /\ request[h].pc = "idle"
    /\ kind = "onboard" => ~enabled[a]
    /\ request' = [request EXCEPT ![h] = 
           [Idle EXCEPT !.pc = "registered", !.kind = kind, !.account = a]]
    /\ UNCHANGED <<world, terminal, login_processes, login_lock, clipboard, restarts>>

Eligible(kind, a) ==
    CASE kind = "onboard" -> auth[a] = "absent"
      [] kind = "signin"  -> agent[a] /\ auth[a] # "cline"
      [] kind = "ready"   -> TRUE

ReadProfile(h) ==
    /\ request[h].pc = "registered"
    /\ request[h].kind \notin Commands
    /\ IF Eligible(request[h].kind, request[h].account)
         THEN Goto(h, "checked") ELSE Answer(h)
    /\ UNCHANGED <<world, terminal, login_processes, login_lock, clipboard, restarts>>

(* Slip: the two launch handlers go on without the lock.                   *)
Acquire_Unlocked(h) ==
    /\ request[h].pc = "checked"
    /\ Goto(h, "locked")
    /\ UNCHANGED <<world, terminal, login_processes, login_lock, clipboard, restarts>>

Acquire(h) ==
    /\ request[h].pc = "checked"
    /\ login_lock = None
    /\ login_lock' = h
    /\ Goto(h, "locked")
    /\ UNCHANGED <<world, terminal, login_processes, clipboard, restarts>>

(* Readiness leaves with setup_running; a launch that finds the remembered *)
(* terminal running answers already_open.                                  *)
Poll(h) ==
    /\ request[h].pc = "locked"
    /\ Goto(h, IF request[h].kind = "ready" \/ Running(request[h].account)
                 THEN "leaving" ELSE "launching")
    /\ UNCHANGED <<world, terminal, login_processes, login_lock, clipboard, restarts>>

(* The terminal is opened; whoever asked remembers it next.                *)
Launch(h, t) ==
    /\ request[h].pc = "launching"
    /\ terminal[t].state = "unused"
    /\ terminal' = [terminal EXCEPT ![t] =
           [account |-> request[h].account, kind |-> request[h].kind,
            state |-> "open", service |-> restarts]]
    /\ request' = [request EXCEPT ![h].pc = "launched", ![h].terminal = t]
    /\ UNCHANGED <<world, login_processes, login_lock, clipboard, restarts>>

(* The helper is not installed, or this is not Windows: 503.               *)
LaunchFails(h) ==
    /\ request[h].pc = "launching"
    /\ Goto(h, "leaving")
    /\ UNCHANGED <<world, terminal, login_processes, login_lock, clipboard, restarts>>

(* Slip: only sign-in terminals are remembered.                            *)
Remember_Signin(h) ==
    /\ request[h].pc = "launched"
    /\ login_processes' = IF terminal[request[h].terminal].kind = "signin"
                            THEN [login_processes EXCEPT ![request[h].account] =
                                      request[h].terminal]
                            ELSE login_processes
    /\ Goto(h, "leaving")
    /\ UNCHANGED <<world, terminal, login_lock, clipboard, restarts>>

Remember(h) ==
    /\ request[h].pc = "launched"
    /\ login_processes' = [login_processes EXCEPT
           ![request[h].account] = request[h].terminal]
    /\ Goto(h, "leaving")
    /\ UNCHANGED <<world, terminal, login_lock, clipboard, restarts>>

(* Slip: the lock is kept when the terminal was already open.              *)
Release_UnlessOpen(h) ==
    /\ request[h].pc = "leaving"
    /\ login_lock' = IF request[h].kind \in {"signin", "onboard"} THEN login_lock ELSE None
    /\ Answer(h)
    /\ UNCHANGED <<world, terminal, login_processes, clipboard, restarts>>

Release(h) ==
    /\ request[h].pc = "leaving"
    /\ login_lock' = None
    /\ Answer(h)
    /\ UNCHANGED <<world, terminal, login_processes, clipboard, restarts>>

(* _copy_account_command: the stage asked for must be the one the profile  *)
(* is at; the clipboard is written afterwards and needs no lock.           *)
Stage(a) == IF agent[a] THEN "signin command" ELSE "provision command"

CheckStage(h) ==
    /\ request[h].pc = "registered"
    /\ request[h].kind \in Commands
    /\ IF request[h].kind = Stage(request[h].account)
         THEN Goto(h, "copying") ELSE Answer(h)
    /\ UNCHANGED <<world, terminal, login_processes, login_lock, clipboard, restarts>>

Copy(h) ==
    /\ request[h].pc = "copying"
    /\ clipboard' \in {clipboard, [account |-> request[h].account, copied |-> request[h].kind]}
    /\ Answer(h)
    /\ UNCHANGED <<world, terminal, login_processes, login_lock, restarts>>

-----------------------------------------------------------------------------
(* The helper scripts and the people at the terminals.                     *)
Provision(t) ==
    /\ Open(t) /\ terminal[t].kind = "onboard"
    /\ agent' = [agent EXCEPT ![terminal[t].account] = TRUE]
    /\ agent' # agent
    /\ UNCHANGED <<enabled, auth, terminal, login_processes, login_lock, request,
                   clipboard, restarts>>

SaveSignin(t, saved) ==
    /\ Open(t) /\ agent[terminal[t].account]
    /\ auth[terminal[t].account] # "cline"
    /\ auth' = [auth EXCEPT ![terminal[t].account] = saved]
    /\ UNCHANGED <<enabled, agent, terminal, login_processes, login_lock, request,
                   clipboard, restarts>>

CloseTerminal(t) ==
    /\ Open(t)
    /\ terminal' = [terminal EXCEPT ![t].state = "closed"]
    /\ UNCHANGED <<world, login_processes, login_lock, request, clipboard, restarts>>

Toggle(a) ==
    /\ enabled' = [enabled EXCEPT ![a] = ~@]
    /\ UNCHANGED <<agent, auth, terminal, login_processes, login_lock, request,
                   clipboard, restarts>>

(* The service restarts; the terminals it opened stay.                     *)
Restart ==
    /\ restarts < MaxRestarts
    /\ restarts' = restarts + 1
    /\ login_processes' = [a \in Accounts |-> None]
    /\ login_lock' = None
    /\ request' = [h \in Requests |-> Idle]
    /\ UNCHANGED <<world, terminal, clipboard>>

Step(h) ==
    \/ ReadProfile(h) \/ Acquire(h) \/ Poll(h) \/ LaunchFails(h)
    \/ Remember(h) \/ Release(h) \/ CheckStage(h) \/ Copy(h)
    \/ \E t \in Terminals : Launch(h, t)

Next ==
    \/ \E h \in Requests :
          \/ \E kind \in {"onboard", "signin", "ready"} \cup Commands, a \in Accounts :
                ReadPolicy(h, kind, a)
          \/ Step(h)
    \/ \E t \in Terminals :
          \/ Provision(t)
          \/ \E saved \in {"other", "cline"} : SaveSignin(t, saved)
          \/ CloseTerminal(t)
    \/ \E a \in Accounts : Toggle(a)
    \/ Restart

Spec == Init /\ [][Next]_vars

(* Every request thread runs on; the lock is handed on to every waiter.    *)
FairSpec == Spec /\ \A h \in Requests : WF_vars(Step(h)) /\ SF_vars(Acquire(h))

-----------------------------------------------------------------------------
(* The terminals open for an account that this run of the service started. *)
OpenFor(a) ==
    {t \in Terminals : Open(t) /\ terminal[t].account = a /\ terminal[t].service = restarts}

(* However requests for one account overlap, the service has at most one   *)
(* of its terminals open for it: two would sign in to one profile at once  *)
(* (_start_account_onboarding, _start_account_signin).                     *)
OneTerminalPerAccount == \A a \in Accounts : Cardinality(OpenFor(a)) <= 1

(* setup_running of the readiness answer: whenever the lock is free, what  *)
(* the service remembers is what it has open (_simple_account_readiness).  *)
ReadinessKnowsOpenTerminals ==
    login_lock = None => \A a \in Accounts : Running(a) <=> OpenFor(a) # {}

(* No request waits for the lock for good, whatever terminals do.          *)
RequestsAreAnswered ==
    \A h \in Requests : request[h].pc # "idle" ~> request[h].pc = "idle"

-----------------------------------------------------------------------------
(* Promises of the repository that the code breaks: TLC finds each of      *)
(* these violated (README, Divergences).                                   *)

(* "Pi sign-in already saved; refresh setup": no sign-in terminal is       *)
(* opened over a saved sign-in (_start_account_signin).                    *)
NoSigninOverSavedLogin ==
    [][\A t \in Terminals :
           terminal'[t].kind = "signin" /\ terminal[t].state = "unused"
               => auth[terminal'[t].account] # "cline"]_terminal

(* "provision then authenticate one disabled registered slot".             *)
OnboardsDisabledSlots ==
    [][\A t \in Terminals :
           terminal'[t].kind = "onboard" /\ terminal[t].state = "unused"
               => ~enabled[terminal'[t].account]]_terminal
=============================================================================
