--------------------------- MODULE WorkProjection ---------------------------
(***************************************************************************)
(* The goals and attempts tables: which pieces of work exist, what their   *)
(* producers last said of them and which attempts served them.  Neither    *)
(* table has a lateness test: events apply in the order they arrive.       *)
(***************************************************************************)
EXTENDS Evidence

GoalRow == [status : Statuses, strategy : Strategies, effective : Strategies,
            freeOnly : BOOLEAN, attempts : Nat, activityAt : Nat]

ASSUME GoalRowAssumption == None \notin GoalRow

GoalTable == [Goals -> GoalRow \cup {None}]

AttemptRow == [status : {"running", "completed"}, goal : Goals \cup {None},
               route : Routes, heartbeatAt : Nat]

AttemptTable == [Attempts -> AttemptRow \cup {None}]

-----------------------------------------------------------------------------
(* _ensure_goal: any event that names an unknown goal creates it active.   *)
NewGoalRow(e) ==
    LET strategy == IF e.strategy = None THEN "free-first" ELSE e.strategy
        freeOnly == e.freeOnly = TRUE
    IN  [status |-> "active", strategy |-> strategy,
         effective |-> IF freeOnly THEN "free-first" ELSE strategy,
         freeOnly |-> freeOnly, attempts |-> 0, activityAt |-> e.at]

(* Slip: INSERT OR REPLACE where the code has INSERT OR IGNORE.            *)
EnsureGoalRow_Replacing(goals, e) == NewGoalRow(e)

EnsureGoalRow(goals, e) ==
    IF goals[e.goal] = None THEN NewGoalRow(e) ELSE goals[e.goal]

(* _apply_goal: status always; the strategy only from a start or resume    *)
(* that names one, and the effective strategy only when that event does    *)
(* not itself say free-only.                                               *)
GoalEventRow(row, e) ==
    LET status  == GOAL_STATUS[e.type]
        renames == e.strategy # None /\ status = "active"
    IN  [row EXCEPT
            !.status     = status,
            !.activityAt = e.at,
            !.strategy   = IF renames THEN e.strategy ELSE @,
            !.effective  = IF renames /\ e.freeOnly # TRUE
                             THEN e.strategy ELSE @,
            !.freeOnly   = IF e.freeOnly = None THEN @ ELSE e.freeOnly]

(* Slip: the free-only denial of an escalation is forgotten.               *)
EscalatedRow_Undenied(row, e) ==
    [row EXCEPT !.activityAt = e.at, !.effective = "standard"]

(* _apply_context_escalation: a free-only goal is denied the wider ladder. *)
EscalatedRow(row, e) ==
    [row EXCEPT !.activityAt = e.at,
                !.effective = IF row.freeOnly THEN @ ELSE "standard"]

(* Slip: only goal events write the goals table.                           *)
ApplyToGoals_GoalEventsOnly(goals, e) ==
    IF e.goal = None \/ e.type \notin DOMAIN GOAL_STATUS THEN goals
    ELSE [goals EXCEPT ![e.goal] = GoalEventRow(EnsureGoalRow(goals, e), e)]

(* The goal half of apply_event.  Attempt events touch a goal only through *)
(* an attempt id, and only attempt.started creates one.                    *)
ApplyToGoals(goals, e) ==
    LET row == EnsureGoalRow(goals, e)
    IN  CASE e.goal = None -> goals
          [] e.goal # None /\ e.type \in DOMAIN GOAL_STATUS ->
               [goals EXCEPT ![e.goal] = GoalEventRow(row, e)]
          [] e.goal # None /\ e.type = "goal.context_escalated" ->
               [goals EXCEPT ![e.goal] = EscalatedRow(row, e)]
          [] e.goal # None /\ e.type = "attempt.started" /\ e.attempt # None ->
               [goals EXCEPT ![e.goal] =
                   [row EXCEPT !.attempts = @ + 1, !.activityAt = e.at]]
          [] /\ e.goal # None
             /\ goals[e.goal] # None
             /\ \/ e.type = "attempt.heartbeat" /\ e.attempt # None
                \/ e.type = "attempt.completed" ->
               [goals EXCEPT ![e.goal].activityAt = e.at]
          [] OTHER -> goals

-----------------------------------------------------------------------------
(* _apply_attempt_started is an upsert: a known attempt is set running     *)
(* again; a new one remembers its goal and route.                          *)
StartedRow(attempts, e) ==
    IF attempts[e.attempt] = None
      THEN [status |-> "running", goal |-> e.goal, route |-> e.route,
            heartbeatAt |-> e.at]
      ELSE [attempts[e.attempt] EXCEPT !.status = "running",
                                       !.heartbeatAt = e.at]

(* The attempt half of apply_event: heartbeats and completions update an   *)
(* existing row; attempt.failed has no effect here.                        *)
ApplyToAttempts(attempts, e) ==
    CASE e.attempt = None -> attempts
      [] e.attempt # None /\ e.type = "attempt.started" ->
           [attempts EXCEPT ![e.attempt] = StartedRow(attempts, e)]
      [] /\ e.attempt # None
         /\ attempts[e.attempt] # None
         /\ e.type = "attempt.heartbeat" ->
           [attempts EXCEPT ![e.attempt].heartbeatAt = e.at]
      [] /\ e.attempt # None
         /\ attempts[e.attempt] # None
         /\ e.type = "attempt.completed" ->
           [attempts EXCEPT ![e.attempt] =
               [@ EXCEPT !.status = "completed", !.heartbeatAt = e.at]]
      [] OTHER -> attempts
=============================================================================
