------------------------------ MODULE MCStore -------------------------------
(***************************************************************************)
(* EventStore under three stories, each a set of deliveries in any order   *)
(* and any duplication up to a length: evidence about routes, the recheck  *)
(* queue, and goals with their attempts.  A behaviour follows one of them. *)
(*                                                                         *)
(* Ids mean nothing but their equality, so a new delivery takes the next   *)
(* one of the list; a delivery under an id that is known may carry any     *)
(* payload, and is then a duplicate or a conflict.                         *)
(***************************************************************************)
EXTENDS EventStore

CONSTANTS e1, e2, e3, e4, e5, free, sub, g1, g2, a1, a2

Ids == <<e1, e2, e3, e4, e5>>

Blank ==
    [id |-> None, type |-> None, at |-> 1, route |-> None, goal |-> None,
     attempt |-> None, reason |-> "other", signal |-> None, resetAfter |-> 0,
     resetKnown |-> FALSE, strategy |-> None, freeOnly |-> None]

-----------------------------------------------------------------------------
(* A free leg meets every handler at three instants, a subscription leg    *)
(* the rules of its tier.                                                  *)
Saying(type, reason, signal, resetAfter, resetKnown) ==
    [Blank EXCEPT !.type = type, !.reason = reason, !.signal = signal,
                  !.resetAfter = resetAfter, !.resetKnown = resetKnown]

Evidences ==
    {Saying("route.probe.started", "other", None, 0, FALSE),
     Saying("route.probe.succeeded", "other", None, 0, FALSE),
     Saying("attempt.completed", "other", None, 0, FALSE),
     Saying("attempt.failed", "quota.confirmed", None, 2, TRUE),
     Saying("attempt.failed", "quota.confirmed", None, 2, FALSE),
     Saying("route.probe.failed", "quota.reset_unknown", None, 0, FALSE),
     Saying("attempt.failed", "transient.failure", None, 0, FALSE),
     Saying("route.probe.failed", "other", "transient", 0, FALSE),
     Saying("attempt.failed", "other", None, 0, FALSE),
     Saying("attempt.failed", "auth.required", None, 0, FALSE),
     Saying("attempt.failed", "other", "capability", 0, FALSE),
     Saying("attempt.failed", "context.exhausted", None, 0, FALSE)}

AboutRoutes ==
    {[say EXCEPT !.route = free, !.at = at] : say \in Evidences, at \in 1..3}
    \cup {[say EXCEPT !.route = sub, !.at = 2] : say \in Evidences}

-----------------------------------------------------------------------------
(* Requests, claims and settlements of one leg; five deliveries, so two    *)
(* requests of it can be running at once.  The second leg must not be      *)
(* confused with it.                                                       *)
Recheck(type, route, at) ==
    [Blank EXCEPT !.type = type, !.route = route, !.at = at,
                  !.reason = "recheck.timeout"]

AboutRechecks ==
    {Recheck("route.recheck.requested", free, 1),
     Recheck("route.recheck.requested", free, 2),
     Recheck("route.recheck.started", free, 2),
     Recheck("route.recheck.succeeded", free, 2),
     Recheck("route.recheck.failed", free, 3),
     Recheck("route.recheck.blocked", free, 2),
     Recheck("route.probe.started", free, 3),
     Recheck("route.recheck.requested", sub, 1),
     Recheck("route.recheck.succeeded", sub, 2)}

-----------------------------------------------------------------------------
(* Goal transitions with and without a strategy and the free-only mark,    *)
(* context escalations, and attempt events that overtake their goal or     *)
(* each other.                                                             *)
GoalSays(type, goal, at, strategy, freeOnly) ==
    [Blank EXCEPT !.type = type, !.goal = goal, !.at = at,
                  !.strategy = strategy, !.freeOnly = freeOnly]

AttemptSays(type, attempt, goal, at) ==
    [Blank EXCEPT !.type = type, !.attempt = attempt, !.goal = goal,
                  !.route = free, !.at = at]

AboutWork ==
    {GoalSays("goal.started", g1, 1, "standard", TRUE),
     GoalSays("goal.resumed", g1, 2, "standard", TRUE),
     GoalSays("goal.resumed", g1, 2, "standard", None),
     GoalSays("goal.paused", g1, 2, None, FALSE),
     GoalSays("goal.completed", g1, 3, None, None),
     GoalSays("goal.context_escalated", g1, 2, None, TRUE),
     GoalSays("goal.context_escalated", g2, 2, None, None),
     AttemptSays("attempt.started", a1, g1, 1),
     AttemptSays("attempt.started", a1, g2, 2),
     AttemptSays("attempt.started", a2, None, 2),
     AttemptSays("attempt.started", None, g1, 2),
     AttemptSays("attempt.heartbeat", a1, g1, 3),
     AttemptSays("attempt.completed", a1, g1, 3),
     AttemptSays("attempt.failed", a1, g1, 3)}

-----------------------------------------------------------------------------
Stories ==
    {[says |-> AboutRoutes, length |-> 3], [says |-> AboutRechecks, length |-> 5],
     [says |-> AboutWork, length |-> 4]}

Delivered(say, i) == [say EXCEPT !.id = Ids[i]]

MCEvents ==
    UNION {{Delivered(say, i) : say \in s.says, i \in 1..s.length} : s \in Stories}

Follows(story) ==
    \A i \in DOMAIN events : [events[i] EXCEPT !.id = None] \in story.says

Tell(story) ==
    /\ Follows(story)
    /\ \E say \in story.says, i \in 1..story.length :
          /\ i <= Len(events) + 1
          /\ Ingest(Delivered(say, i))

StorySpec == Init /\ [][\E story \in Stories : Tell(story)]_vars
=============================================================================
