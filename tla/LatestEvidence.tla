--------------------------- MODULE LatestEvidence ---------------------------
(***************************************************************************)
(* What the route projection promises its readers, with no log, no ids and *)
(* no handlers: every route is a register that holds the newest word about *)
(* it.  A route nobody has spoken of has no word; once spoken of it is     *)
(* never forgotten, never returns to UNKNOWN, and its word is only ever    *)
(* replaced by one at least as recent.                                     *)
(***************************************************************************)
EXTENDS RouteProjection

VARIABLE word           \* Routes -> [state, at], or None

WordInit == word = [r \in Routes |-> None]

(* The first word about a route.                                           *)
Begin(r) ==
    /\ word[r] = None
    /\ word'[r] \in Word
    /\ word' = [word EXCEPT ![r] = word'[r]]

(* A word at least as recent replaces the current one.                     *)
Supersede(r) ==
    /\ word[r] # None
    /\ word'[r] \in Word
    /\ word'[r].state # "UNKNOWN"
    /\ word'[r].at >= word[r].at
    /\ word' = [word EXCEPT ![r] = word'[r]]

WordNext == \E r \in Routes : Begin(r) \/ Supersede(r)

Spec == WordInit /\ [][WordNext]_word
=============================================================================
