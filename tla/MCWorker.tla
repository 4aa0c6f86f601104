------------------------------ MODULE MCWorker ------------------------------
(***************************************************************************)
(* RecheckWorker with up to three requests for a free and a subscription   *)
(* leg, so that requests of one leg queue behind each other, behind a      *)
(* cooldown and behind the other leg's; with a truncated leg, toy, and     *)
(* with a request left by a rebuild under the malformed key blank.         *)
(* Minutes are scaled (probe 1, stale 2, cooldown 3), which keeps the      *)
(* order of the code's 1, 2 and 5.                                         *)
(***************************************************************************)
EXTENDS RecheckWorker

CONSTANTS free, sub, toy, blank, q1, q2, q3, w
=============================================================================
