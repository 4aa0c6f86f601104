------------------------------- MODULE Hotfix -------------------------------
(***************************************************************************)
(* Promote-CmoCatalogHotfix.py apply: the reviewed artifact takes the      *)
(* place of the running one, or everything is put back.                    *)
(*                                                                         *)
(* The service is the process that holds the port: the artifact it loaded  *)
(* and the digest it was told on its command line.  A process that finds   *)
(* the port taken ends at once.  Meanwhile the service may die and the     *)
(* startup entry may be run (a logon); the helper may be killed.  A step   *)
(* of the helper either does its work or raises.                           *)
(***************************************************************************)
EXTENDS Integers

CONSTANTS
    None,
    MaxDeaths, MaxLogons, MaxKills      \* bounds: what happens from outside

Outcomes == {"healthy-new", "old-untouched", "rolled-back-old", "rollback-failed"}

HotfixAssumption ==
    {MaxDeaths, MaxLogons, MaxKills} \subseteq Nat /\ None \notin Nat \cup Outcomes

VARIABLES
    LIVE,           \* the installed artifact: "old", "new" or "torn"
    START,          \* the digest in the startup entry: "old", "new" or "torn"
    service,        \* None, or [pid, loaded, told]
    pids,           \* processes started so far
    helper,         \* [pc, old_pid, new_pid, stopped]
    receipt,        \* the status in receipt.json, None before it is written
    killed_old,     \* history: taskkill of the old service has succeeded
    spent

vars == <<LIVE, START, service, pids, helper, receipt, killed_old, spent>>

Init ==
    /\ LIVE = "old"
    /\ START = "old"
    /\ service = [pid |-> 1, loaded |-> "old", told |-> "old"]
    /\ pids = 1
    /\ helper = [pc |-> "apply", old_pid |-> 1, new_pid |-> None, stopped |-> FALSE]
    /\ receipt = None
    /\ killed_old = FALSE
    /\ spent = [deaths |-> 0, logons |-> 0, kills |-> 0]

Serves(pid, digest) == service # None /\ service.pid = pid /\ service.told = digest

(* A process is started with the artifact and a digest: it serves unless   *)
(* the port is taken or the artifact cannot be loaded.                     *)
Launched(digest) ==
    /\ pids' = pids + 1
    /\ service' = IF service = None /\ LIVE # "torn"
                    THEN [pid |-> pids + 1, loaded |-> LIVE, told |-> digest]
                    ELSE service

Goes(from, to) ==
    /\ helper.pc = from
    /\ helper' = [helper EXCEPT !.pc = to]

-----------------------------------------------------------------------------
(* The world outside.                                                      *)

Die ==
    /\ service # None
    /\ spent.deaths < MaxDeaths
    /\ spent' = [spent EXCEPT !.deaths = @ + 1]
    /\ service' = None
    /\ UNCHANGED <<LIVE, START, pids, helper, receipt, killed_old>>

Logon ==
    /\ spent.logons < MaxLogons
    /\ START # "torn"
    /\ spent' = [spent EXCEPT !.logons = @ + 1]
    /\ Launched(START)
    /\ UNCHANGED <<LIVE, START, helper, receipt, killed_old>>

KillHelper ==
    /\ helper.pc \notin {"ended", "killed"}
    /\ spent.kills < MaxKills
    /\ spent' = [spent EXCEPT !.kills = @ + 1]
    /\ helper' = [helper EXCEPT !.pc = "killed"]
    /\ UNCHANGED <<LIVE, START, service, pids, receipt, killed_old>>

-----------------------------------------------------------------------------
(* apply up to the backups: the plan, its hash and age, and twice the      *)
(* identity of artifact, service and startup entry.  What fails here       *)
(* changes nothing and leaves no receipt.                                  *)
identity == LIVE = "old" /\ START = "old" /\ Serves(helper.old_pid, "old")

Check ==
    /\ \/ identity /\ Goes("apply", "stop")
       \/ Goes("apply", "ended")
    /\ UNCHANGED <<LIVE, START, service, pids, receipt, killed_old, spent>>

(* stop_exact of the old service: raises when the process is not the one   *)
(* expected or is not killed, and also after the kill, when the process is *)
(* not seen to be gone in six seconds or cannot be asked for.              *)
StopOld ==
    /\ helper.pc = "stop"
    /\ \/ /\ Serves(helper.old_pid, "old")
          /\ service' = None
          /\ killed_old' = TRUE
          /\ helper' \in {[helper EXCEPT !.pc = "copy", !.stopped = TRUE],
                          [helper EXCEPT !.pc = "failed"]}
       \/ /\ helper' = [helper EXCEPT !.pc = "failed"]
          /\ UNCHANGED <<service, killed_old>>
    /\ UNCHANGED <<LIVE, START, pids, receipt, spent>>

(* shutil.copy2(NEW, LIVE) and its checksum.                               *)
CopyNew ==
    /\ \/ Goes("copy", "startup") /\ LIVE' = "new"
       \/ Goes("copy", "failed") /\ LIVE' \in {"old", "torn"}
    /\ UNCHANGED <<START, service, pids, receipt, killed_old, spent>>

EditStartup ==
    /\ \/ Goes("startup", "start") /\ START' = "new"
       \/ Goes("startup", "failed") /\ START' \in {START, "torn"}
    /\ UNCHANGED <<LIVE, service, pids, receipt, killed_old, spent>>

StartNew ==
    /\ helper.pc = "start"
    /\ \/ /\ Launched("new")
          /\ helper' = [helper EXCEPT !.pc = "await", !.new_pid = pids + 1]
       \/ /\ helper' = [helper EXCEPT !.pc = "failed"]
          /\ UNCHANGED <<service, pids>>
    /\ UNCHANGED <<LIVE, START, receipt, killed_old, spent>>

(* Slip: any healthy answer will do.                                       *)
Await_AnyPid ==
    /\ \/ service # None /\ Goes("await", "compare")
       \/ Goes("await", "failed")
    /\ UNCHANGED <<LIVE, START, service, pids, receipt, killed_old, spent>>

(* await_health of exactly the new process ...                             *)
Await ==
    /\ \/ Serves(helper.new_pid, "new") /\ Goes("await", "compare")
       \/ Goes("await", "failed")
    /\ UNCHANGED <<LIVE, START, service, pids, receipt, killed_old, spent>>

(* ... then the policy and the catalog against the plan's, as shown by     *)
(* whoever answers on the port by now.                                     *)
Compare ==
    /\ \/ service # None /\ Goes("compare", "healthy-new")
       \/ Goes("compare", "failed")
    /\ UNCHANGED <<LIVE, START, service, pids, receipt, killed_old, spent>>

-----------------------------------------------------------------------------
(* The except block: back to the old artifact, if the old service was seen *)
(* to be gone.                                                             *)
Fail ==
    /\ Goes("failed", IF helper.stopped THEN "undo" ELSE "old-untouched")
    /\ UNCHANGED <<LIVE, START, service, pids, receipt, killed_old, spent>>

StopNew ==
    /\ \/ /\ Goes("undo", "restore")
          /\ service' = IF helper.new_pid # None /\ Serves(helper.new_pid, "new")
                          THEN None ELSE service
       \/ /\ helper.new_pid # None
          /\ Goes("undo", "rollback-failed")
          /\ service' \in {service, IF Serves(helper.new_pid, "new") THEN None
                                    ELSE service}
    /\ UNCHANGED <<LIVE, START, pids, receipt, killed_old, spent>>

(* Slip: the startup entry is not put back.                                *)
Restore_ArtifactOnly ==
    /\ Goes("restore", "restart")
    /\ LIVE' = "old"
    /\ UNCHANGED <<START, service, pids, receipt, killed_old, spent>>

Restore ==
    /\ \/ Goes("restore", "restart") /\ LIVE' = "old" /\ START' = "old"
       \/ /\ Goes("restore", "rollback-failed")
          /\ \/ LIVE' \in {LIVE, "torn"} /\ UNCHANGED START
             \/ LIVE' = "old" /\ START' \in {START, "torn"}
    /\ UNCHANGED <<service, pids, receipt, killed_old, spent>>

Restart ==
    /\ \/ /\ helper.pc = "restart"
          /\ Launched("old")
          /\ helper' = [helper EXCEPT !.pc = "prove", !.new_pid = pids + 1]
       \/ Goes("restart", "rollback-failed") /\ UNCHANGED <<service, pids>>
    /\ UNCHANGED <<LIVE, START, receipt, killed_old, spent>>

Prove ==
    /\ \/ Serves(helper.new_pid, "old") /\ Goes("prove", "rolled-back-old")
       \/ Goes("prove", "rollback-failed")
    /\ UNCHANGED <<LIVE, START, service, pids, receipt, killed_old, spent>>

(* finally: the receipt is written whatever happened.                      *)
WriteReceipt ==
    /\ helper.pc \in Outcomes
    /\ receipt' = helper.pc
    /\ helper' = [helper EXCEPT !.pc = "ended"]
    /\ UNCHANGED <<LIVE, START, service, pids, killed_old, spent>>

apply ==
    \/ Check \/ StopOld \/ CopyNew \/ EditStartup \/ StartNew \/ Await
    \/ Compare \/ Fail \/ StopNew \/ Restore \/ Restart \/ Prove \/ WriteReceipt

Next == apply \/ Die \/ Logon \/ KillHelper

Spec == Init /\ [][Next]_vars

-----------------------------------------------------------------------------
(* The receipt tells what is installed: after every outcome but a failed   *)
(* rollback the artifact and the startup entry are whole and of the same   *)
(* release, the one the receipt names (apply).                             *)
ReceiptTellsTheFiles ==
    receipt \in Outcomes \ {"rollback-failed"} =>
        /\ LIVE = START
        /\ LIVE = IF receipt = "healthy-new" THEN "new" ELSE "old"

(* A service is taken for the helper's own only while the process it       *)
(* started holds the port and runs the artifact it installed, whoever else *)
(* has been starting services; and though that one may die before success  *)
(* is declared, whoever answers by then runs the installed artifact too.   *)
DeclaredServiceIsOurs ==
    [][helper'.pc # helper.pc =>
          /\ helper'.pc \in {"compare", "rolled-back-old"} =>
                /\ service # None /\ service.pid = helper.new_pid
                /\ service.loaded = LIVE
          /\ helper'.pc = "healthy-new" => service # None /\ service.loaded = LIVE]_vars

-----------------------------------------------------------------------------
(* Promises of the repository that the code breaks: TLC finds each of      *)
(* these violated (README, Divergences).                                   *)

(* "artifact_digest: sha256 of the running cmo.pyz"                        *)
(* (docs/cmo-v2-interface.md): the service reports what it loaded.         *)
ReportedDigestIsTheArtifact == service # None => service.told = service.loaded

(* "exact-identity rollback" (docstring of Promote-CmoCatalogHotfix.py): a *)
(* promotion that calls the old service untouched has not stopped it.      *)
UntouchedMeansRunning == receipt = "old-untouched" => ~killed_old
=============================================================================
