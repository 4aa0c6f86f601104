--------------------------- MODULE MCMaintenance ----------------------------
(***************************************************************************)
(* What the command line and the installer do beside a running service:    *)
(* the migration, the rebuild and the quarantine, the drain of the outbox, *)
(* the export files and the promotion of an artifact.                      *)
(*                                                                         *)
(* As in MCService, a behaviour picks one of the five as its subject and   *)
(* the others rest.                                                        *)
(***************************************************************************)
EXTENDS Rebuild

CONSTANTS
    e1, e2, e3, f1, f2, leg, toy, blank, g, a,      \* Rebuild
    Runs, Files, Keys, Times, Rows,                 \* Migration
    MaxTime, MaxVersion, MaxRuns, MaxKills,
    Named, Undated, Anonymous, Refused, Junk, Drains,
    Payloads, Writers, MaxWrites, MaxIngests, MaxSaves, MaxFailures,
    MaxDeaths, MaxLogons, MaxStops                  \* Hotfix

VARIABLES
    subject,
    now, version, imported, migration_receipts, run, runs, kills,
    file, logged, post, sent, written, drain, raced,
    store, unaudited, writer, files, manifest, writes, overlapped, spent,
    LIVE, START, service, pids, helper, promotion, killed_old, befallen

-----------------------------------------------------------------------------
(* Migration: a ledger whose second entry has no time and whose first has  *)
(* one, and a list without any.                                            *)
MCFiles == {"quota-state", "free-models"}
MCRows ==
    [f \in MCFiles |->
        IF f = "quota-state"
          THEN <<[key |-> "leg1", time |-> 1], [key |-> "leg2", time |-> None]>>
          ELSE <<[key |-> "list", time |-> None]>>]
MCKeys == {"leg1", "leg2", "list"}

Mig == INSTANCE Migration WITH events <- imported

(* Rebuild: probe evidence about a leg at equal and different instants, a  *)
(* context failure, goal and attempt events out of order, a recheck and a  *)
(* request without an identity.  The log of an older build may hold a      *)
(* fixture's probe of the leg and a probe or a request of a truncated one, *)
(* and each of the three may also be delivered to the running service.     *)
LiveIds == <<e1, e2, e3>>
Says(id, type, at, reason) ==
    [id |-> id, type |-> type, at |-> at, route |-> leg, goal |-> None,
     attempt |-> None, reason |-> reason, signal |-> None,
     resetAfter |-> 0, resetKnown |-> FALSE, strategy |-> None,
     freeOnly |-> None]
OfWork(id, type, at) ==
    [Says(id, type, at, "other") EXCEPT !.goal = g, !.attempt = a]
Request(id)      == Says(id, "route.recheck.requested", 1, "other")
FixtureProbe     == Says(f1, "route.probe.succeeded", 3, "other")
TruncatedProbe   == [Says(f2, "route.probe.succeeded", 3, "other") EXCEPT !.route = toy]
TruncatedRequest == [Request(f2) EXCEPT !.route = toy]
LiveEvents ==
    UNION {{Says(id, "route.probe.succeeded", 2, "other"),
            Says(id, "route.probe.failed", 2, "auth.required"),
            Says(id, "route.probe.failed", 1, "transient.failure"),
            Says(id, "attempt.failed", 3, "context.exhausted"),
            Request(id), [Request(id) EXCEPT !.route = None],
            Says(id, "route.recheck.started", 2, "other"),
            Says(id, "route.recheck.succeeded", 2, "other"),
            OfWork(id, "attempt.started", 1),
            OfWork(id, "goal.completed", 3),
            OfWork(id, "goal.resumed", 2)} : id \in {e1, e2, e3}}
        \cup {FixtureProbe, TruncatedProbe, TruncatedRequest}

MCLegacy ==
    {<<>>, <<FixtureProbe, TruncatedProbe>>, <<FixtureProbe, TruncatedRequest>>}

MCKeyOnReplay == [id \in EventIds |-> blank]

(* Bound: ids mean nothing, so the live ones are used in order; and once,  *)
(* as a delivery under a known id changes nothing (MCStore).  A deleted    *)
(* event comes again when the replay that forgets it is done.              *)
Known(id) == \/ \E i \in DOMAIN events : events[i].id = id
             \/ \E e \in ghosts : e.id = id
IdIsDue(id) ==
    /\ ~Known(id)
    /\ \A n \in DOMAIN LiveIds :
           LiveIds[n] = id => \A m \in 1..(n - 1) : Known(LiveIds[m])

RebuildInTurn ==
    \/ Maintain
    \/ \E e \in Events : IdIsDue(e.id) /\ IngestLive(e)

Out == INSTANCE Outbox

(* ExportFiles: three of the six files, the first, one between, the last.  *)
MCPayloads == <<"foundry-route-policy", "guardian-status", "quota-state">>

Exp == INSTANCE ExportFiles WITH MaxKills <- MaxStops

Hot == INSTANCE Hotfix WITH MaxKills <- MaxStops, spent <- befallen,
                            receipt <- promotion

ASSUME MaintenanceAssumption ==
    /\ Mig!MigrationAssumption /\ Out!OutboxAssumption
    /\ Exp!ExportFilesAssumption /\ Hot!HotfixAssumption

-----------------------------------------------------------------------------
Subjects == {"migrate", "rebuild", "drain", "export", "promote"}

MaintenanceInit ==
    /\ subject \in Subjects
    /\ Mig!Init /\ RebuildInit /\ Out!Init /\ Exp!Init /\ Hot!Init
    /\ subject # "rebuild" => events = <<>>

rebuildVars == <<vars, jobVars>>
migrateVars == <<now, version, imported, migration_receipts, run, runs, kills>>
drainVars   == <<file, logged, post, sent, written, drain, raced>>
exportVars  == <<store, unaudited, writer, files, manifest, writes, overlapped, spent>>
promoteVars == <<LIVE, START, service, pids, helper, promotion, killed_old, befallen>>

(* Whatever has its bound, or an end, may stop; the rebuild may not.       *)
MaintenanceNext ==
    /\ UNCHANGED subject
    /\ \/ /\ subject = "migrate" /\ (Mig!Next \/ UNCHANGED migrateVars)
          /\ UNCHANGED <<rebuildVars, drainVars, exportVars, promoteVars>>
       \/ /\ UNCHANGED migrateVars
          /\ \/ /\ subject = "rebuild" /\ RebuildInTurn
                /\ UNCHANGED <<drainVars, exportVars, promoteVars>>
             \/ /\ subject = "drain" /\ (Out!Next \/ UNCHANGED drainVars)
                /\ UNCHANGED <<rebuildVars, exportVars, promoteVars>>
             \/ /\ subject = "export" /\ (Exp!Next \/ UNCHANGED exportVars)
                /\ UNCHANGED <<rebuildVars, drainVars, promoteVars>>
             \/ /\ subject = "promote" /\ (Hot!Next \/ UNCHANGED promoteVars)
                /\ UNCHANGED <<rebuildVars, drainVars, exportVars>>

allVars == <<subject, rebuildVars, migrateVars, drainVars, exportVars, promoteVars>>

MaintenanceSpec == MaintenanceInit /\ [][MaintenanceNext]_allVars

-----------------------------------------------------------------------------
(* The properties of the parts, taken together where they tell one story.  *)

(* Migration: a row of a version becomes one event, a receipt is given for *)
(* the whole, and only a row without a time of its own can stop a run that *)
(* is repeated after an interruption.                                      *)
OneEventPerRow == Mig!OneEventPerRow

ReceiptMeansImported == Mig!ReceiptMeansImported

OnlyTimelessRowsConflict == Mig!TypeOK /\ Mig!ConflictsAreTimeless

(* Rebuild: a replay of the whole log counts what ingest counts and keeps  *)
(* each route's newest evidence, and a quarantine that has its receipt has *)
(* left no row of a fixture.                                               *)
RebuildIsFaithful ==
    WholeReplayIsExact /\ WholeReplayKeepsTheNewestWord /\ ReceiptMeansNoFixtureRow

(* Outbox: what is appended outside a drain is applied or stays, an event  *)
(* with an id is applied once, and a good line leaves the file.            *)
DrainsAreExact ==
    Out!NothingIsLostInTurn /\ Out!NamedEventsOnce /\ Out!GoodLinesNeverStick

(* Outbox: a line is applied or in the file, whatever runs meanwhile.      *)
OutboxIsDurable == Out!OutboxIsDurable

(* ExportFiles: the manifest is replaced after the files it vouches for,   *)
(* and an undisturbed write leaves a whole set.                            *)
ExportSetIsWhole == Exp!ManifestFollowsItsFiles /\ Exp!UndisturbedSetIsWhole

(* Hotfix: the receipt tells what is installed; the helper waits for the   *)
(* service it started from it, and success is declared only when whoever   *)
(* answers runs what is installed.                                         *)
PromotionIsHonest == []Hot!ReceiptTellsTheFiles /\ Hot!DeclaredServiceIsOurs
=============================================================================
