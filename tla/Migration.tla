----------------------------- MODULE Migration ------------------------------
(***************************************************************************)
(* cmo migrate: the import of legacy evidence files.  A run takes the      *)
(* fingerprint of a file, passes over a file with a receipt, ingests one   *)
(* event per row, each in a transaction of its own, and records the        *)
(* receipt last.  It may be killed, or fail, between any two of these, and *)
(* two runs may overlap.                                                   *)
(*                                                                         *)
(* A file is known by its version, which its writer may raise; its rows    *)
(* stay.  An event is known by its id and by the time in its payload; the  *)
(* rest of the payload is a function of the row.                           *)
(***************************************************************************)
EXTENDS Integers, FiniteSets, Sequences

CONSTANTS
    Runs,               \* processes that run cmo migrate
    Files,              \* the legacy files
    Keys, Times,        \* what a row is known by; the times in the files
    Rows,               \* file -> its rows, [key, time]
    None,
    MaxTime, MaxVersion, MaxRuns, MaxKills      \* bounds

MigrationAssumption ==
    /\ Rows \in [Files -> Seq([key : Keys, time : Times \cup {None}])]
    /\ \A f \in Files : Rows[f] # <<>>
    /\ \A f \in Files : \A i, j \in DOMAIN Rows[f] :     \* an id takes in the row
           Rows[f][i].key = Rows[f][j].key => Rows[f][i].time = Rows[f][j].time
    /\ Times \subseteq Nat
    /\ {MaxTime, MaxVersion} \subseteq Nat \ {0}
    /\ {MaxRuns, MaxKills} \subseteq Nat

VARIABLES
    now, version,       \* the clock and the version of each file
    events,             \* the events of the store that were imported
    migration_receipts, \* fingerprints
    run,                \* run -> [pc, file, fp, now, next, status]
    runs, kills         \* how many were started and stopped short

vars == <<now, version, events, migration_receipts, run, runs, kills>>

Idle == [pc |-> "idle", file |-> None, fp |-> None, now |-> 0, next |-> 1,
         status |-> "none"]

Init ==
    /\ now = 1
    /\ version = [f \in Files |-> 1]
    /\ events = {}
    /\ migration_receipts = {}
    /\ run = [r \in Runs |-> Idle]
    /\ runs = 0
    /\ kills = 0

fingerprint(f) == <<f, version[f]>>

-----------------------------------------------------------------------------
(* Slip: the id takes in the time of the run.                              *)
_deterministic_id_Timed(fp, key, at) == <<fp, key, at>>

(* The fingerprint of the file and the row, nothing else.                  *)
_deterministic_id(fp, key, at) == <<fp, key>>

(* Slip: a row without a time is imported without one.                     *)
occurred_at_Missing(row, ran) == row.time

(* The row's own time, or the time of the run where it has none.           *)
occurred_at(row, ran) == IF row.time = None THEN ran ELSE row.time

EventOf(r) ==
    LET row == Rows[r.file][r.next]
        at == occurred_at(row, r.now)
    IN  [id |-> _deterministic_id(r.fp, row.key, at), key |-> row.key, at |-> at]

(* migrate comes to a file: without it, or with its receipt, it moves on.  *)
Begin(p, f) ==
    /\ run[p].pc = "idle"
    /\ runs < MaxRuns
    /\ runs' = runs + 1
    /\ run' = [run EXCEPT ![p] =
           IF fingerprint(f) \in migration_receipts
             THEN [Idle EXCEPT !.status = "already_imported"]
             ELSE [Idle EXCEPT !.pc = "ingest", !.file = f,
                               !.fp = fingerprint(f), !.now = now]]
    /\ UNCHANGED <<now, version, events, migration_receipts, kills>>

Ends(p, status) == run' = [run EXCEPT ![p].pc = "idle", ![p].status = status]

(* The row is done: on to the next one, or to the receipt.                 *)
Advanced(r) == IF r.next = Len(Rows[r.file]) THEN [r EXCEPT !.pc = "receipt"]
                                             ELSE [r EXCEPT !.next = @ + 1]

Advances(p) == run' = [run EXCEPT ![p] = Advanced(@)]

(* Slip: an id that is already there is refused, whatever its payload.     *)
IngestRow_Strict(p) ==
    LET event == EventOf(run[p])
    IN  /\ run[p].pc = "ingest"
        /\ IF \E e \in events : e.id = event.id
             THEN Ends(p, "conflict") /\ UNCHANGED events
             ELSE Advances(p) /\ events' = events \cup {event}
        /\ UNCHANGED <<now, version, migration_receipts, runs, kills>>

(* ingest: a known id is a duplicate when its payload is the same, and a   *)
(* conflict, which ends the file as partial, when it is not.               *)
IngestRow(p) ==
    LET event == EventOf(run[p])
    IN  /\ run[p].pc = "ingest"
        /\ IF \E e \in events : e.id = event.id /\ e # event
             THEN Ends(p, "conflict") /\ UNCHANGED events
             ELSE Advances(p) /\ events' = events \cup {event}
        /\ UNCHANGED <<now, version, migration_receipts, runs, kills>>

(* Slip: the receipt is recorded under the file's fingerprint of now.      *)
Record_Reread(p) ==
    /\ run[p].pc = "receipt"
    /\ migration_receipts' = migration_receipts \cup {fingerprint(run[p].file)}
    /\ Ends(p, "imported")
    /\ UNCHANGED <<now, version, events, runs, kills>>

Record(p) ==
    /\ run[p].pc = "receipt"
    /\ migration_receipts' = migration_receipts \cup {run[p].fp}
    /\ Ends(p, "imported")
    /\ UNCHANGED <<now, version, events, runs, kills>>

(* The process is killed, or the store raises: what was ingested stays.    *)
StopShort(p) ==
    /\ run[p].pc # "idle"
    /\ kills < MaxKills
    /\ kills' = kills + 1
    /\ Ends(p, "partial")
    /\ UNCHANGED <<now, version, events, migration_receipts, runs>>

(* The legacy writer rewrites its file.                                    *)
Rewrite(f) ==
    /\ version[f] < MaxVersion
    /\ version' = [version EXCEPT ![f] = @ + 1]
    /\ UNCHANGED <<now, events, migration_receipts, run, runs, kills>>

Tick ==
    /\ now < MaxTime
    /\ now' = now + 1
    /\ UNCHANGED <<version, events, migration_receipts, run, runs, kills>>

Next ==
    \/ \E p \in Runs :
          \/ \E f \in Files : Begin(p, f)
          \/ IngestRow(p) \/ Record(p) \/ StopShort(p)
    \/ \E f \in Files : Rewrite(f)
    \/ Tick

Spec == Init /\ [][Next]_vars

-----------------------------------------------------------------------------
Fingerprints == Files \X (1..MaxVersion)

RunStates ==
    [pc : {"idle", "ingest", "receipt"}, file : Files \cup {None},
     fp : Fingerprints \cup {None}, now : Nat, next : Nat,
     status : {"none", "already_imported", "imported", "partial", "conflict"}]

(* Every event has a time, its row's or its run's, and every receipt names *)
(* a version of a file (occurred_at, _record_receipt).                     *)
TypeOK ==
    /\ now \in 1..MaxTime
    /\ version \in [Files -> 1..MaxVersion]
    /\ events \subseteq [id : Fingerprints \X Keys, key : Keys, at : Nat]
    /\ migration_receipts \subseteq Fingerprints
    /\ run \in [Runs -> RunStates]
    /\ runs \in 0..MaxRuns
    /\ kills \in 0..MaxKills

(* However often runs are interrupted, repeated or overlap, a row of one   *)
(* version of a file becomes one event (_deterministic_id, ingest).        *)
OneEventPerRow ==
    \A d, e \in events : d.id[1] = e.id[1] /\ d.key = e.key => d = e

(* A receipt is a promise kept: every row of the version it names is in    *)
(* the store, so passing over that file loses nothing (_already_imported). *)
ReceiptMeansImported ==
    \A fp \in migration_receipts : \A i \in DOMAIN Rows[fp[1]] :
        \E e \in events : e.id[1] = fp /\ e.key = Rows[fp[1]][i].key

(* Only a row without a time of its own can stop a repeated run: the rest  *)
(* of an event is the same each time it is built.                          *)
ConflictsAreTimeless ==
    \A p \in Runs : run[p].status = "conflict" =>
        Rows[run[p].file][run[p].next].time = None

-----------------------------------------------------------------------------
(* Promises of the repository that the code breaks: TLC finds each of      *)
(* these violated (README, Divergences).                                   *)

(* "an interrupted or repeated migration has no second effect" (docstring  *)
(* of migration.py): a row is imported once.                               *)
NoSecondEffect == \A d, e \in events : d.key = e.key => d = e

(* "Repeatable, plan-driven migration" (docstring of migration.py): a run  *)
(* that is not stopped short concludes, whatever came before it.           *)
RerunsConclude == \A p \in Runs : run[p].status # "conflict"
=============================================================================
