-------------------------- MODULE MaintenanceProofs ---------------------------
(***************************************************************************)
(* Theorems about what the command line and the installer do beside a      *)
(* running service, for any number of processes and any bounds: the        *)
(* migration imports each row of a version once and gives no receipt for   *)
(* less than the whole, a rebuild that missed nothing makes of the log     *)
(* what ingest made of it, the drain of the outbox loses and repeats       *)
(* nothing on its own, the manifest of the exports follows its files, and  *)
(* the receipt of a promotion tells what is installed.                     *)
(***************************************************************************)
EXTENDS MCMaintenance, EventStoreProofs, SequenceTheorems

(* Whichever part a step belongs to, it is one of that part or a stutter.  *)
LEMMA Parts ==
    ASSUME [MaintenanceNext]_allVars
    PROVE  /\ [Mig!Next]_migrateVars
           /\ [RebuildNext]_rebuildVars
           /\ [Out!Next]_drainVars
           /\ [Exp!Next]_exportVars
           /\ [Hot!Next]_promoteVars
BY DEF MaintenanceNext, RebuildInTurn, RebuildNext, allVars

-----------------------------------------------------------------------------
(* Migration.                                                              *)

(* An id names its fingerprint and key, and no two events share one.       *)
IdsNameRows == \A e \in imported : e.id = <<e.id[1], e.key>>

OneEventPerId == \A d, e \in imported : d.id = e.id => d = e

Imported(es, fp, i) == \E e \in es : e.id[1] = fp /\ e.key = Rows[fp[1]][i].key

(* A run at work knows its file by a fingerprint of it, stands at one of   *)
(* its rows and has left none behind.                                      *)
OnTrack(es, x) ==
    x.pc # "idle" =>
        /\ x.file \in Files /\ x.fp \in Mig!Fingerprints /\ x.fp[1] = x.file
        /\ x.next \in 1..Len(Rows[x.file])
        /\ \A i \in 1..Len(Rows[x.file]) :
              i < x.next \/ x.pc = "receipt" => Imported(es, x.fp, i)

RunsAreOnTrack == \A p \in Runs : OnTrack(imported, run[p])

IInv ==
    Mig!TypeOK /\ IdsNameRows /\ OneEventPerId /\ RunsAreOnTrack /\ Mig!ReceiptMeansImported

-----------------------------------------------------------------------------
LEMMA MigrationFact ==
    /\ Rows \in [Files -> Seq([key : Keys, time : Times \cup {None}])]
    /\ \A f \in Files : Rows[f] # <<>>
    /\ \A f \in Files : \A i, j \in DOMAIN Rows[f] :
           Rows[f][i].key = Rows[f][j].key => Rows[f][i].time = Rows[f][j].time
    /\ Times \subseteq Nat
    /\ {MaxTime, MaxVersion} \subseteq Nat \ {0}
    /\ {MaxRuns, MaxKills} \subseteq Nat
BY MaintenanceAssumption DEF Mig!MigrationAssumption

LEMMA RowsFact ==
    ASSUME NEW f \in Files
    PROVE  /\ Len(Rows[f]) \in Nat /\ 1 \in 1..Len(Rows[f])
           /\ DOMAIN Rows[f] = 1..Len(Rows[f])
           /\ \A i \in 1..Len(Rows[f]) :
                 Rows[f][i] \in [key : Keys, time : Times \cup {None}]
  <1> DEFINE S == [key : Keys, time : Times \cup {None}]
  <1>1. Rows[f] \in Seq(S) /\ Rows[f] # <<>>
    BY MigrationFact
  <1> HIDE DEF S
  <1>2. Len(Rows[f]) \in Nat \ {0}
    BY <1>1, EmptySeq
  <1>3. Rows[f] \in [1..Len(Rows[f]) -> S] /\ DOMAIN Rows[f] = 1..Len(Rows[f])
    BY <1>1, LenProperties
  <1> QED
    BY <1>2, <1>3 DEF S

LEMMA OnTrackMonotone ==
    ASSUME NEW es, NEW fs, es \subseteq fs, NEW x, OnTrack(es, x)
    PROVE  OnTrack(fs, x)
  BY DEF OnTrack, Imported

LEMMA InitIInv == Mig!Init => IInv
  <1> SUFFICES ASSUME Mig!Init PROVE IInv
    OBVIOUS
  <1>1. Mig!TypeOK
    BY MigrationFact DEF Mig!Init, Mig!Idle, Mig!TypeOK, Mig!RunStates
  <1>2. IdsNameRows /\ OneEventPerId /\ RunsAreOnTrack /\ Mig!ReceiptMeansImported
    BY DEF Mig!Init, Mig!Idle, IdsNameRows, OneEventPerId, RunsAreOnTrack, OnTrack,
           Mig!ReceiptMeansImported
  <1> QED
    BY <1>1, <1>2 DEF IInv

(* The event a run builds for the row it stands at.                        *)
LEMMA BuiltEvent ==
    ASSUME NEW x \in Mig!RunStates, NEW es, OnTrack(es, x), x.pc = "ingest"
    PROVE  /\ Mig!EventOf(x) \in [id : Mig!Fingerprints \X Keys, key : Keys, at : Nat]
           /\ Mig!EventOf(x).at = Mig!occurred_at(Rows[x.fp[1]][x.next], x.now)
           /\ Mig!EventOf(x).id = <<x.fp, Mig!EventOf(x).key>>
           /\ Mig!EventOf(x).id[1] = x.fp
           /\ Mig!EventOf(x).key = Rows[x.fp[1]][x.next].key
  <1> DEFINE row == Rows[x.file][x.next]
  <1>1. /\ x.file \in Files /\ x.fp \in Mig!Fingerprints /\ x.fp[1] = x.file
        /\ x.next \in 1..Len(Rows[x.file])
    BY DEF OnTrack
  <1>2. row \in [key : Keys, time : Times \cup {None}]
    BY <1>1, RowsFact
  <1>3. x.now \in Nat
    BY DEF Mig!RunStates
  <1> HIDE DEF row
  <1>4. Mig!occurred_at(row, x.now) \in Nat
    BY <1>2, <1>3, MigrationFact DEF Mig!occurred_at
  <1>5. Mig!EventOf(x) = [id |-> <<x.fp, row.key>>, key |-> row.key,
                      at |-> Mig!occurred_at(row, x.now)]
    BY DEF Mig!EventOf, Mig!_deterministic_id, row
  <1>6. row = Rows[x.fp[1]][x.next]
    BY <1>1 DEF row
  <1> QED
    BY <1>1, <1>2, <1>4, <1>5, <1>6

LEMMA BeginKeeps ==
    ASSUME IInv, NEW p \in Runs, NEW f \in Files, Mig!Begin(p, f)
    PROVE  IInv'
  <1>1. Mig!fingerprint(f) \in Mig!Fingerprints /\ Mig!fingerprint(f)[1] = f
    BY DEF IInv, Mig!fingerprint, Mig!Fingerprints, Mig!TypeOK
  <1>2. /\ now \in Nat /\ now' = now /\ version' = version /\ imported' = imported
        /\ migration_receipts' = migration_receipts /\ kills' = kills
    BY MigrationFact DEF Mig!Begin, IInv, Mig!TypeOK
  <1>3. runs' \in 0..MaxRuns
    BY MigrationFact DEF Mig!Begin, IInv, Mig!TypeOK
  <1> DEFINE x == IF Mig!fingerprint(f) \in migration_receipts
                    THEN [Mig!Idle EXCEPT !.status = "already_imported"]
                    ELSE [Mig!Idle EXCEPT !.pc = "ingest", !.file = f,
                                      !.fp = Mig!fingerprint(f), !.now = now]
  <1>4. x \in Mig!RunStates
    BY <1>1, <1>2 DEF Mig!Idle, Mig!RunStates
  <1>5. OnTrack(imported, x)
    <2>1. CASE x.pc = "idle"
      BY <2>1 DEF OnTrack
    <2>2. CASE x.pc # "idle"
      <3>1. x.pc = "ingest" /\ x.file = f /\ x.fp = Mig!fingerprint(f) /\ x.next = 1
        BY <2>2 DEF Mig!Idle
      <3> HIDE DEF x
      <3>2. 1 \in 1..Len(Rows[f]) /\ \A i \in 1..Len(Rows[f]) : ~(i < 1)
        BY RowsFact
      <3> QED
        BY <1>1, <3>1, <3>2 DEF OnTrack
    <2> QED
      BY <2>1, <2>2
  <1>6. run' = [run EXCEPT ![p] = x]
    BY DEF Mig!Begin
  <1> HIDE DEF x
  <1>7. run' \in [Runs -> Mig!RunStates]
    BY <1>4, <1>6 DEF IInv, Mig!TypeOK
  <1>8. RunsAreOnTrack'
    BY <1>2, <1>5, <1>6 DEF IInv, Mig!TypeOK, RunsAreOnTrack
  <1> QED
    BY <1>2, <1>3, <1>7, <1>8 DEF IInv, Mig!TypeOK, IdsNameRows, OneEventPerId,
       Mig!ReceiptMeansImported

(* A run that ends leaves the others, and the events, alone.               *)
LEMMA EndsKeeps ==
    ASSUME Mig!TypeOK, RunsAreOnTrack, NEW p \in Runs,
           NEW s \in {"imported", "partial", "conflict"}, Mig!Ends(p, s), imported' = imported
    PROVE  run' \in [Runs -> Mig!RunStates] /\ RunsAreOnTrack'
  <1>1. run[p] \in Mig!RunStates
    BY DEF Mig!TypeOK
  <1> DEFINE x == [run[p] EXCEPT !.pc = "idle", !.status = s]
  <1>2. x \in Mig!RunStates /\ x.pc = "idle"
    BY <1>1 DEF Mig!RunStates
  <1>3. run' = [run EXCEPT ![p] = x]
    BY DEF Mig!Ends
  <1> HIDE DEF x
  <1> QED
    BY <1>2, <1>3 DEF Mig!TypeOK, RunsAreOnTrack, OnTrack

(* A run that advances has its row in the store.                           *)
LEMMA AdvanceStaysOnTrack ==
    ASSUME NEW x \in Mig!RunStates, NEW es, OnTrack(es, x), x.pc = "ingest",
           Imported(es, x.fp, x.next)
    PROVE  Mig!Advanced(x) \in Mig!RunStates /\ OnTrack(es, Mig!Advanced(x))
  <1>1. /\ x.file \in Files /\ x.fp \in Mig!Fingerprints /\ x.fp[1] = x.file
        /\ x.next \in 1..Len(Rows[x.file])
        /\ \A i \in 1..Len(Rows[x.file]) : i < x.next => Imported(es, x.fp, i)
    BY DEF OnTrack
  <1>2. Len(Rows[x.file]) \in Nat
    BY <1>1, RowsFact
  <1>3. CASE x.next = Len(Rows[x.file])
    <2> DEFINE y == [x EXCEPT !.pc = "receipt"]
    <2>1. /\ y \in Mig!RunStates /\ y.pc = "receipt" /\ y.file = x.file
          /\ y.fp = x.fp /\ y.next = x.next
      BY DEF Mig!RunStates
    <2>2. \A i \in 1..Len(Rows[x.file]) : Imported(es, x.fp, i)
      BY <1>1, <1>2, <1>3
    <2> HIDE DEF y
    <2>3. OnTrack(es, y)
      BY <1>1, <2>1, <2>2 DEF OnTrack
    <2> QED
      BY <1>3, <2>1, <2>3 DEF y, Mig!Advanced
  <1>4. CASE x.next # Len(Rows[x.file])
    <2> DEFINE y == [x EXCEPT !.next = x.next + 1]
    <2>1. /\ y \in Mig!RunStates /\ y.pc = "ingest" /\ y.file = x.file
          /\ y.fp = x.fp /\ y.next = x.next + 1
      BY <1>1, <1>2 DEF Mig!RunStates
    <2>2. /\ x.next + 1 \in 1..Len(Rows[x.file])
          /\ \A i \in 1..Len(Rows[x.file]) : i < x.next + 1 => Imported(es, x.fp, i)
      BY <1>1, <1>2, <1>4
    <2> HIDE DEF y
    <2>3. OnTrack(es, y)
      BY <1>1, <2>1, <2>2 DEF OnTrack
    <2> QED
      BY <1>4, <2>1, <2>3 DEF y, Mig!Advanced
  <1> QED
    BY <1>3, <1>4

LEMMA IngestRowKeeps ==
    ASSUME IInv, NEW p \in Runs, Mig!IngestRow(p)
    PROVE  IInv'
  <1> DEFINE event == Mig!EventOf(run[p])
  <1>1. /\ run[p].pc = "ingest" /\ run[p] \in Mig!RunStates /\ OnTrack(imported, run[p])
        /\ now' = now /\ version' = version /\ runs' = runs /\ kills' = kills
        /\ migration_receipts' = migration_receipts
    BY DEF Mig!IngestRow, IInv, Mig!TypeOK, RunsAreOnTrack
  <1>2. /\ event \in [id : Mig!Fingerprints \X Keys, key : Keys, at : Nat]
        /\ event.id = <<run[p].fp, event.key>> /\ event.id[1] = run[p].fp
        /\ event.key = Rows[run[p].fp[1]][run[p].next].key
    BY <1>1, BuiltEvent
  <1>3. \/ Mig!Ends(p, "conflict") /\ imported' = imported
        \/ /\ \A e \in imported : e.id = event.id => e = event
           /\ Mig!Advances(p) /\ imported' = imported \cup {event}
    BY DEF Mig!IngestRow
  <1> HIDE DEF event
  <1>4. CASE Mig!Ends(p, "conflict") /\ imported' = imported
    BY <1>1, <1>4, EndsKeeps DEF IInv, Mig!TypeOK, IdsNameRows, OneEventPerId,
       Mig!ReceiptMeansImported
  <1>5. CASE /\ \A e \in imported : e.id = event.id => e = event
             /\ Mig!Advances(p) /\ imported' = imported \cup {event}
    <2>1. OnTrack(imported', run[p]) /\ Imported(imported', run[p].fp, run[p].next)
      BY <1>1, <1>2, <1>5, OnTrackMonotone DEF Imported
    <2> DEFINE y == Mig!Advanced(run[p])
    <2>2. y \in Mig!RunStates /\ OnTrack(imported', y)
      BY <1>1, <2>1, AdvanceStaysOnTrack
    <2>3. run' = [run EXCEPT ![p] = y]
      BY <1>5 DEF Mig!Advances
    <2> HIDE DEF y
    <2>4. run' \in [Runs -> Mig!RunStates]
      BY <2>2, <2>3 DEF IInv, Mig!TypeOK
    <2>5. RunsAreOnTrack'
      <3>1. ASSUME NEW q \in Runs PROVE OnTrack(imported', run'[q])
        <4>1. CASE q = p
          BY <2>2, <2>3, <4>1 DEF IInv, Mig!TypeOK
        <4>2. CASE q # p
          <5>1. run'[q] = run[q] /\ OnTrack(imported, run[q])
            BY <2>3, <4>2 DEF IInv, Mig!TypeOK, RunsAreOnTrack
          <5> QED
            BY <1>5, <5>1, OnTrackMonotone
        <4> QED
          BY <4>1, <4>2
      <3> QED
        BY <3>1 DEF RunsAreOnTrack
    <2>6. Mig!TypeOK'
      BY <1>1, <1>2, <1>5, <2>4 DEF IInv, Mig!TypeOK
    <2>7. IdsNameRows' /\ OneEventPerId'
      BY <1>2, <1>5 DEF IInv, IdsNameRows, OneEventPerId
    <2>8. Mig!ReceiptMeansImported'
      BY <1>1, <1>5 DEF IInv, Mig!ReceiptMeansImported
    <2> QED
      BY <2>5, <2>6, <2>7, <2>8 DEF IInv
  <1> QED
    BY <1>3, <1>4, <1>5

LEMMA RecordKeeps ==
    ASSUME IInv, NEW p \in Runs, Mig!Record(p)
    PROVE  IInv'
  <1>1. /\ run[p].file \in Files /\ run[p].fp \in Mig!Fingerprints
        /\ run[p].fp[1] = run[p].file
        /\ \A i \in 1..Len(Rows[run[p].file]) : Imported(imported, run[p].fp, i)
    BY DEF Mig!Record, IInv, RunsAreOnTrack, OnTrack
  <1>2. /\ Mig!Ends(p, "imported") /\ imported' = imported
        /\ now' = now /\ version' = version /\ runs' = runs /\ kills' = kills
        /\ migration_receipts' = migration_receipts \cup {run[p].fp}
    BY DEF Mig!Record
  <1>3. run' \in [Runs -> Mig!RunStates] /\ RunsAreOnTrack'
    BY <1>2, EndsKeeps DEF IInv
  <1>4. Mig!TypeOK'
    BY <1>1, <1>2, <1>3 DEF IInv, Mig!TypeOK
  <1>5. Mig!ReceiptMeansImported'
    <2>1. DOMAIN Rows[run[p].file] = 1..Len(Rows[run[p].file])
      BY <1>1, RowsFact
    <2>2. \A i \in DOMAIN Rows[run[p].fp[1]] :
             \E e \in imported : e.id[1] = run[p].fp /\ e.key = Rows[run[p].fp[1]][i].key
      BY <1>1, <2>1 DEF Imported
    <2> QED
      BY <1>2, <2>2 DEF IInv, Mig!ReceiptMeansImported
  <1> QED
    BY <1>2, <1>3, <1>4, <1>5 DEF IInv, IdsNameRows, OneEventPerId

LEMMA StopShortKeeps ==
    ASSUME IInv, NEW p \in Runs, Mig!StopShort(p)
    PROVE  IInv'
  <1>1. /\ Mig!Ends(p, "partial") /\ imported' = imported
        /\ now' = now /\ version' = version /\ runs' = runs /\ kills' \in 0..MaxKills
        /\ migration_receipts' = migration_receipts
    BY MigrationFact DEF Mig!StopShort, IInv, Mig!TypeOK
  <1>2. run' \in [Runs -> Mig!RunStates] /\ RunsAreOnTrack'
    BY <1>1, EndsKeeps DEF IInv
  <1> QED
    BY <1>1, <1>2 DEF IInv, Mig!TypeOK, IdsNameRows, OneEventPerId, Mig!ReceiptMeansImported

(* Every step keeps the inductive invariant.                               *)
LEMMA NextIInv == IInv /\ [Mig!Next]_migrateVars => IInv'
  <1> SUFFICES ASSUME IInv, [Mig!Next]_migrateVars PROVE IInv'
    OBVIOUS
  <1>1. ASSUME NEW p \in Runs, NEW f \in Files, Mig!Begin(p, f) PROVE IInv'
    BY <1>1, BeginKeeps
  <1>2. ASSUME NEW p \in Runs, Mig!IngestRow(p) PROVE IInv'
    BY <1>2, IngestRowKeeps
  <1>3. ASSUME NEW p \in Runs, Mig!Record(p) PROVE IInv'
    BY <1>3, RecordKeeps
  <1>4. ASSUME NEW p \in Runs, Mig!StopShort(p) PROVE IInv'
    BY <1>4, StopShortKeeps
  <1>5. ASSUME NEW f \in Files, Mig!Rewrite(f) PROVE IInv'
    <2>1. version' \in [Files -> 1..MaxVersion]
      BY <1>5, MigrationFact DEF Mig!Rewrite, IInv, Mig!TypeOK
    <2> QED
      BY <1>5, <2>1 DEF Mig!Rewrite, IInv, Mig!TypeOK, IdsNameRows, OneEventPerId,
         RunsAreOnTrack, Mig!ReceiptMeansImported
  <1>6. ASSUME Mig!Tick PROVE IInv'
    <2>1. now' \in 1..MaxTime
      BY <1>6, MigrationFact DEF Mig!Tick, IInv, Mig!TypeOK
    <2> QED
      BY <1>6, <2>1 DEF Mig!Tick, IInv, Mig!TypeOK, IdsNameRows, OneEventPerId,
         RunsAreOnTrack, Mig!ReceiptMeansImported
  <1>7. CASE UNCHANGED migrateVars
    BY <1>7 DEF migrateVars, IInv, Mig!TypeOK, IdsNameRows, OneEventPerId, RunsAreOnTrack,
       Mig!ReceiptMeansImported
  <1> QED
    BY <1>1, <1>2, <1>3, <1>4, <1>5, <1>6, <1>7 DEF Mig!Next

LEMMA Inductive == MaintenanceSpec => []IInv
<1>1. MaintenanceInit => IInv
  BY InitIInv DEF MaintenanceInit
<1>2. IInv /\ [MaintenanceNext]_allVars => IInv'
  BY Parts, NextIInv
<1> QED
  BY <1>1, <1>2, PTL DEF MaintenanceSpec

-----------------------------------------------------------------------------
(* However often runs are interrupted, repeated or overlap, a row of one   *)
(* version of a file becomes one event (_deterministic_id, ingest).        *)
THEOREM RowsOnce == MaintenanceSpec => []OneEventPerRow
<1>1. IInv => OneEventPerRow
  BY DEF IInv, IdsNameRows, OneEventPerId, OneEventPerRow, Mig!OneEventPerRow
<1> QED
  BY <1>1, Inductive, PTL

(* Passing over a file with a receipt loses nothing (_already_imported).   *)
THEOREM ReceiptsAreKept == MaintenanceSpec => []ReceiptMeansImported
<1>1. IInv => ReceiptMeansImported
  BY DEF IInv, ReceiptMeansImported
<1> QED
  BY <1>1, Inductive, PTL

(* An event tells its row, and a row's own time is the event's: two events *)
(* of one row differ only where the row has no time.                       *)
TellsRow(e) ==
    \E i \in DOMAIN Rows[e.id[1][1]] :
        LET row == Rows[e.id[1][1]][i]
        IN  row.key = e.key /\ (row.time # None => e.at = row.time)

EventsTellRows == \A e \in imported : TellsRow(e)

RunsAreUndecided == \A p \in Runs : run[p].pc # "idle" => run[p].status = "none"

ConflictInv == IInv /\ EventsTellRows /\ RunsAreUndecided /\ Mig!ConflictsAreTimeless

LEMMA BuiltEventTells ==
    ASSUME NEW x \in Mig!RunStates, NEW es, OnTrack(es, x), x.pc = "ingest"
    PROVE  TellsRow(Mig!EventOf(x))
  <1>1. x.file \in Files /\ x.fp[1] = x.file /\ x.next \in 1..Len(Rows[x.file])
    BY DEF OnTrack
  <1>2. x.next \in DOMAIN Rows[x.fp[1]]
    BY <1>1, RowsFact
  <1> QED
    BY <1>2, BuiltEvent DEF TellsRow, Mig!occurred_at

LEMMA ConflictIngest ==
    ASSUME ConflictInv, NEW p \in Runs, Mig!IngestRow(p)
    PROVE  EventsTellRows' /\ RunsAreUndecided' /\ Mig!ConflictsAreTimeless'
  <1> DEFINE x == run[p]
             event == Mig!EventOf(x)
  <1>1. x.pc = "ingest" /\ x \in Mig!RunStates /\ OnTrack(imported, x)
    BY DEF Mig!IngestRow, ConflictInv, IInv, Mig!TypeOK, RunsAreOnTrack
  <1>2. /\ event \in [id : Mig!Fingerprints \X Keys, key : Keys, at : Nat]
        /\ event.id = <<x.fp, event.key>> /\ event.id[1] = x.fp
        /\ event.key = Rows[x.fp[1]][x.next].key
        /\ event.at = Mig!occurred_at(Rows[x.fp[1]][x.next], x.now)
        /\ TellsRow(event)
    BY <1>1, BuiltEvent, BuiltEventTells
  <1>3. /\ x.file \in Files /\ x.fp[1] = x.file
        /\ x.next \in DOMAIN Rows[x.file]
    BY <1>1, RowsFact DEF OnTrack
  <1>4. CASE /\ \E e \in imported : e.id = event.id /\ e # event
             /\ Mig!Ends(p, "conflict") /\ imported' = imported
    <2>1. PICK e \in imported : e.id = event.id /\ e # event
      BY <1>4
    <2>2. /\ e \in [id : Mig!Fingerprints \X Keys, key : Keys, at : Nat]
          /\ e.id = <<e.id[1], e.key>> /\ TellsRow(e)
      BY DEF ConflictInv, IInv, Mig!TypeOK, IdsNameRows, EventsTellRows
    <2>3. e.key = event.key /\ e.id[1] = x.fp
      BY <1>2, <2>1, <2>2
    <2>4. e.at # event.at
      BY <1>2, <2>1, <2>2, <2>3
    <2>5. PICK i \in DOMAIN Rows[x.file] :
              /\ Rows[x.file][i].key = e.key
              /\ Rows[x.file][i].time # None => e.at = Rows[x.file][i].time
      BY <1>3, <2>2, <2>3 DEF TellsRow
    <2>6. Rows[x.file][i].time = Rows[x.file][x.next].time
      <3>1. \A k, l \in DOMAIN Rows[x.file] : Rows[x.file][k].key = Rows[x.file][l].key
                => Rows[x.file][k].time = Rows[x.file][l].time
        BY <1>3, MigrationFact
      <3> QED
        BY <1>2, <1>3, <2>3, <2>5, <3>1
    <2>7. Rows[x.file][x.next].time = None
      BY <1>2, <1>3, <2>4, <2>5, <2>6 DEF Mig!occurred_at
    <2> DEFINE y == [x EXCEPT !.pc = "idle", !.status = "conflict"]
    <2>8. run' = [run EXCEPT ![p] = y]
      BY <1>4 DEF Mig!Ends
    <2>9. y.file = x.file /\ y.next = x.next /\ y.pc = "idle"
      BY <1>1 DEF Mig!RunStates
    <2> HIDE DEF y
    <2>10. \A q \in Runs : run'[q] = IF q = p THEN y ELSE run[q]
      BY <2>8 DEF ConflictInv, IInv, Mig!TypeOK
    <2>11. ASSUME NEW q \in Runs, run'[q].status = "conflict"
           PROVE  Rows[run'[q].file][run'[q].next].time = None
      <3>1. CASE q = p
        BY <2>7, <2>9, <2>10, <3>1
      <3>2. CASE q # p
        BY <2>10, <2>11, <3>2 DEF ConflictInv, Mig!ConflictsAreTimeless
      <3> QED
        BY <3>1, <3>2
    <2>12. RunsAreUndecided'
      BY <2>9, <2>10 DEF ConflictInv, RunsAreUndecided
    <2> QED
      BY <1>4, <2>11, <2>12 DEF ConflictInv, EventsTellRows, Mig!ConflictsAreTimeless
  <1>5. CASE Mig!Advances(p) /\ imported' = imported \cup {event}
    <2> DEFINE y == Mig!Advanced(x)
    <2>1. y.status = "none"
      BY <1>1 DEF Mig!Advanced, Mig!RunStates, ConflictInv, RunsAreUndecided
    <2>2. run' = [run EXCEPT ![p] = y]
      BY <1>5 DEF Mig!Advances
    <2> HIDE DEF y
    <2>3. Mig!ConflictsAreTimeless' /\ RunsAreUndecided'
      BY <2>1, <2>2
      DEF ConflictInv, Mig!ConflictsAreTimeless, RunsAreUndecided, IInv, Mig!TypeOK
    <2> QED
      BY <1>2, <1>5, <2>3 DEF ConflictInv, EventsTellRows
  <1> QED
    BY <1>4, <1>5 DEF Mig!IngestRow

LEMMA ConflictInvNext == ConflictInv /\ [Mig!Next]_migrateVars => ConflictInv'
  <1> SUFFICES ASSUME ConflictInv, [Mig!Next]_migrateVars PROVE ConflictInv'
    OBVIOUS
  <1>1. IInv'
    BY NextIInv DEF ConflictInv
  <1> DEFINE Rest == EventsTellRows' /\ RunsAreUndecided' /\ Mig!ConflictsAreTimeless'
  <1>2. ASSUME NEW p \in Runs, NEW f \in Files, Mig!Begin(p, f) PROVE Rest
    <2> DEFINE x == IF Mig!fingerprint(f) \in migration_receipts
                      THEN [Mig!Idle EXCEPT !.status = "already_imported"]
                      ELSE [Mig!Idle EXCEPT !.pc = "ingest", !.file = f,
                                        !.fp = Mig!fingerprint(f), !.now = now]
    <2>1. x.status # "conflict" /\ (x.pc # "idle" => x.status = "none")
      BY DEF Mig!Idle
    <2>2. run' = [run EXCEPT ![p] = x] /\ imported' = imported
      BY <1>2 DEF Mig!Begin
    <2> HIDE DEF x
    <2> QED
      BY <2>1, <2>2 DEF ConflictInv, IInv, Mig!TypeOK, EventsTellRows, RunsAreUndecided,
         Mig!ConflictsAreTimeless
  <1>3. ASSUME NEW p \in Runs, Mig!IngestRow(p) PROVE Rest
    BY <1>3, ConflictIngest
  <1>4. ASSUME NEW p \in Runs, Mig!Record(p) \/ Mig!StopShort(p) PROVE Rest
    <2>1. PICK s \in {"imported", "partial"} : Mig!Ends(p, s) /\ imported' = imported
      BY <1>4 DEF Mig!Record, Mig!StopShort
    <2> DEFINE x == [run[p] EXCEPT !.pc = "idle", !.status = s]
    <2>2. x.status # "conflict" /\ x.pc = "idle"
      <3>1. run[p] \in Mig!RunStates
        BY DEF ConflictInv, IInv, Mig!TypeOK
      <3> QED
        BY <3>1 DEF Mig!RunStates
    <2>3. run' = [run EXCEPT ![p] = x]
      BY <2>1 DEF Mig!Ends
    <2> HIDE DEF x
    <2> QED
      BY <2>1, <2>2, <2>3 DEF ConflictInv, IInv, Mig!TypeOK, EventsTellRows,
         RunsAreUndecided, Mig!ConflictsAreTimeless
  <1>5. CASE Mig!Tick \/ (\E f \in Files : Mig!Rewrite(f)) \/ UNCHANGED migrateVars
    BY <1>1, <1>5 DEF Mig!Tick, Mig!Rewrite, migrateVars, ConflictInv, EventsTellRows, RunsAreUndecided,
       Mig!ConflictsAreTimeless
  <1> QED
    BY <1>1, <1>2, <1>3, <1>4, <1>5 DEF Mig!Next, ConflictInv

(* Only a row without a time of its own can stop a repeated run            *)
(* (_deterministic_id, occurred_at, ingest).                               *)
THEOREM DatedRowsNeverConflict == MaintenanceSpec => []OnlyTimelessRowsConflict
<1>1. MaintenanceInit => ConflictInv
  BY InitIInv DEF MaintenanceInit, Mig!Init, Mig!Idle, ConflictInv, EventsTellRows,
     RunsAreUndecided, Mig!ConflictsAreTimeless
<1>2. ConflictInv /\ [MaintenanceNext]_allVars => ConflictInv'
  BY Parts, ConflictInvNext
<1>3. ConflictInv => OnlyTimelessRowsConflict
  BY DEF ConflictInv, IInv, OnlyTimelessRowsConflict
<1> QED
  BY <1>1, <1>2, <1>3, PTL DEF MaintenanceSpec

-----------------------------------------------------------------------------
(* Rebuild and quarantine.                                                 *)

(* What a replay keeps, entry by entry.                                    *)

UniqueIds(log) == \A i, j \in DOMAIN log : log[i].id = log[j].id => i = j

TableSet == [routes : RouteTable, requests : RequestTable,
             goals : GoalTable, attempts : AttemptTable]

(* Each route has the word of the evidence that is last by time, and of    *)
(* evidence of one instant last in the log.                                *)
About(log, r) == {i \in DOMAIN log : log[i].route = r /\ BearsOnRoute(log[i])}

Newest(log, r, i) ==
    \A j \in About(log, r) : \/ log[j].at < log[i].at
                             \/ log[j].at = log[i].at /\ j <= i

KeepsNewest(log, rows) ==
    \A r \in Routes :
        \/ About(log, r) = {} /\ rows[r] = None
        \/ \E i \in About(log, r) :
              /\ Newest(log, r, i)
              /\ rows[r] # None
              /\ rows[r].changedAt = log[i].at
              /\ rows[r].state = Verdict(log[i])

(* Tables that are what the log makes of them.                             *)
Sound(log, t) ==
    /\ Reflects(ToSet(log), t.routes)
    /\ Counts(ToSet(log), t.goals)
    /\ (\A e \in ToSet(log) : OrderFree(e)) => KeepsNewest(log, t.routes)

(* Tables without a row of what ingest rejects.                            *)
Clean(t) ==
    /\ \A r \in Routes : t.routes[r] # None =>
           r \notin Truncated /\ t.routes[r].source \notin FixtureIds
    /\ \A q \in FixtureIds : t.requests[q] = None

(* A set of naturals has a least member.                                   *)
LEMMA LeastNatural ==
    ASSUME NEW I, I \subseteq Nat, I # {}
    PROVE  \E i \in I : \A j \in I : i <= j
<1>1. IsWellFoundedOn({p \in Nat \X Nat : p[1] < p[2]}, Nat)
  BY NatLessThanWellFounded DEF OpToRel
<1>2. PICK i \in I : \A j \in I : ~(<<j, i>> \in {p \in Nat \X Nat : p[1] < p[2]})
  BY <1>1, WFMin
<1>3. \A j \in I : ~(j < i)
  BY <1>2
<1> QED
  BY <1>3

(* The stages of a replay: what the tables may be after each entry.        *)
Stages(start, log, k, after) ==
    after = [n \in 0..k |->
               IF n = 0 THEN {start}
               ELSE UNION {AppliedTo(t, Replayed(log[n])) : t \in after[n - 1]}]

(* The recursion that defines a replay has a solution.                     *)
LEMMA ReplayHasStages ==
    ASSUME NEW start, NEW log, Len(log) \in Nat
    PROVE  \E after : /\ Stages(start, log, Len(log), after)
                      /\ Replay(start, log) = after[Len(log)]
<1> DEFINE After(S, n) == UNION {AppliedTo(t, Replayed(log[n])) : t \in S}
           Missing == {k \in Nat : ~\E after : Stages(start, log, k, after)}
<1>1. Missing = {}
  <2>1. SUFFICES ASSUME Missing # {} PROVE FALSE
    OBVIOUS
  <2>2. PICK k \in Missing : \A j \in Missing : k <= j
    <3>1. Missing \subseteq Nat
      OBVIOUS
    <3> HIDE DEF Missing
    <3> QED
      BY <2>1, <3>1, LeastNatural
  <2>3. CASE k = 0
    <3> DEFINE f == [n \in 0..0 |-> {start}]
    <3>1. f = [n \in 0..0 |-> IF n = 0 THEN {start} ELSE After(f[n - 1], n)]
      OBVIOUS
    <3>2. Stages(start, log, 0, f)
      BY <3>1 DEF Stages
    <3> QED
      BY <2>2, <2>3, <3>2
  <2>4. CASE k # 0
    <3>1. k \in Nat /\ k - 1 \in Nat /\ ~(k <= k - 1)
      BY <2>2, <2>4
    <3>2. PICK h : Stages(start, log, k - 1, h)
      BY <2>2, <3>1
    <3> DEFINE f == [n \in 0..k |-> IF n = k THEN After(h[k - 1], k) ELSE h[n]]
    <3>3. h = [n \in 0..(k - 1) |-> IF n = 0 THEN {start} ELSE After(h[n - 1], n)]
      BY <3>2 DEF Stages
    <3> HIDE DEF After
    <3>4. ASSUME NEW n \in 0..k
          PROVE  f[n] = IF n = 0 THEN {start} ELSE After(f[n - 1], n)
      <4>1. CASE n = k
        <5>1. k - 1 \in 0..k /\ k - 1 # k /\ k \in 0..k
          BY <3>1
        <5>2. f[k - 1] = h[k - 1] /\ f[k] = After(h[k - 1], k)
          BY <5>1
        <5> QED
          BY <2>4, <4>1, <5>2
      <4>2. CASE n # k /\ n # 0
        <5>1. n - 1 \in 0..k /\ n - 1 # k /\ n \in 0..(k - 1)
          BY <3>1, <4>2
        <5>2. f[n - 1] = h[n - 1] /\ f[n] = h[n]
          BY <4>2, <5>1
        <5>3. h[n] = IF n = 0 THEN {start} ELSE After(h[n - 1], n)
          BY <3>3, <5>1
        <5> QED
          BY <5>2, <5>3
      <4>3. CASE n # k /\ n = 0
        <5>1. 0 \in 0..(k - 1) /\ 0 \in 0..k
          BY <3>1
        <5>2. f[0] = h[0] /\ h[0] = {start}
          BY <3>3, <4>3, <5>1
        <5> QED
          BY <4>3, <5>2
      <4> QED
        BY <4>1, <4>2, <4>3
    <3>5. f = [n \in 0..k |-> IF n = 0 THEN {start} ELSE After(f[n - 1], n)]
      BY <3>4
    <3>6. Stages(start, log, k, f)
      BY <3>5 DEF Stages, After
    <3> QED
      BY <2>2, <3>6
  <2> QED
    BY <2>3, <2>4
<1>2. \E after : Stages(start, log, Len(log), after)
  BY <1>1
<1> DEFINE it == CHOOSE after : Stages(start, log, Len(log), after)
<1>3. Stages(start, log, Len(log), it)
  BY <1>2
<1>4. Replay(start, log) = it[Len(log)]
  BY DEF Replay, Stages
<1> QED
  BY <1>3, <1>4

(* What holds at the start of a replay and is handed on by every entry     *)
(* holds at its end: good[n] are the tables that are good after n entries. *)
LEMMA ReplayStaysGood ==
    ASSUME NEW start, NEW log, Len(log) \in Nat, NEW good, start \in good[0],
           \A n \in 1..Len(log) : \A t \in good[n - 1] :
               AppliedTo(t, Replayed(log[n])) \subseteq good[n]
    PROVE  Replay(start, log) \subseteq good[Len(log)]
<1>1. PICK after : /\ Stages(start, log, Len(log), after)
                   /\ Replay(start, log) = after[Len(log)]
  BY ReplayHasStages
<1> DEFINE After(S, n) == UNION {AppliedTo(t, Replayed(log[n])) : t \in S}
           Bad == {n \in 0..Len(log) : ~(after[n] \subseteq good[n])}
<1>2. after = [n \in 0..Len(log) |-> IF n = 0 THEN {start} ELSE After(after[n - 1], n)]
  BY <1>1 DEF Stages
<1>3. ASSUME NEW n \in 1..Len(log), after[n - 1] \subseteq good[n - 1]
      PROVE  After(after[n - 1], n) \subseteq good[n]
  BY <1>3
<1> HIDE DEF After
<1>4. Bad = {}
  <2>1. SUFFICES ASSUME Bad # {} PROVE FALSE
    OBVIOUS
  <2>2. PICK n \in Bad : \A m \in Bad : n <= m
    <3>1. Bad \subseteq Nat
      OBVIOUS
    <3> HIDE DEF Bad
    <3> QED
      BY <2>1, <3>1, LeastNatural
  <2>3. CASE n = 0
    BY <1>2, <2>2, <2>3
  <2>4. CASE n # 0
    <3>1. n \in 1..Len(log) /\ n - 1 \in 0..Len(log) /\ ~(n <= n - 1)
      BY <2>2, <2>4
    <3>2. after[n - 1] \subseteq good[n - 1]
      BY <2>2, <3>1
    <3>3. after[n] = After(after[n - 1], n)
      BY <1>2, <2>4, <3>1
    <3> QED
      BY <1>3, <2>2, <3>1, <3>2, <3>3
  <2> QED
    BY <2>3, <2>4
<1> QED
  BY <1>1, <1>4

-----------------------------------------------------------------------------
(* One more event, live or replayed.                                       *)

(* A replay gives an event a key that only a request can do without.       *)
LEMMA ReplayedEvent ==
    ASSUME NEW e \in Event
    PROVE  /\ Replayed(e) \in Event /\ Replayed(e).id = e.id
           /\ Replayed(e).type = e.type
           /\ e.type \in ROUTE_EVENTS => Replayed(e) = e
           /\ \A f \in {"goal", "attempt", "at", "strategy", "freeOnly"} :
                 Replayed(e)[f] = e[f]
<1>1. e \in EventRecord /\ e.id \in EventIds
  BY DEF Event, EventRecord
<1>2. ReplayedKey(e) \in Routes \cup MalformedKeys \cup {None}
  BY <1>1, RebuildAssumption, EventFields DEF ReplayedKey
<1>3. Replayed(e) \in EventRecord
  BY <1>1, <1>2 DEF Replayed, EventRecord
<1>4. /\ Replayed(e).id = e.id /\ Replayed(e).type = e.type
      /\ \A f \in {"goal", "attempt", "at", "strategy", "freeOnly"} :
            Replayed(e)[f] = e[f]
  BY <1>1 DEF Replayed, EventRecord
<1>5. ASSUME e.type \in ROUTE_EVENTS
      PROVE  Replayed(e) = e
  <2>1. ReplayedKey(e) = e.route
    BY <1>5, RouteEventHasRoute, EvidenceAssumption DEF ReplayedKey
  <2> QED
    BY <1>1, <2>1 DEF Replayed, EventRecord
<1>6. Replayed(e) \in Event
  BY <1>3, <1>4, <1>5 DEF Event
<1> QED
  BY <1>4, <1>5, <1>6

(* Either way it leaves the same routes, goals and attempts.               *)
Comes(t, e, u) ==
    /\ u \in TableSet
    /\ u.routes = ApplyToRoutes(t.routes, HasRunning(t.requests, e.route), e)
    /\ u.requests \in ApplyToRequests(t.requests, e)
                          \cup ApplyToRequests(t.requests, Replayed(e))
    /\ u.goals = ApplyToGoals(t.goals, e)
    /\ u.attempts = ApplyToAttempts(t.attempts, e)

LEMMA AppliedTyped ==
    ASSUME NEW t \in TableSet, NEW e \in Event, NEW u \in AppliedTo(t, e)
    PROVE  Comes(t, e, u)
<1>1. PICK rq \in ApplyToRequests(t.requests, e) :
         u = [routes   |-> ApplyToRoutes(t.routes, HasRunning(t.requests, e.route), e),
              requests |-> rq,
              goals    |-> ApplyToGoals(t.goals, e),
              attempts |-> ApplyToAttempts(t.attempts, e)]
  BY DEF AppliedTo
<1>2. /\ t.routes \in RouteTable /\ t.requests \in RequestTable
      /\ t.goals \in GoalTable /\ t.attempts \in AttemptTable
      /\ HasRunning(t.requests, e.route) \in BOOLEAN
  BY DEF TableSet, HasRunning
<1>3. /\ ApplyToRoutes(t.routes, HasRunning(t.requests, e.route), e) \in RouteTable
      /\ rq \in RequestTable
      /\ ApplyToGoals(t.goals, e) \in GoalTable
      /\ ApplyToAttempts(t.attempts, e) \in AttemptTable
  BY <1>2, ApplyToRoutesTyped, ApplyToRequestsTyped, ApplyToGoalsTyped,
     ApplyToAttemptsTyped
<1> QED
  BY <1>1, <1>3 DEF TableSet, Comes

LEMMA ReplayedComes ==
    ASSUME NEW t \in TableSet, NEW e \in Event, NEW u \in AppliedTo(t, Replayed(e))
    PROVE  Comes(t, e, u)
<1> DEFINE d == Replayed(e)
<1>1. /\ d \in Event /\ d.type = e.type
      /\ e.type \in ROUTE_EVENTS => d = e
      /\ d.goal = e.goal /\ d.attempt = e.attempt /\ d.at = e.at
      /\ d.strategy = e.strategy /\ d.freeOnly = e.freeOnly
  BY ReplayedEvent
<1>2. u \in AppliedTo(t, d)
  OBVIOUS
<1> HIDE DEF d
<1>3. Comes(t, d, u)
  BY <1>1, <1>2, AppliedTyped
<1>4. CASE e.type \in ROUTE_EVENTS
  BY <1>1, <1>3, <1>4
<1>5. CASE e.type \notin ROUTE_EVENTS
  <2>1. \A running \in BOOLEAN : /\ ApplyToRoutes(t.routes, running, e) = t.routes
                                 /\ ApplyToRoutes(t.routes, running, d) = t.routes
    BY <1>1, <1>5 DEF ApplyToRoutes, SucceedsRoute, FailsRoute, ROUTE_EVENTS,
       ProbeTypes, AttemptTypes, SettleTypes
  <2>2. ApplyToGoals(t.goals, d) = ApplyToGoals(t.goals, e)
    BY <1>1 DEF ApplyToGoals, EnsureGoalRow, NewGoalRow, GoalEventRow, EscalatedRow
  <2>3. ApplyToAttempts(t.attempts, d) = ApplyToAttempts(t.attempts, e)
    BY <1>1, <1>5 DEF ApplyToAttempts, ROUTE_EVENTS, AttemptTypes
  <2>4. /\ HasRunning(t.requests, e.route) \in BOOLEAN
        /\ HasRunning(t.requests, d.route) \in BOOLEAN
    BY DEF HasRunning
  <2>5. u.requests \in ApplyToRequests(t.requests, d)
    BY <1>2 DEF AppliedTo
  <2> QED
    BY <1>3, <2>1, <2>2, <2>3, <2>4, <2>5 DEF Comes, d
<1> QED
  BY <1>4, <1>5

LEMMA AppliedBelongs ==
    ASSUME NEW t \in TableSet, Belong(t.attempts, t.goals),
           NEW e \in Event, NEW u, Comes(t, e, u)
    PROVE  Belong(u.attempts, u.goals)
BY BelongOneMore DEF TableSet, Comes

(* An event that is not rejected makes no row of one that is.              *)
LEMMA AppliedClean ==
    ASSUME NEW t \in TableSet, Clean(t), NEW e \in Event, ~Rejected(e),
           NEW u, Comes(t, e, u)
    PROVE  Clean(u)
<1>1. /\ t.routes \in RouteTable /\ t.requests \in RequestTable
      /\ HasRunning(t.requests, e.route) \in BOOLEAN
  BY DEF TableSet, HasRunning
<1>2. ASSUME NEW r \in Routes, u.routes[r] # None
      PROVE  r \notin Truncated /\ u.routes[r].source \notin FixtureIds
  <2>1. CASE u.routes[r] = t.routes[r]
    BY <1>2, <2>1 DEF Clean
  <2>2. CASE u.routes[r] # t.routes[r]
    <3>1. /\ r = e.route
          /\ u.routes[r] = NewRouteRow(e) \/ FollowsEvent(u.routes[r], e)
      BY <1>1, <2>2, RouteFollows DEF Comes
    <3>2. e.type \in ROUTE_EVENTS
      BY <2>2 DEF Comes, ApplyToRoutes, SucceedsRoute, FailsRoute, ROUTE_EVENTS,
         ProbeTypes, AttemptTypes, SettleTypes
    <3> QED
      BY <3>1, <3>2 DEF Rejected, NewRouteRow, FollowsEvent
  <2> QED
    BY <2>1, <2>2
<1>3. ASSUME NEW q \in FixtureIds
      PROVE  u.requests[q] = None
  <2>1. q \in EventIds /\ t.requests[q] = None /\ q # e.id
    BY RebuildAssumption DEF Clean, Rejected
  <2>2. PICK d \in Event : d.id = e.id /\ u.requests \in ApplyToRequests(t.requests, d)
    BY ReplayedEvent DEF Comes
  <2>3. \/ u.requests[q] = t.requests[q]
        \/ Queues(t.requests, u.requests, q, d)
        \/ Claims(t.requests, u.requests, q, d)
        \/ Finishes(t.requests, u.requests, q)
    BY <1>1, <2>1, <2>2, RequestsOutcome
  <2> QED
    BY <2>1, <2>2, <2>3 DEF Queues, Claims, Finishes
<1> QED
  BY <1>2, <1>3 DEF Clean

(* Appending an event adds it, after the others.                           *)
LEMMA Appended ==
    ASSUME NEW log \in Seq(Event), NEW e \in Event
    PROVE  /\ Append(log, e) \in Seq(Event)
           /\ Len(log) \in Nat /\ Len(Append(log, e)) = Len(log) + 1
           /\ DOMAIN log = 1..Len(log)
           /\ DOMAIN Append(log, e) = 1..(Len(log) + 1)
           /\ \A i \in DOMAIN log : Append(log, e)[i] = log[i] /\ log[i] \in Event
           /\ Append(log, e)[Len(log) + 1] = e
           /\ ToSet(Append(log, e)) = ToSet(log) \cup {e}
           /\ ToSet(log) \subseteq Event
<1>1. /\ Append(log, e) \in Seq(Event)
      /\ Len(log) \in Nat /\ Len(Append(log, e)) = Len(log) + 1
      /\ DOMAIN log = 1..Len(log)
      /\ DOMAIN Append(log, e) = 1..(Len(log) + 1)
      /\ \A i \in DOMAIN log : Append(log, e)[i] = log[i] /\ log[i] \in Event
      /\ Append(log, e)[Len(log) + 1] = e
  OBVIOUS
<1> QED
  BY <1>1 DEF ToSet

(* The word of evidence that bears on its route is kept, and of other      *)
(* evidence nothing is said, so the newest stays the newest.               *)
LEMMA AppliedKeepsNewest ==
    ASSUME NEW log \in Seq(Event), NEW rows \in RouteTable, KeepsNewest(log, rows),
           NEW e \in Event, OrderFree(e), NEW running \in BOOLEAN
    PROVE  KeepsNewest(Append(log, e), ApplyToRoutes(rows, running, e))
<1> DEFINE after == ApplyToRoutes(rows, running, e)
           longer == Append(log, e)
           n == Len(log) + 1
<1> SUFFICES ASSUME NEW r \in Routes
             PROVE  \/ About(longer, r) = {} /\ after[r] = None
                    \/ \E i \in About(longer, r) :
                          /\ Newest(longer, r, i)
                          /\ after[r] # None
                          /\ after[r].changedAt = longer[i].at
                          /\ after[r].state = Verdict(longer[i])
  BY DEF KeepsNewest
<1>1. /\ Len(log) \in Nat /\ DOMAIN log = 1..Len(log) /\ DOMAIN longer = 1..n
      /\ \A i \in DOMAIN log : longer[i] = log[i] /\ log[i] \in Event /\ log[i].at \in Nat
      /\ longer[n] = e /\ e.at \in Nat
  BY Appended, EventFields
<1>2. \/ About(log, r) = {} /\ rows[r] = None
      \/ \E i \in About(log, r) : /\ Newest(log, r, i)
                                  /\ rows[r] # None
                                  /\ rows[r].changedAt = log[i].at
                                  /\ rows[r].state = Verdict(log[i])
  BY DEF KeepsNewest
<1> HIDE DEF longer
<1>3. CASE ~(e.route = r /\ BearsOnRoute(e))
  <2>1. after[r] = rows[r]
    <3>1. CASE e.route # r
      BY <3>1, RouteFollows
    <3>2. CASE e.type \notin ROUTE_EVENTS
      BY <3>2 DEF ApplyToRoutes, SucceedsRoute, FailsRoute, ROUTE_EVENTS,
                  ProbeTypes, AttemptTypes, SettleTypes
    <3> QED
      BY <1>3, <3>1, <3>2 DEF OrderFree
  <2>2. About(longer, r) = About(log, r)
    BY <1>1, <1>3 DEF About
  <2>3. \A i \in About(log, r) :
           longer[i] = log[i] /\ (Newest(log, r, i) => Newest(longer, r, i))
    BY <1>1, <2>2 DEF Newest, About
  <2> HIDE DEF after
  <2> QED
    BY <1>2, <2>1, <2>2, <2>3
<1>4. CASE e.route = r /\ BearsOnRoute(e)
  <2>1. About(longer, r) = About(log, r) \cup {n}
    BY <1>1, <1>4 DEF About
  <2>2. \/ after[r] = rows[r] /\ rows[r] # None /\ e.at < rows[r].changedAt
        \/ /\ after[r] # None /\ FollowsEvent(after[r], e)
           /\ rows[r] # None => rows[r].changedAt <= e.at
    BY <1>4, RouteFollows
  <2> HIDE DEF after
  <2>3. CASE after[r] = rows[r] /\ rows[r] # None /\ e.at < rows[r].changedAt
    <3>1. PICK i \in About(log, r) : /\ Newest(log, r, i)
                                     /\ rows[r].changedAt = log[i].at
                                     /\ rows[r].state = Verdict(log[i])
      BY <1>2, <2>3
    <3>2. longer[i] = log[i] /\ i \in About(longer, r)
      BY <1>1, <2>1 DEF About
    <3>3. Newest(longer, r, i)
      <4> SUFFICES ASSUME NEW j \in About(longer, r)
                   PROVE  \/ longer[j].at < longer[i].at
                          \/ longer[j].at = longer[i].at /\ j <= i
        BY DEF Newest
      <4>1. CASE j = n
        BY <1>1, <2>3, <3>1, <3>2, <4>1
      <4>2. CASE j \in About(log, r)
        BY <1>1, <3>1, <3>2, <4>2 DEF Newest, About
      <4> QED
        BY <2>1, <4>1, <4>2
    <3> QED
      BY <2>3, <3>1, <3>2, <3>3
  <2>4. CASE /\ after[r] # None /\ FollowsEvent(after[r], e)
             /\ rows[r] # None => rows[r].changedAt <= e.at
    <3>1. n \in About(longer, r)
      BY <2>1
    <3>2. Newest(longer, r, n)
      <4> SUFFICES ASSUME NEW j \in About(longer, r)
                   PROVE  \/ longer[j].at < longer[n].at
                          \/ longer[j].at = longer[n].at /\ j <= n
        BY DEF Newest
      <4>1. CASE j = n
        BY <1>1, <4>1
      <4>2. CASE j \in About(log, r)
        <5>1. PICK i \in About(log, r) : Newest(log, r, i) /\ log[i].at <= e.at
          BY <1>2, <2>4, <4>2
        <5>2. i \in DOMAIN log /\ j \in DOMAIN log
          BY <4>2 DEF About
        <5>3. log[j].at <= e.at /\ j <= n
          BY <1>1, <4>2, <5>1, <5>2 DEF Newest
        <5> QED
          BY <1>1, <5>2, <5>3
      <4> QED
        BY <2>1, <4>1, <4>2
    <3> QED
      BY <1>1, <2>4, <3>1, <3>2 DEF FollowsEvent
  <2> QED
    BY <2>2, <2>3, <2>4
<1> QED
  BY <1>3, <1>4

(* So tables that are what the log makes of them stay so.                  *)
LEMMA AppliedSound ==
    ASSUME NEW log \in Seq(Event), UniqueIds(log), NEW t \in TableSet, Sound(log, t),
           NEW e \in Event, \A i \in DOMAIN log : log[i].id # e.id,
           NEW u, Comes(t, e, u)
    PROVE  Sound(Append(log, e), u) /\ UniqueIds(Append(log, e))
<1>1. /\ t.routes \in RouteTable /\ t.goals \in GoalTable
      /\ HasRunning(t.requests, e.route) \in BOOLEAN
  BY DEF TableSet, HasRunning
<1>2. /\ u.routes = ApplyToRoutes(t.routes, HasRunning(t.requests, e.route), e)
      /\ u.goals = ApplyToGoals(t.goals, e)
  BY DEF Comes
<1>3. ToSet(Append(log, e)) = ToSet(log) \cup {e} /\ ToSet(log) \subseteq Event
  BY Appended
<1>4. Reflects(ToSet(Append(log, e)), u.routes)
  BY <1>1, <1>2, <1>3, ReflectsOneMore DEF Sound
<1>5. Counts(ToSet(Append(log, e)), u.goals)
  <2>1. IsFiniteSet(ToSet(log))
    BY LogCounts DEF UniqueIds
  <2>2. e \notin ToSet(log)
    BY DEF ToSet
  <2> QED
    BY <1>1, <1>2, <1>3, <2>1, <2>2, CountsOneMore DEF Sound
<1>6. ASSUME \A d \in ToSet(Append(log, e)) : OrderFree(d)
      PROVE  KeepsNewest(Append(log, e), u.routes)
  BY <1>1, <1>2, <1>3, <1>6, AppliedKeepsNewest DEF Sound
<1>7. UniqueIds(Append(log, e))
  <2> SUFFICES ASSUME NEW i \in DOMAIN Append(log, e), NEW j \in DOMAIN Append(log, e),
                      Append(log, e)[i].id = Append(log, e)[j].id
               PROVE  i = j
    BY DEF UniqueIds
  <2>1. \A k \in DOMAIN Append(log, e) : k \in DOMAIN log \/ k = Len(log) + 1
    BY Appended
  <2> QED
    BY <2>1, Appended DEF UniqueIds
<1> QED
  BY <1>4, <1>5, <1>6, <1>7 DEF Sound

-----------------------------------------------------------------------------
(* A whole replay.                                                         *)
LEMMA PrefixOf ==
    ASSUME NEW log \in Seq(Event), NEW n \in 0..Len(log)
    PROVE  LET front == SubSeq(log, 1, n)
           IN  /\ front \in Seq(Event) /\ Len(front) = n /\ DOMAIN front = 1..n
               /\ DOMAIN log = 1..Len(log) /\ Len(log) \in Nat
               /\ \A i \in 1..n : front[i] = log[i]
               /\ UniqueIds(log) => UniqueIds(front)
               /\ ToSet(front) \subseteq ToSet(log)
               /\ n = Len(log) => front = log
               /\ n > 0 => front = Append(SubSeq(log, 1, n - 1), log[n])
<1> DEFINE front == SubSeq(log, 1, n)
<1>1. /\ front \in Seq(Event) /\ Len(front) = n /\ DOMAIN front = 1..n
      /\ DOMAIN log = 1..Len(log) /\ Len(log) \in Nat
      /\ \A i \in 1..n : front[i] = log[i]
  OBVIOUS
<1>2. n = Len(log) => front = log
  BY SubSeqFull
<1>3. n > 0 => front = Append(SubSeq(log, 1, n - 1), log[n])
  <2> SUFFICES ASSUME n > 0 PROVE front = Append(SubSeq(log, 1, n - 1), log[n])
    OBVIOUS
  <2> DEFINE less == SubSeq(log, 1, n - 1)
             most == Append(less, log[n])
  <2>1. less \in Seq(Event) /\ Len(less) = n - 1 /\ \A i \in 1..(n - 1) : less[i] = log[i]
    OBVIOUS
  <2> HIDE DEF less
  <2>2. /\ most \in Seq(Event) /\ Len(most) = n
        /\ \A i \in 1..(n - 1) : most[i] = log[i]
        /\ most[n] = log[n]
    BY <1>1, <2>1
  <2> HIDE DEF most, front
  <2>3. \A i \in 1..n : front[i] = most[i]
    BY <1>1, <2>2
  <2>4. front = most
    BY <1>1, <2>2, <2>3, SeqEqual
  <2> QED
    BY <2>4 DEF most, less
<1>4. /\ UniqueIds(log) => UniqueIds(front)
      /\ ToSet(front) \subseteq ToSet(log)
  <2> HIDE DEF front
  <2> QED
    BY <1>1 DEF UniqueIds, ToSet
<1> QED
  BY <1>1, <1>2, <1>3, <1>4, Zenon

(* Empty tables are what an empty log makes of them.                       *)
LEMMA NothingIsSound ==
    /\ EmptyTables \in TableSet
    /\ Sound(<<>>, EmptyTables)
    /\ Belong(EmptyTables.attempts, EmptyTables.goals)
    /\ Clean(EmptyTables)
<1>1. EmptyTables \in TableSet
  BY DEF EmptyTables, TableSet, RouteTable, RequestTable, GoalTable, AttemptTable
<1>2. ToSet(<<>>) = {}
  BY DEF ToSet
<1>3. \A r \in Routes : EmptyTables.routes[r] = None
  BY DEF EmptyTables
<1>4. \A x \in Goals : EmptyTables.goals[x] = None
  BY DEF EmptyTables
<1>5. /\ \A x \in Attempts : EmptyTables.attempts[x] = None
      /\ \A q \in EventIds : EmptyTables.requests[q] = None
  BY DEF EmptyTables
<1>6. About(<<>>, 0) = {} /\ \A r : About(<<>>, r) = {}
  BY DEF About
<1>7. Sound(<<>>, EmptyTables)
  BY <1>2, <1>3, <1>4, <1>6 DEF Sound, Reflects, Counts, StartsIn, KeepsNewest
<1>8. Belong(EmptyTables.attempts, EmptyTables.goals)
  BY <1>5 DEF Belong
<1>9. Clean(EmptyTables)
  BY <1>3, <1>5, RebuildAssumption DEF Clean
<1> QED
  BY <1>1, <1>7, <1>8, <1>9

(* The tables a log may leave.                                             *)
TablesOf(log) ==
    {t \in TableSet :
        /\ Sound(log, t)
        /\ Belong(t.attempts, t.goals)
        /\ (\A e \in ToSet(log) : ~Rejected(e)) => Clean(t)}

(* A replay into empty tables ends with what the log makes of them.        *)
LEMMA ReplaySound ==
    ASSUME NEW log \in Seq(Event), UniqueIds(log)
    PROVE  Replay(EmptyTables, log) \subseteq TablesOf(log)
<1> DEFINE N == Len(log)
           front(n) == SubSeq(log, 1, n)
           good == [n \in 0..N |-> TablesOf(front(n))]
<1>1. N \in Nat /\ DOMAIN log = 1..N /\ \A i \in 1..N : log[i] \in Event
  OBVIOUS
<1>2. EmptyTables \in good[0]
  <2>1. front(0) = <<>>
    BY SubSeqEmpty
  <2>2. EmptyTables \in TablesOf(<<>>)
    BY NothingIsSound DEF TablesOf
  <2> HIDE DEF front
  <2> QED
    BY <1>1, <2>1, <2>2
<1>3. ASSUME NEW n \in 1..N, NEW u \in TablesOf(front(n - 1)), NEW v \in AppliedTo(u, Replayed(log[n]))
      PROVE  v \in TablesOf(front(n))
  <2> DEFINE e == log[n]
             less == front(n - 1)
  <2>1. n - 1 \in 0..N /\ n \in 0..N /\ n > 0
    BY <1>1
  <2>2. /\ u \in TableSet /\ Sound(less, u) /\ Belong(u.attempts, u.goals)
        /\ (\A d \in ToSet(less) : ~Rejected(d)) => Clean(u)
    BY DEF TablesOf
  <2>3. /\ less \in Seq(Event) /\ UniqueIds(less) /\ DOMAIN less = 1..(n - 1)
        /\ \A i \in 1..(n - 1) : less[i] = log[i]
    BY <2>1, PrefixOf
  <2>4. front(n) = Append(less, e) /\ e \in Event
    BY <1>1, <2>1, PrefixOf
  <2>5. \A i \in DOMAIN less : less[i].id # e.id
    BY <1>1, <2>3 DEF UniqueIds
  <2> HIDE DEF less, e
  <2>6. Comes(u, e, v)
    <3>1. v \in AppliedTo(u, Replayed(e))
      BY <1>3 DEF e
    <3> QED
      BY <2>2, <2>4, <3>1, ReplayedComes
  <2>7. Sound(front(n), v) /\ v \in TableSet /\ Belong(v.attempts, v.goals)
    <3>1. v \in TableSet
      BY <2>6 DEF Comes
    <3> QED
      BY <2>2, <2>3, <2>4, <2>5, <2>6, <3>1, AppliedSound, AppliedBelongs
  <2>8. ASSUME \A d \in ToSet(front(n)) : ~Rejected(d)
        PROVE  Clean(v)
    <3>1. ToSet(front(n)) = ToSet(less) \cup {e}
      BY <2>3, <2>4, Appended
    <3> QED
      BY <2>2, <2>4, <2>6, <2>8, <3>1, AppliedClean
  <2> HIDE DEF front
  <2> QED
    BY <2>7, <2>8 DEF TablesOf
<1> HIDE DEF front
<1>4. Replay(EmptyTables, log) \subseteq good[N]
  <2>1. \A n \in 1..N : \A u \in good[n - 1] : AppliedTo(u, Replayed(log[n])) \subseteq good[n]
    BY <1>1, <1>3
  <2> HIDE DEF good
  <2> QED
    BY <1>1, <1>2, <2>1, ReplayStaysGood
<1>5. front(N) = log
  BY SubSeqFull DEF front
<1> QED
  BY <1>1, <1>4, <1>5

-----------------------------------------------------------------------------
(* Sorting.                                                                *)

LEMMA UpTo ==
    ASSUME NEW n \in Nat
    PROVE  IsFiniteSet(1..n) /\ Cardinality(1..n) = n
BY FS_Interval

(* An ordered choice of indexes takes each one once, and in that order.    *)
LEMMA InOrderSorts ==
    ASSUME NEW log, NEW S, IsFiniteSet(S), NEW before, Orders(before, S)
    PROVE  \E p \in [1..Cardinality(S) -> S] :
              /\ InOrder(log, S, before) = [n \in 1..Cardinality(S) |-> log[p[n]]]
              /\ \A i \in S : \E n \in 1..Cardinality(S) : p[n] = i
              /\ \A m, n \in 1..Cardinality(S) : m < n => <<p[m], p[n]>> \in before
<1> DEFINE p == Ordered(S, before)
<1>1. /\ p \in [1..Cardinality(S) -> S]
      /\ \A i \in S : \E n \in 1..Cardinality(S) : p[n] = i
      /\ \A m, n \in 1..Cardinality(S) : m < n => <<p[m], p[n]>> \in before
  BY OrderedSorts
<1> HIDE DEF p
<1>2. InOrder(log, S, before) = [n \in 1..Cardinality(S) |-> log[p[n]]]
  BY <1>1 DEF InOrder, p
<1> QED
  BY <1>1, <1>2

(* A choice of indexes of a log is a log of these events, each once.       *)
LEMMA InOrderIsALog ==
    ASSUME NEW log \in Seq(Event), UniqueIds(log), NEW S \in SUBSET DOMAIN log,
           NEW before, Orders(before, S)
    PROVE  LET sorted == InOrder(log, S, before)
           IN  /\ sorted \in Seq(Event) /\ UniqueIds(sorted)
               /\ Len(sorted) = Cardinality(S) /\ DOMAIN sorted = 1..Cardinality(S)
               /\ ToSet(sorted) = {log[i] : i \in S}
<1> DEFINE N == Cardinality(S)
<1>1. IsFiniteSet(S) /\ N \in Nat
  BY PositionsFinite
<1>2. PICK p \in [1..N -> S] :
         /\ InOrder(log, S, before) = [n \in 1..N |-> log[p[n]]]
         /\ \A i \in S : \E n \in 1..N : p[n] = i
         /\ \A m, n \in 1..N : m < n => <<p[m], p[n]>> \in before
  BY <1>1, InOrderSorts
<1> DEFINE sorted == InOrder(log, S, before)
<1>3. \A i \in S : log[i] \in Event /\ i \in DOMAIN log
  OBVIOUS
<1>4. ASSUME NEW m \in 1..N, NEW n \in 1..N, p[m] = p[n]
      PROVE  m = n
  <2>1. p[m] \in S /\ <<p[m], p[m]>> \notin before
    BY <1>2 DEF Orders
  <2>2. ~(m < n) /\ ~(n < m)
    BY <1>2, <1>4, <2>1
  <2> QED
    BY <1>1, <2>2
<1>5. sorted = [n \in 1..N |-> log[p[n]]]
  BY <1>2
<1> HIDE DEF sorted, N
<1>6. sorted \in Seq(Event) /\ Len(sorted) = N /\ DOMAIN sorted = 1..N
  <2>1. \A n \in 1..N : log[p[n]] \in Event
    BY <1>2, <1>3
  <2> QED
    BY <1>1, <1>5, <2>1
<1>7. UniqueIds(sorted)
  BY <1>2, <1>3, <1>4, <1>5, <1>6 DEF UniqueIds
<1>8. ToSet(sorted) = {log[i] : i \in S}
  BY <1>2, <1>5, <1>6 DEF ToSet
<1> QED
  BY <1>6, <1>7, <1>8 DEF sorted, N

(* ORDER BY occurred_at, seq loses and repeats nothing.                    *)
Earlier(log) ==
    {p \in Pairs(log) : \/ log[p[1]].at < log[p[2]].at
                        \/ log[p[1]].at = log[p[2]].at /\ p[1] < p[2]}

LEMMA EarlierOrders ==
    ASSUME NEW log \in Seq(Event)
    PROVE  /\ Orders(Earlier(log), DOMAIN log)
           /\ \A i, j \in DOMAIN log :
                 <<i, j>> \in Earlier(log) <=>
                    \/ log[i].at < log[j].at
                    \/ log[i].at = log[j].at /\ i < j
<1>1. \A i \in DOMAIN log : i \in Nat /\ log[i].at \in Nat
  BY EventFields
<1>2. \A i, j \in DOMAIN log :
         <<i, j>> \in Earlier(log) <=>
            \/ log[i].at < log[j].at
            \/ log[i].at = log[j].at /\ i < j
  BY DEF Earlier, Pairs
<1>3. ASSUME NEW i \in DOMAIN log, NEW j \in DOMAIN log, NEW k \in DOMAIN log,
             <<i, j>> \in Earlier(log), <<j, k>> \in Earlier(log)
      PROVE  <<i, k>> \in Earlier(log)
  BY <1>1, <1>2, <1>3
<1>4. \A i \in DOMAIN log : <<i, i>> \notin Earlier(log)
  BY <1>1, <1>2
<1>5. ASSUME NEW i \in DOMAIN log, NEW j \in DOMAIN log, i # j
      PROVE  <<i, j>> \in Earlier(log) \/ <<j, i>> \in Earlier(log)
  <2>1. /\ i \in Nat /\ j \in Nat /\ log[i].at \in Nat /\ log[j].at \in Nat
    BY <1>1
  <2>2. \/ log[i].at < log[j].at \/ log[j].at < log[i].at
        \/ log[i].at = log[j].at /\ (i < j \/ j < i)
    BY <1>5, <2>1
  <2> QED
    BY <1>2, <2>2
<1> QED
  BY <1>2, <1>3, <1>4, <1>5 DEF Orders

LEMMA ByTimeKeeps ==
    ASSUME NEW log \in Seq(Event), UniqueIds(log)
    PROVE  /\ ByTime(log) \in Seq(Event) /\ UniqueIds(ByTime(log))
           /\ Len(ByTime(log)) = Len(log)
           /\ ToSet(ByTime(log)) = ToSet(log)
<1>1. ByTime(log) = InOrder(log, DOMAIN log, Earlier(log))
  BY DEF ByTime, Earlier
<1>2. DOMAIN log = 1..Len(log) /\ Len(log) \in Nat
  OBVIOUS
<1>3. Cardinality(DOMAIN log) = Len(log)
  BY <1>2, UpTo
<1>4. {log[i] : i \in DOMAIN log} = ToSet(log)
  BY DEF ToSet
<1>5. DOMAIN log \in SUBSET DOMAIN log
  OBVIOUS
<1>6. Orders(Earlier(log), DOMAIN log)
  BY EarlierOrders
<1> DEFINE sorted == InOrder(log, DOMAIN log, Earlier(log))
<1>7. /\ sorted \in Seq(Event) /\ UniqueIds(sorted)
      /\ Len(sorted) = Cardinality(DOMAIN log)
      /\ ToSet(sorted) = {log[i] : i \in DOMAIN log}
  BY <1>5, <1>6, InOrderIsALog
<1> HIDE DEF sorted
<1>8. ByTime(log) = sorted
  BY <1>1 DEF sorted
<1> QED
  BY <1>3, <1>4, <1>7, <1>8

(* A DELETE leaves the other events, and all of them if it names none.     *)
LEMMA WithoutKeeps ==
    ASSUME NEW log \in Seq(Event), UniqueIds(log), NEW doomed
    PROVE  /\ Without(log, doomed) \in Seq(Event) /\ UniqueIds(Without(log, doomed))
           /\ ToSet(Without(log, doomed)) = ToSet(log) \ doomed
           /\ doomed = {} => Without(log, doomed) = log
<1> DEFINE S == {i \in DOMAIN log : log[i] \notin doomed}
           before == {p \in Pairs(log) : p[1] < p[2]}
           N == Len(log)
<1>1. N \in Nat /\ DOMAIN log = 1..N
  OBVIOUS
<1>2. \A i, j \in DOMAIN log : <<i, j>> \in before <=> i < j
  BY DEF Pairs
<1>3. S \in SUBSET DOMAIN log
  OBVIOUS
<1>4. Orders(before, S)
  <2> HIDE DEF before, S
  <2> QED
    BY <1>1, <1>2, <1>3 DEF Orders
<1>5. Without(log, doomed) = InOrder(log, S, before)
  BY DEF Without
<1>6. {log[i] : i \in S} = ToSet(log) \ doomed
  BY DEF ToSet
<1>7. ASSUME doomed = {}
      PROVE  InOrder(log, S, before) = log
  <2>1. S = 1..N
    BY <1>1, <1>7
  <2>2. Cardinality(S) = N
    BY <1>1, <2>1, UpTo
  <2>3. ASSUME NEW i \in 1..N
        PROVE  Cardinality({j \in S : <<j, i>> \in before}) = i - 1
    <3>1. {j \in S : <<j, i>> \in before} = 1..(i - 1)
      <4> HIDE DEF before, S
      <4> QED
        BY <1>1, <1>2, <2>1
    <3>2. Cardinality(1..(i - 1)) = i - 1
      BY <1>1, UpTo
    <3> QED
      BY <3>1, <3>2
  <2>4. ASSUME NEW n \in 1..N
        PROVE  (CHOOSE i \in S : Cardinality({j \in S : <<j, i>> \in before}) = n - 1) = n
    <3> DEFINE rank(i) == Cardinality({j \in S : <<j, i>> \in before})
    <3>1. \A i \in S : rank(i) = i - 1
      BY <2>1, <2>3
    <3>2. n \in S /\ \A i \in S : i \in Nat
      BY <2>1
    <3> HIDE DEF rank, S, before
    <3>3. (CHOOSE i \in S : rank(i) = n - 1) = n
      BY <3>1, <3>2
    <3> QED
      BY <3>3 DEF rank
  <2>5. InOrder(log, S, before) = [n \in 1..N |-> log[n]]
    <3> DEFINE at(n) == CHOOSE i \in S : Cardinality({j \in S : <<j, i>> \in before}) = n - 1
           order == Ordered(S, before)
    <3>1. /\ InOrder(log, S, before) = [n \in DOMAIN order |-> log[order[n]]]
          /\ order = [n \in 1..Cardinality(S) |-> at(n)]
      BY Zenon DEF InOrder, Ordered
    <3>2. \A n \in 1..N : at(n) = n
      BY <2>4
    <3> HIDE DEF at, order, S, before
    <3> QED
      BY <2>2, <3>1, <3>2
  <2> HIDE DEF S, before
  <2> QED
    BY <1>1, <2>5
<1> HIDE DEF S, before
<1> QED
  BY <1>3, <1>4, <1>5, <1>6, <1>7, InOrderIsALog

(* Evidence that is the newest by time is the newest by arrival.           *)
LEMMA SortedKeepsNewest ==
    ASSUME NEW log \in Seq(Event), NEW rows, KeepsNewest(ByTime(log), rows)
    PROVE  KeepsNewest(log, rows)
<1> DEFINE sorted == ByTime(log)
           N == Len(log)
<1>1. /\ N \in Nat /\ DOMAIN log = 1..N
      /\ \A i \in DOMAIN log : i \in Nat /\ log[i].at \in Nat
  BY EventFields
<1>2. IsFiniteSet(DOMAIN log) /\ Cardinality(DOMAIN log) = N
  BY <1>1, UpTo
<1>3. sorted = InOrder(log, DOMAIN log, Earlier(log))
  BY DEF ByTime, Earlier
<1>4. PICK p \in [1..N -> DOMAIN log] :
         /\ sorted = [n \in 1..N |-> log[p[n]]]
         /\ \A i \in DOMAIN log : \E n \in 1..N : p[n] = i
         /\ \A m, n \in 1..N : m < n => <<p[m], p[n]>> \in Earlier(log)
  <2>1. Orders(Earlier(log), DOMAIN log)
    BY EarlierOrders
  <2>2. \E p \in [1..Cardinality(DOMAIN log) -> DOMAIN log] :
           /\ InOrder(log, DOMAIN log, Earlier(log))
                 = [n \in 1..Cardinality(DOMAIN log) |-> log[p[n]]]
           /\ \A i \in DOMAIN log : \E n \in 1..Cardinality(DOMAIN log) : p[n] = i
           /\ \A m, n \in 1..Cardinality(DOMAIN log) :
                 m < n => <<p[m], p[n]>> \in Earlier(log)
    BY <1>2, <2>1, InOrderSorts, Zenon
  <2> HIDE DEF sorted, N
  <2> QED
    BY <1>2, <1>3, <2>2, Zenon
<1>5. KeepsNewest(sorted, rows)
  OBVIOUS
<1> HIDE DEF sorted, N
<1>6. DOMAIN sorted = 1..N /\ \A n \in 1..N : sorted[n] = log[p[n]]
  BY <1>4
<1> SUFFICES ASSUME NEW r \in Routes
             PROVE  \/ About(log, r) = {} /\ rows[r] = None
                    \/ \E i \in About(log, r) :
                          /\ Newest(log, r, i)
                          /\ rows[r] # None
                          /\ rows[r].changedAt = log[i].at
                          /\ rows[r].state = Verdict(log[i])
  BY DEF KeepsNewest
<1>7. About(sorted, r) = {n \in 1..N : p[n] \in About(log, r)}
  BY <1>4, <1>6 DEF About
<1>8. ASSUME NEW i \in About(log, r)
      PROVE  \E m \in About(sorted, r) : p[m] = i
  BY <1>4, <1>7 DEF About
<1>9. CASE About(sorted, r) = {} /\ rows[r] = None
  BY <1>8, <1>9
<1>10. CASE \E n \in About(sorted, r) : /\ Newest(sorted, r, n)
                                        /\ rows[r] # None
                                        /\ rows[r].changedAt = sorted[n].at
                                        /\ rows[r].state = Verdict(sorted[n])
  <2>1. PICK n \in About(sorted, r) : /\ Newest(sorted, r, n)
                                      /\ rows[r] # None
                                      /\ rows[r].changedAt = sorted[n].at
                                      /\ rows[r].state = Verdict(sorted[n])
    BY <1>10
  <2>2. n \in 1..N /\ p[n] \in About(log, r) /\ p[n] \in DOMAIN log /\ sorted[n] = log[p[n]]
    BY <1>4, <1>6, <1>7
  <2>3. Newest(log, r, p[n])
    <3> SUFFICES ASSUME NEW j \in About(log, r)
                 PROVE  \/ log[j].at < log[p[n]].at
                        \/ log[j].at = log[p[n]].at /\ j <= p[n]
      BY DEF Newest
    <3>1. PICK m \in About(sorted, r) : p[m] = j
      BY <1>8
    <3>2. m \in 1..N /\ sorted[m] = log[j] /\ j \in DOMAIN log
      BY <1>6, <1>7, <3>1 DEF About
    <3>3. \/ log[j].at < log[p[n]].at
          \/ log[j].at = log[p[n]].at /\ m <= n
      BY <2>1, <2>2, <3>2 DEF Newest
    <3>4. m < n => \/ log[j].at < log[p[n]].at
                   \/ log[j].at = log[p[n]].at /\ j < p[n]
      BY <1>4, <2>2, <3>1, <3>2, EarlierOrders
    <3>5. m = n => j = p[n]
      BY <3>1
    <3>6. /\ m \in Nat /\ n \in Nat /\ j \in Nat /\ p[n] \in Nat
          /\ log[j].at \in Nat /\ log[p[n]].at \in Nat
      BY <1>1, <2>2, <3>2
    <3> QED
      BY <3>3, <3>4, <3>5, <3>6
  <2> QED
    BY <2>1, <2>2, <2>3
<1> QED
  BY <1>5, <1>9, <1>10 DEF KeepsNewest

(* There is one newest word.                                               *)
LEMMA OneNewestWord ==
    ASSUME NEW log \in Seq(Event), NEW r \in Routes,
           NEW rows, KeepsNewest(log, rows), NEW rows2, KeepsNewest(log, rows2)
    PROVE  \/ rows[r] = None /\ rows2[r] = None
           \/ /\ rows[r] # None /\ rows2[r] # None
              /\ rows2[r].state = rows[r].state
              /\ rows2[r].changedAt = rows[r].changedAt
<1>1. \A i \in About(log, r) : i \in Nat /\ log[i].at \in Nat
  BY EventFields DEF About
<1>2. ASSUME NEW i \in About(log, r), Newest(log, r, i),
             NEW j \in About(log, r), Newest(log, r, j)
      PROVE  i = j
  BY <1>1, <1>2 DEF Newest
<1> QED
  BY <1>2 DEF KeepsNewest

-----------------------------------------------------------------------------
(* The rebuild: what a job at work knows of the log it works on.           *)
Job == [pc : {"idle", "chosen", "selected", "read", "replayed"},
        job : {None, "rebuild", "quarantine"},
        rows : Seq(Event), doomed : SUBSET Event]

Quarantining ==
    maintenance.job = "quarantine" /\ maintenance.pc \in {"chosen", "read", "replayed"}

LogKept == events \in Seq(Event) /\ UniqueIds(events) /\ revision \in Nat

TablesKept == Tables \in TableSet /\ Belong(attempts, goals)

FaithfulTables == Faithful => revision = Len(events) /\ Sound(events, Tables)

(* A job that is to delete knows all that ingest would reject, as no more  *)
(* of it comes in, and one that has read knows a part of the log, by time. *)
JobKnows ==
    /\ maintenance \in Job /\ receipt \in BOOLEAN
    /\ maintenance.pc = "selected" =>
          \A d \in ToSet(events) : Rejected(d) => d \in maintenance.doomed
    /\ maintenance.pc = "read" =>
          \E n \in 0..Len(events) : maintenance.rows = ByTime(SubSeq(events, 1, n))
    /\ maintenance.pc # "idle" => maintenance.job \in {"rebuild", "quarantine"}
    /\ maintenance.pc = "replayed" => maintenance.job = "quarantine"

FixturesGone ==
    /\ receipt \/ Quarantining => \A d \in ToSet(events) : ~Rejected(d)
    /\ receipt \/ maintenance.pc = "replayed" => Clean(Tables)

RebuildInv == LogKept /\ TablesKept /\ FaithfulTables /\ JobKnows /\ FixturesGone

LEMMA TablesTell ==
    /\ Tables.routes = routes /\ Tables.requests = requests
    /\ Tables.goals = goals /\ Tables.attempts = attempts
    /\ Tables'.routes = routes' /\ Tables'.requests = requests'
    /\ Tables'.goals = goals' /\ Tables'.attempts = attempts'
    /\ \A t \in TableSet :
          /\ routes' = t.routes /\ requests' = t.requests
          /\ goals' = t.goals /\ attempts' = t.attempts
          => Tables' = t
    /\ \A t \in TableSet :
          /\ routes = t.routes /\ requests = t.requests
          /\ goals = t.goals /\ attempts = t.attempts
          => Tables = t
BY DEF Tables, TableSet

LEMMA NormalizedLogs == Seq(Normalized) \subseteq Seq(Event)
<1>1. Normalized \subseteq Event
  BY DEF Normalized
<1> HIDE DEF Normalized
<1> QED
  BY <1>1

(* It holds at first, whatever log an older build has left.                *)
LEMMA RebuildInvInit == RebuildInit => RebuildInv
<1> SUFFICES ASSUME RebuildInit PROVE RebuildInv
  OBVIOUS
<1>1. events \in Seq(Event) /\ UniqueIds(events) /\ revision = Len(events) /\ revision \in Nat
  BY RebuildAssumption, NormalizedLogs DEF RebuildInit, UniqueIds
<1>2. PICK t \in Replay(EmptyTables, events) :
         /\ routes = t.routes /\ requests = t.requests
         /\ goals = t.goals /\ attempts = t.attempts
  BY DEF RebuildInit
<1>3. t \in TablesOf(events)
  BY <1>1, ReplaySound
<1>4. Tables = t
  BY <1>2, <1>3, TablesTell DEF TablesOf
<1>5. Tables \in TableSet /\ Sound(events, Tables) /\ Belong(attempts, goals)
  BY <1>2, <1>3, <1>4 DEF TablesOf
<1>6. maintenance = NoJob /\ receipt = FALSE /\ NoJob \in Job /\ NoJob.pc = "idle"
  BY DEF RebuildInit, NoJob, Job
<1> QED
  BY <1>1, <1>5, <1>6 DEF RebuildInv, LogKept, TablesKept, FaithfulTables, JobKnows,
     FixturesGone, Quarantining

LEMMA PrefixKept ==
    ASSUME NEW log \in Seq(Event), NEW e \in Event, NEW n \in 0..Len(log)
    PROVE  SubSeq(Append(log, e), 1, n) = SubSeq(log, 1, n)
<1> DEFINE longer == Append(log, e)
           one == SubSeq(longer, 1, n)
           two == SubSeq(log, 1, n)
<1>1. /\ longer \in Seq(Event) /\ Len(longer) = Len(log) + 1 /\ Len(log) \in Nat
      /\ \A i \in 1..Len(log) : longer[i] = log[i]
  OBVIOUS
<1>2. n \in 0..Len(longer)
  BY <1>1
<1> HIDE DEF longer
<1>3. /\ one \in Seq(Event) /\ Len(one) = n /\ \A i \in 1..n : one[i] = longer[i]
      /\ two \in Seq(Event) /\ Len(two) = n /\ \A i \in 1..n : two[i] = log[i]
  BY <1>1, <1>2, PrefixOf
<1>4. \A i \in 1..n : one[i] = two[i]
  <2>1. 1..n \subseteq 1..Len(log)
    BY <1>1
  <2> HIDE DEF one, two
  <2> QED
    BY <1>1, <1>3, <2>1
<1> HIDE DEF one, two
<1>5. one = two
  BY <1>3, <1>4, SeqEqual
<1> QED
  BY <1>5 DEF one, two, longer

(* Whatever is ingested meanwhile keeps it.                                *)
LEMMA IngestLiveKeeps ==
    ASSUME RebuildInv, NEW e \in Events, IngestLive(e)
    PROVE  RebuildInv'
<1>1. /\ UNCHANGED jobVars /\ ~Rejected(e) /\ e \in Event
      /\ events \in Seq(Event) /\ UniqueIds(events) /\ revision \in Nat
      /\ Tables \in TableSet /\ Belong(Tables.attempts, Tables.goals)
  BY EventsAssumption, TablesTell DEF Normalized, IngestLive, RebuildInv, LogKept, TablesKept
<1>2. CASE IngestNew(e)
  <2>1. /\ events' = Append(events, e) /\ revision' = revision + 1
        /\ \A i \in DOMAIN events : events[i].id # e.id
    BY <1>2 DEF IngestNew, IdKnown
  <2>2. Comes(Tables, e, Tables')
    <3>1. Tables' \in AppliedTo(Tables, e)
      BY <1>2, TablesTell DEF IngestNew, ApplyEvent, AppliedTo, Tables
    <3> QED
      BY <1>1, <3>1, AppliedTyped
  <2>3. UniqueIds(events') /\ events' \in Seq(Event) /\ Len(events') = Len(events) + 1
    BY <1>1, <2>1, Appended DEF UniqueIds
  <2>4. Tables' \in TableSet /\ Belong(Tables'.attempts, Tables'.goals)
    BY <1>1, <2>2, AppliedBelongs DEF Comes
  <2>5. LogKept'
    BY <1>1, <2>1, <2>3 DEF LogKept
  <2>6. TablesKept'
    BY <2>4, TablesTell DEF TablesKept
  <2>7. FaithfulTables'
    <3>1. Sound(events, Tables) => Sound(events', Tables')
      BY <1>1, <2>1, <2>2, AppliedSound
    <3> QED
      BY <1>1, <2>1, <2>3, <3>1 DEF RebuildInv, FaithfulTables, Faithful, jobVars
  <2>8. JobKnows'
    <3>1. \A d \in ToSet(events') : Rejected(d) => d \in ToSet(events)
      BY <1>1, <2>1, Appended
    <3>2. \A n \in 0..Len(events) :
             n \in 0..Len(events') /\ SubSeq(events', 1, n) = SubSeq(events, 1, n)
      BY <1>1, <2>1, <2>3, PrefixKept
    <3> QED
      BY <1>1, <3>1, <3>2 DEF RebuildInv, JobKnows, jobVars
  <2>9. FixturesGone'
    <3>1. ToSet(events') = ToSet(events) \cup {e}
      BY <1>1, <2>1, Appended
    <3>2. Clean(Tables) => Clean(Tables')
      BY <1>1, <2>2, AppliedClean
    <3> QED
      BY <1>1, <3>1, <3>2 DEF RebuildInv, FixturesGone, Quarantining, jobVars
  <2> QED
    BY <2>5, <2>6, <2>7, <2>8, <2>9 DEF RebuildInv
<1>3. CASE UNCHANGED vars
  BY <1>1, <1>3 DEF vars, projections, jobVars, RebuildInv, LogKept, TablesKept,
     FaithfulTables, Faithful, JobKnows, FixturesGone, Quarantining, Tables
<1> QED
  BY <1>2, <1>3 DEF IngestLive, Ingest, IngestDuplicate, IngestConflict

LEMMA NoJobIdle == NoJob \in Job /\ NoJob.pc = "idle" /\ <<>> \in Seq(Event)
<1>1. <<>> \in Seq(Event)
  BY EmptySeq
<1> QED
  BY <1>1 DEF NoJob, Job

(* The steps that move only the job.                                       *)
LEMMA JobStepKeeps ==
    ASSUME RebuildInv, UNCHANGED <<vars, missed, ghosts>>, JobKnows', FixturesGone'
    PROVE  RebuildInv'
BY DEF vars, projections, RebuildInv, LogKept, TablesKept, FaithfulTables,
       Faithful, Tables

LEMMA BeginRebuildKeeps ==
    ASSUME RebuildInv, BeginRebuild
    PROVE  RebuildInv'
<1>1. /\ maintenance' \in Job /\ maintenance'.pc = "chosen"
      /\ maintenance'.job = "rebuild"
  <2>1. maintenance' = [NoJob EXCEPT !.pc = "chosen", !.job = "rebuild"]
    BY DEF BeginRebuild
  <2>2. maintenance' = [pc |-> "chosen", job |-> "rebuild", rows |-> <<>>, doomed |-> {}]
    BY <2>1 DEF NoJob
  <2> QED
    BY <2>2, NoJobIdle DEF Job
<1>2. receipt' \in BOOLEAN /\ UNCHANGED <<vars, receipt, missed, ghosts>>
  BY DEF BeginRebuild, RebuildInv, JobKnows
<1>3. JobKnows'
  BY <1>1, <1>2 DEF JobKnows
<1>4. FixturesGone'
  BY <1>1, <1>2 DEF RebuildInv, FixturesGone, Quarantining, vars, projections, Tables
<1> QED
  BY <1>2, <1>3, <1>4, JobStepKeeps DEF vars

(* What ingest would reject is among what the quarantine selects.          *)
LEMMA RejectedIsQuarantined ==
    ASSUME NEW d \in Event, Rejected(d)
    PROVE  Quarantined(d)
<1>1. CASE d.id \in FixtureIds
  BY <1>1 DEF Quarantined
<1>2. CASE d.type \in ROUTE_EVENTS /\ d.route \in Truncated
  <2>1. ReplayedKey(d) = d.route
    BY <1>2, RouteEventHasRoute, EvidenceAssumption DEF ReplayedKey
  <2> QED
    BY <1>2, <2>1 DEF Quarantined
<1> QED
  BY <1>1, <1>2 DEF Rejected

LEMMA SelectDoomedKeeps ==
    ASSUME RebuildInv, SelectDoomed
    PROVE  RebuildInv'
<1> DEFINE found == {d \in ToSet(events) : Quarantined(d)}
<1>1. found \in SUBSET Event
  BY DEF RebuildInv, LogKept, ToSet
<1>2. maintenance' = [NoJob EXCEPT !.pc = "selected", !.job = "quarantine",
                                   !.doomed = found]
  BY DEF SelectDoomed
<1> HIDE DEF found
<1>3. /\ maintenance' \in Job /\ maintenance'.pc = "selected"
      /\ maintenance'.job = "quarantine" /\ maintenance'.doomed = found
  <2>1. maintenance' = [pc |-> "selected", job |-> "quarantine", rows |-> <<>>,
                         doomed |-> found]
    BY <1>2 DEF NoJob
  <2> QED
    BY <1>1, <2>1, NoJobIdle DEF Job
<1>4. JobKnows'
  <2>1. receipt' \in BOOLEAN
    BY DEF SelectDoomed, RebuildInv, JobKnows
  <2>2. \A d \in ToSet(events') : Rejected(d) => d \in maintenance'.doomed
    <3>1. events' = events /\ ToSet(events) \subseteq Event
      BY DEF SelectDoomed, vars, RebuildInv, LogKept, ToSet
    <3> QED
      BY <1>3, <3>1, RejectedIsQuarantined DEF found
  <2> QED
    BY <1>3, <2>1, <2>2 DEF JobKnows
<1>5. FixturesGone'
  BY <1>3 DEF SelectDoomed, RebuildInv, FixturesGone, Quarantining, vars,
     projections, Tables
<1> QED
  BY <1>4, <1>5, JobStepKeeps DEF SelectDoomed

LEMMA DeleteDoomedKeeps ==
    ASSUME RebuildInv, DeleteDoomed
    PROVE  RebuildInv'
<1> DEFINE doomed == maintenance.doomed
<1>1. /\ maintenance.pc = "selected" /\ maintenance \in Job
      /\ \A d \in ToSet(events) : Rejected(d) => d \in doomed
      /\ events' = Without(events, doomed)
      /\ UNCHANGED <<revision, projections, receipt>>
      /\ events \in Seq(Event) /\ UniqueIds(events)
  BY DEF DeleteDoomed, RebuildInv, JobKnows, LogKept
<1>2. /\ events' \in Seq(Event) /\ UniqueIds(events')
      /\ ToSet(events') = ToSet(events) \ doomed
      /\ doomed = {} => events' = events
  BY <1>1, WithoutKeeps
<1>3. /\ maintenance' \in Job /\ maintenance'.pc = "chosen"
      /\ maintenance'.job = maintenance.job
  BY <1>1 DEF DeleteDoomed, Job
<1>4. Faithful' => Faithful /\ doomed = {}
  BY DEF DeleteDoomed, Faithful
<1>5. \A d \in ToSet(events') : ~Rejected(d)
  BY <1>1, <1>2
<1> HIDE DEF doomed
<1>6. Tables' = Tables
  BY <1>1 DEF projections, Tables
<1>7. LogKept' /\ TablesKept'
  BY <1>1, <1>2, <1>6 DEF RebuildInv, LogKept, TablesKept, projections
<1>8. FaithfulTables'
  BY <1>1, <1>2, <1>4, <1>6 DEF RebuildInv, FaithfulTables
<1>9. JobKnows'
  BY <1>1, <1>3 DEF RebuildInv, JobKnows
<1>10. FixturesGone'
  BY <1>1, <1>3, <1>5, <1>6 DEF RebuildInv, FixturesGone
<1> QED
  BY <1>7, <1>8, <1>9, <1>10 DEF RebuildInv

LEMMA ReadHistoryKeeps ==
    ASSUME RebuildInv, ReadHistory
    PROVE  RebuildInv'
<1> DEFINE sorted == ByTime(events)
<1>1. events \in Seq(Event) /\ UniqueIds(events) /\ maintenance \in Job
  BY DEF RebuildInv, LogKept, JobKnows
<1>2. sorted \in Seq(Event)
  BY <1>1, ByTimeKeeps
<1>3. maintenance' = [maintenance EXCEPT !.pc = "read", !.rows = sorted]
  BY DEF ReadHistory
<1>4. /\ Len(events) \in 0..Len(events)
      /\ SubSeq(events, 1, Len(events)) = events
  BY <1>1, SubSeqFull
<1> HIDE DEF sorted
<1>5. /\ maintenance' \in Job /\ maintenance'.pc = "read"
      /\ maintenance'.job = maintenance.job /\ maintenance'.rows = sorted
  BY <1>1, <1>2, <1>3 DEF Job
<1>6. JobKnows'
  <2>1. \E n \in 0..Len(events) : maintenance'.rows = ByTime(SubSeq(events, 1, n))
    BY <1>4, <1>5 DEF sorted
  <2> QED
    BY <1>5, <2>1 DEF ReadHistory, RebuildInv, JobKnows, vars
<1>7. FixturesGone'
  BY <1>5 DEF ReadHistory, RebuildInv, FixturesGone, Quarantining, vars,
     projections, Tables
<1> QED
  BY <1>6, <1>7, JobStepKeeps DEF ReadHistory

(* What was read is events of the log; if it is all of them, what they     *)
(* make of the tables is what the log makes of them.                       *)
LEMMA ReadPart ==
    ASSUME NEW log \in Seq(Event), UniqueIds(log), NEW n \in 0..Len(log)
    PROVE  LET rows == ByTime(SubSeq(log, 1, n))
           IN  /\ rows \in Seq(Event) /\ UniqueIds(rows) /\ Len(rows) \in Nat
               /\ ToSet(rows) \subseteq ToSet(log)
               /\ ToSet(log) \subseteq ToSet(rows) =>
                     /\ Len(rows) = Len(log)
                     /\ \A t : Sound(rows, t) => Sound(log, t)
<1> DEFINE front == SubSeq(log, 1, n)
           rows == ByTime(front)
<1>1. /\ front \in Seq(Event) /\ UniqueIds(front)
      /\ Len(front) = n /\ DOMAIN front = 1..n
      /\ \A i \in 1..n : front[i] = log[i]
      /\ ToSet(front) \subseteq ToSet(log)
  BY PrefixOf
<1>2. n = Len(log) => front = log
  BY PrefixOf
<1>3. DOMAIN log = 1..Len(log) /\ Len(log) \in Nat
  OBVIOUS
<1> HIDE DEF front
<1>4. /\ rows \in Seq(Event) /\ UniqueIds(rows) /\ Len(rows) = n
      /\ ToSet(rows) = ToSet(front)
  BY <1>1, ByTimeKeeps
<1> HIDE DEF rows
<1>5. ASSUME ToSet(log) \subseteq ToSet(rows)
      PROVE  n = Len(log)
  <2>1. SUFFICES ASSUME n # Len(log) PROVE FALSE
    OBVIOUS
  <2>2. n + 1 \in DOMAIN log /\ n + 1 \notin 1..n /\ 1..n \subseteq DOMAIN log
    <3>1. ASSUME NEW N \in Nat, NEW k \in 0..N, k # N
          PROVE  k + 1 \in 1..N /\ k + 1 \notin 1..k /\ 1..k \subseteq 1..N
      BY <3>1
    <3> QED
      BY <1>3, <2>1, <3>1, Zenon
  <2>3. log[n + 1] \in ToSet(front)
    BY <1>4, <1>5, <2>2 DEF ToSet
  <2>4. PICK i \in 1..n : log[n + 1] = log[i]
    BY <1>1, <2>3 DEF ToSet
  <2> QED
    BY <2>2, <2>4 DEF UniqueIds
<1>6. ASSUME ToSet(log) \subseteq ToSet(rows), NEW t, Sound(rows, t)
      PROVE  Sound(log, t)
  <2>1. front = log
    BY <1>2, <1>5, <1>6
  <2>2. rows = ByTime(log) /\ ToSet(rows) = ToSet(log)
    BY <1>4, <2>1 DEF rows
  <2>3. KeepsNewest(rows, t.routes) => KeepsNewest(log, t.routes)
    BY <2>2, SortedKeepsNewest
  <2> QED
    BY <1>6, <2>2, <2>3 DEF Sound
<1>7. Len(rows) \in Nat /\ ToSet(rows) \subseteq ToSet(log)
  BY <1>1, <1>4
<1>8. ToSet(log) \subseteq ToSet(rows) => Len(rows) = Len(log)
  BY <1>4, <1>5
<1> QED
  BY <1>4, <1>6, <1>7, <1>8, Zenon DEF rows, front

LEMMA WhatWasRead ==
    ASSUME RebuildInv, maintenance.pc = "read"
    PROVE  LET rows == maintenance.rows
           IN  /\ rows \in Seq(Event) /\ UniqueIds(rows) /\ Len(rows) \in Nat
               /\ ToSet(rows) \subseteq ToSet(events)
               /\ ToSet(events) \subseteq ToSet(rows) =>
                     /\ Len(rows) = Len(events)
                     /\ \A t : Sound(rows, t) => Sound(events, t)
<1>1. events \in Seq(Event) /\ UniqueIds(events)
  BY DEF RebuildInv, LogKept
<1>2. PICK n \in 0..Len(events) : maintenance.rows = ByTime(SubSeq(events, 1, n))
  BY DEF RebuildInv, JobKnows
<1> QED
  BY <1>1, <1>2, ReadPart, Zenon

(* The replay of what was read leaves tables of the log, or says it does   *)
(* not; of a log ingest would let in it leaves no row it would not.        *)
LEMMA ReplayHistoryKeeps ==
    ASSUME RebuildInv, ReplayHistory
    PROVE  RebuildInv'
<1> DEFINE rows == maintenance.rows
<1>1. /\ maintenance.pc = "read" /\ maintenance \in Job
      /\ revision' = Len(rows)
      /\ missed' = ToSet(events) \ ToSet(rows)
      /\ UNCHANGED <<events, receipt>>
      /\ events \in Seq(Event) /\ UniqueIds(events)
  BY DEF ReplayHistory, RebuildInv, LogKept, JobKnows
<1>2. PICK t \in Replay(EmptyTables, rows) : SetTables(t)
  BY DEF ReplayHistory, Cleared
<1>3. /\ rows \in Seq(Event) /\ UniqueIds(rows) /\ Len(rows) \in Nat
      /\ ToSet(rows) \subseteq ToSet(events)
      /\ ToSet(events) \subseteq ToSet(rows) =>
            /\ Len(rows) = Len(events)
            /\ \A u : Sound(rows, u) => Sound(events, u)
  BY <1>1, WhatWasRead
<1>4. t \in TablesOf(rows)
  BY <1>2, <1>3, ReplaySound
<1>5. \/ maintenance' \in Job /\ maintenance'.pc = "idle"
      \/ /\ maintenance' \in Job /\ maintenance'.pc = "replayed"
         /\ maintenance.job = "quarantine" /\ maintenance'.job = "quarantine"
  <2>1. maintenance.job \in {"rebuild", "quarantine"}
    BY <1>1 DEF RebuildInv, JobKnows, Job
  <2>2. maintenance' = IF maintenance.job = "rebuild" THEN NoJob
                       ELSE [maintenance EXCEPT !.pc = "replayed"]
    BY DEF ReplayHistory
  <2> QED
    BY <1>1, <2>1, <2>2, NoJobIdle DEF Job
<1> HIDE DEF rows
<1>6. Tables' = t
  BY <1>2, <1>4, TablesTell DEF SetTables, TablesOf
<1>7. LogKept'
  BY <1>1, <1>3 DEF LogKept
<1>8. TablesKept'
  BY <1>4, <1>6, TablesTell DEF TablesKept, TablesOf
<1>9. FaithfulTables'
  <2>1. Faithful' => ToSet(events) \subseteq ToSet(rows)
    BY <1>1 DEF Faithful
  <2> QED
    <3>1. Sound(rows, t)
      BY <1>4 DEF TablesOf
    <3>2. Faithful' => Len(rows) = Len(events) /\ Sound(events, t)
      BY <1>3, <2>1, <3>1
    <3> QED
      BY <1>1, <1>6, <3>2 DEF FaithfulTables
<1>10. JobKnows'
  BY <1>1, <1>5 DEF RebuildInv, JobKnows
<1>11. FixturesGone'
  <2>1. (\A d \in ToSet(events) : ~Rejected(d)) => Clean(Tables')
    BY <1>3, <1>4, <1>6 DEF TablesOf
  <2>2. receipt' \/ Quarantining' => receipt \/ Quarantining
    BY <1>1, <1>5 DEF Quarantining
  <2>3. receipt' \/ maintenance'.pc = "replayed" => receipt' \/ Quarantining'
    BY <1>1, <1>5 DEF Quarantining
  <2> QED
    BY <1>1, <2>1, <2>2, <2>3 DEF RebuildInv, FixturesGone
<1> QED
  BY <1>7, <1>8, <1>9, <1>10, <1>11 DEF RebuildInv

(* The end of a job, with its receipt or without.                          *)
LEMMA JobEndKeeps ==
    ASSUME RebuildInv, RecordReceipt \/ Crash
    PROVE  RebuildInv'
<1>1. /\ maintenance' = NoJob /\ UNCHANGED <<vars, missed, ghosts>>
      /\ receipt' \in BOOLEAN
      /\ receipt' => receipt \/ maintenance.pc = "replayed"
  <2>1. receipt \in BOOLEAN
    BY DEF RebuildInv, JobKnows
  <2>2. CASE RecordReceipt
    BY <2>2 DEF RecordReceipt, vars, projections
  <2>3. CASE Crash
    BY <2>1, <2>3 DEF Crash, vars, projections
  <2> QED
    BY <2>2, <2>3
<1>2. NoJob \in Job /\ NoJob.pc = "idle"
  BY NoJobIdle
<1>3. JobKnows'
  BY <1>1, <1>2 DEF JobKnows
<1>4. FixturesGone'
  BY <1>1, <1>2 DEF RebuildInv, JobKnows, FixturesGone, Quarantining, vars,
     projections, Tables
<1> QED
  BY <1>1, <1>3, <1>4, JobStepKeeps

LEMMA RebuildInvNext ==
    ASSUME RebuildInv, [RebuildNext]_<<vars, jobVars>>
    PROVE  RebuildInv'
<1>1. CASE UNCHANGED <<vars, jobVars>>
  BY <1>1, JobStepKeeps DEF vars, projections, jobVars, RebuildInv, JobKnows,
     FixturesGone, Quarantining, Tables
<1> QED
  BY <1>1, IngestLiveKeeps, BeginRebuildKeeps, SelectDoomedKeeps,
     DeleteDoomedKeeps, ReadHistoryKeeps, ReplayHistoryKeeps, JobEndKeeps
     DEF RebuildNext, Maintain

(* What the properties say of the rebuild follows.                         *)
LEMMA RebuildInvTells ==
    ASSUME RebuildInv
    PROVE  /\ WholeReplayIsExact
           /\ WholeReplayKeepsTheNewestWord
           /\ ReceiptMeansNoFixtureRow
<1>1. ASSUME Faithful
      PROVE  ExactlyOnce /\ AttemptCountExact /\ AttemptsBelongToGoals /\ LatestEvidenceWins
  <2>1. /\ revision = Len(events) /\ Sound(events, Tables) /\ Belong(attempts, goals)
        /\ events \in Seq(Event) /\ UniqueIds(events)
    BY <1>1 DEF RebuildInv, FaithfulTables, TablesKept, LogKept
  <2>2. Reflects(ToSet(events), routes) /\ Counts(ToSet(events), goals)
    BY <2>1, TablesTell DEF Sound
  <2>3. ExactlyOnce
    BY <2>1 DEF ExactlyOnce, UniqueIds
  <2>4. LatestEvidenceWins
    BY <2>2, LogReflects
  <2>5. AttemptCountExact
    BY <2>1, <2>2, LogCounts DEF AttemptCountExact, UniqueIds
  <2>6. AttemptsBelongToGoals
    BY <2>1 DEF AttemptsBelongToGoals, Belong
  <2> QED
    BY <2>3, <2>4, <2>5, <2>6
<1>2. ReceiptMeansNoFixtureRow
  BY TablesTell DEF RebuildInv, FixturesGone, Clean, ReceiptMeansNoFixtureRow
<1> QED
  BY <1>1, <1>2 DEF WholeReplayIsExact, WholeReplayKeepsTheNewestWord

(* A replay of the whole log, of evidence whose effect does not depend on  *)
(* the order it came in, says of each route what was said before it.       *)
LEMMA ReplayAgrees ==
    ASSUME RebuildInv, RebuildInv', [RebuildNext]_<<vars, jobVars>>,
           Faithful, maintenance.pc = "read",
           ToSet(maintenance.rows) = ToSet(events),
           \A d \in ToSet(events) : OrderFree(d),
           revision' = Len(maintenance.rows), events' = events
    PROVE  Register' = Register
<1>1. CASE ReplayHistory
  <2>1. Faithful'
    BY <1>1 DEF ReplayHistory, Faithful
  <2>2. /\ KeepsNewest(events, routes) /\ KeepsNewest(events, routes')
        /\ events \in Seq(Event)
    BY <2>1, TablesTell DEF RebuildInv, FaithfulTables, LogKept, Sound
  <2>3. ASSUME NEW r \in Routes
        PROVE  \/ routes[r] = None /\ routes'[r] = None
               \/ /\ routes[r] # None /\ routes'[r] # None
                  /\ routes'[r].state = routes[r].state
                  /\ routes'[r].changedAt = routes[r].changedAt
    BY <2>2, OneNewestWord
  <2> QED
    BY <2>3 DEF Register
<1>2. CASE UNCHANGED routes
  BY <1>2 DEF Register
<1>3. ~\E e \in Event : IngestNew(e)
  <2> SUFFICES ASSUME NEW e \in Event, IngestNew(e) PROVE FALSE
    OBVIOUS
  <2>1. Len(events') = Len(events) + 1 /\ Len(events) \in Nat
    BY Appended DEF IngestNew, RebuildInv, LogKept
  <2> QED
    BY <2>1
<1>4. ReplayHistory \/ UNCHANGED routes
  BY <1>3, EventsAssumption DEF Normalized, RebuildNext, Maintain, BeginRebuild, SelectDoomed, DeleteDoomed,
     ReadHistory, RecordReceipt, Crash, IngestLive, Ingest, IngestDuplicate,
     IngestConflict, vars, projections
<1> QED
  BY <1>1, <1>2, <1>4

(* Every step of the subjects, taken together, keeps it.                   *)
LEMMA RebuildInductive == MaintenanceSpec => []RebuildInv
<1>1. MaintenanceInit => RebuildInv
  BY RebuildInvInit DEF MaintenanceInit
<1>2. RebuildInv /\ [MaintenanceNext]_allVars => RebuildInv'
  BY Parts, RebuildInvNext DEF rebuildVars
<1> QED
  BY <1>1, <1>2, PTL DEF MaintenanceSpec

(* A rebuild that was not overtaken counts what ingest counts and keeps    *)
(* each route's newest evidence, and a quarantine with its receipt has     *)
(* left nothing ingest would reject, whatever comes or dies meanwhile      *)
(* (rebuild, quarantine_fixtures).                                         *)
THEOREM RebuildStaysFaithful == MaintenanceSpec => []RebuildIsFaithful
<1>1. RebuildInv => RebuildIsFaithful
  BY RebuildInvTells DEF RebuildIsFaithful
<1> QED
  BY <1>1, RebuildInductive, PTL

(* The order of the timestamps and the order of arrival make the same of   *)
(* probe and attempt evidence (ORDER BY occurred_at, seq; _is_late).       *)
THEOREM ReplaysAgree == MaintenanceSpec => ReplayAgreesWithArrival
<1>1. RebuildInv /\ RebuildInv' /\ [MaintenanceNext]_allVars =>
        [/\ Faithful
         /\ maintenance.pc = "read"
         /\ ToSet(maintenance.rows) = ToSet(events)
         /\ \A e \in ToSet(events) : OrderFree(e)
         /\ revision' = Len(maintenance.rows)
         /\ events' = events
         => Register' = Register]_<<vars, jobVars>>
  BY Parts, ReplayAgrees DEF rebuildVars
<1> QED
  BY <1>1, RebuildInductive, PTL DEF MaintenanceSpec, ReplayAgreesWithArrival

-----------------------------------------------------------------------------
(* Outbox.                                                                 *)
Entry == [line : Out!Lines, wraps : Nat]

In(l, s) == \E e \in Out!ToSet(s) : e.line = l

DrainTypes ==
    /\ file \in Seq(Entry) /\ logged \in [Out!Lines -> 0..2]
    /\ written \subseteq Out!Lines
    /\ drain \in [Drains -> [pc : {"idle", "draining", "truncated"},
                             todo : Seq(Entry), pending : Seq(Entry)]]

(* A line with id and time is wrapped by nobody and kept by nobody.        *)
Unwrapped(s) == \A e \in Out!ToSet(s) : e.line \in Named => e.wraps = 0

NamedStayBare ==
    /\ Unwrapped(file)
    /\ \A d \in Drains : /\ Unwrapped(drain[d].todo)
                         /\ \A l \in Named : ~In(l, drain[d].pending)

(* One drain at a time; it has yet to meet, has applied or keeps every     *)
(* line of the file, until it empties the file.                            *)
InTurn ==
    /\ \A c, d \in Drains : drain[c].pc # "idle" /\ drain[d].pc # "idle" => c = d
    /\ \A d \in Drains :
           /\ drain[d].pc = "idle" => drain[d].pending = <<>>
           /\ drain[d].pc = "draining" =>
                  /\ \A l \in Out!Lines : In(l, file) =>
                         logged[l] > 0 \/ In(l, drain[d].todo) \/ In(l, drain[d].pending)
                  /\ \A l \in Out!Lines :
                         In(l, drain[d].todo) \/ In(l, drain[d].pending) => In(l, file)
           /\ drain[d].pc = "truncated" => file = <<>>
    /\ \A l \in written :
           logged[l] > 0 \/ In(l, file) \/ \E d \in Drains : In(l, drain[d].pending)

DrainInv ==
    /\ DrainTypes /\ Out!NamedEventsOnce /\ NamedStayBare
    /\ ~raced => InTurn

(* What is in a sequence.                                                  *)
LEMMA InEmpty == ASSUME NEW l PROVE ~In(l, <<>>) /\ Out!ToSet(<<>>) = {}
BY DEF In, Out!ToSet

LEMMA InConcat ==
    ASSUME NEW s \in Seq(Entry), NEW t \in Seq(Entry)
    PROVE  /\ s \o t \in Seq(Entry)
           /\ Out!ToSet(s \o t) = Out!ToSet(s) \cup Out!ToSet(t)
           /\ \A l : In(l, s \o t) <=> In(l, s) \/ In(l, t)
<1> HIDE DEF Entry
<1>1. Range(s \o t) = Range(s) \cup Range(t) /\ s \o t \in Seq(Entry)
  BY RangeConcatenation, ConcatProperties
<1>2. Out!ToSet(s \o t) = Out!ToSet(s) \cup Out!ToSet(t)
  BY <1>1 DEF Range, Out!ToSet
<1> QED
  BY <1>1, <1>2 DEF In

LEMMA InAppend ==
    ASSUME NEW s \in Seq(Entry), NEW e \in Entry
    PROVE  /\ Append(s, e) \in Seq(Entry)
           /\ Out!ToSet(Append(s, e)) = Out!ToSet(s) \cup {e}
           /\ \A l : In(l, Append(s, e)) <=> In(l, s) \/ e.line = l
<1>1. <<e>> \in Seq(Entry) /\ Out!ToSet(<<e>>) = {e}
  BY DEF Out!ToSet
<1>2. Append(s, e) = s \o <<e>>
  BY AppendIsConcat
<1> HIDE DEF Entry
<1>3. /\ s \o <<e>> \in Seq(Entry)
      /\ Out!ToSet(s \o <<e>>) = Out!ToSet(s) \cup Out!ToSet(<<e>>)
  BY <1>1, InConcat
<1> QED
  BY <1>1, <1>2, <1>3 DEF In

LEMMA InHeadTail ==
    ASSUME NEW s \in Seq(Entry), s # <<>>
    PROVE  /\ Head(s) \in Entry /\ Tail(s) \in Seq(Entry)
           /\ Out!ToSet(s) = {Head(s)} \cup Out!ToSet(Tail(s))
           /\ \A l : In(l, s) <=> Head(s).line = l \/ In(l, Tail(s))
<1> HIDE DEF Entry
<1>1. /\ Head(s) \in Entry /\ Tail(s) \in Seq(Entry)
      /\ Len(Tail(s)) = Len(s) - 1 /\ Len(s) \in Nat \ {0}
      /\ \A i \in 1..Len(Tail(s)) : Tail(s)[i] = s[i + 1]
      /\ DOMAIN s = 1..Len(s) /\ DOMAIN Tail(s) = 1..Len(Tail(s))
      /\ Head(s) = s[1]
  BY HeadTailProperties, LenProperties, EmptySeq
<1>2. Out!ToSet(s) = {Head(s)} \cup Out!ToSet(Tail(s))
  <2>1. \A x \in Out!ToSet(s) : x \in {Head(s)} \cup Out!ToSet(Tail(s))
    <3> SUFFICES ASSUME NEW i \in 1..Len(s), s[i] # Head(s)
                 PROVE  s[i] \in Out!ToSet(Tail(s))
      BY <1>1 DEF Out!ToSet
    <3>1. i - 1 \in 1..Len(Tail(s)) /\ Tail(s)[i - 1] = s[(i - 1) + 1]
      BY <1>1
    <3>2. Tail(s)[i - 1] = s[i]
      BY <3>1
    <3> QED
      BY <1>1, <3>1, <3>2 DEF Out!ToSet
  <2>2. \A x \in Out!ToSet(Tail(s)) : x \in Out!ToSet(s)
    <3> SUFFICES ASSUME NEW i \in 1..Len(Tail(s)) PROVE Tail(s)[i] \in Out!ToSet(s)
      BY <1>1 DEF Out!ToSet
    <3>1. i + 1 \in 1..Len(s)
      BY <1>1
    <3> QED
      BY <1>1, <3>1 DEF Out!ToSet
  <2>3. Head(s) \in Out!ToSet(s)
    BY <1>1 DEF Out!ToSet
  <2> QED
    BY <2>1, <2>2, <2>3
<1> QED
  BY <1>1, <1>2 DEF In

(* What ingest makes of a line.                                            *)
LEMMA Outcomes ==
    ASSUME DrainTypes, Out!NamedEventsOnce, NEW l \in Out!Lines, NEW wraps \in Nat
    PROVE  /\ Out!Outcome(l, wraps) \in {"unparsable", "refused", "new", "duplicate"}
           /\ Out!Outcome(l, wraps) = "duplicate" => logged[l] > 0
           /\ l \in Named /\ wraps = 0 => Out!Outcome(l, wraps) \in {"new", "duplicate"}
           /\ l \in Named \cup Undated /\ Out!Outcome(l, wraps) = "new" => logged[l] = 0
<1>1. /\ Named \cap Undated = {} /\ Named \cap Anonymous = {}
      /\ Named \cap Refused = {} /\ Named \cap Junk = {}
      /\ Undated \cap Anonymous = {} /\ Undated \cap Refused = {}
      /\ Undated \cap Junk = {} /\ Anonymous \cap Refused = {}
      /\ Anonymous \cap Junk = {} /\ Refused \cap Junk = {}
  <2> DEFINE kind == <<Named, Undated, Anonymous, Refused, Junk>>
  <2>1. \A i, j \in 1..5 : i # j => kind[i] \cap kind[j] = {}
    BY MaintenanceAssumption DEF Out!OutboxAssumption
  <2>2. /\ kind[1] = Named /\ kind[2] = Undated /\ kind[3] = Anonymous
        /\ kind[4] = Refused /\ kind[5] = Junk
    OBVIOUS
  <2> HIDE DEF kind
  <2> QED
    BY <2>1, <2>2
<1>2. logged[l] \in 0..2
  BY DEF DrainTypes
<1>3. \/ l \in Junk \/ l \in Refused \/ l \in Anonymous \/ l \in Undated
      \/ l \in Named
  BY DEF Out!Lines, Out!EventLines
<1> QED
  BY <1>1, <1>2, <1>3 DEF Out!Outcome

LEMMA Logs ==
    ASSUME DrainTypes, Out!NamedEventsOnce, NEW l \in Out!Lines, NEW wraps \in Nat,
           logged' = Out!LoggedAfter(l, wraps)
    PROVE  /\ logged' \in [Out!Lines -> 0..2]
           /\ \A k \in Out!Lines : logged[k] > 0 => logged'[k] > 0
           /\ Out!Outcome(l, wraps) \in {"new", "duplicate"} => logged'[l] > 0
           /\ Out!NamedEventsOnce'
<1> DEFINE outcome == Out!Outcome(l, wraps)
<1>1. /\ outcome = "duplicate" => logged[l] > 0
      /\ l \in Named \cup Undated /\ outcome = "new" => logged[l] = 0
  BY Outcomes
<1>2. logged' = IF outcome = "new" /\ logged[l] < 2
                  THEN [logged EXCEPT ![l] = @ + 1] ELSE logged
  BY DEF Out!LoggedAfter
<1>3. logged \in [Out!Lines -> 0..2] /\ Named \cup Undated \subseteq Out!Lines
  BY DEF DrainTypes, Out!Lines, Out!EventLines
<1> HIDE DEF outcome
<1>4. /\ logged' \in [Out!Lines -> 0..2]
      /\ \A k \in Out!Lines : logged'[k] =
             IF k = l /\ outcome = "new" /\ logged[l] < 2 THEN logged[k] + 1
             ELSE logged[k]
  BY <1>2, <1>3
<1>5. Out!NamedEventsOnce'
  BY <1>1, <1>3, <1>4 DEF Out!NamedEventsOnce
<1>6. \A k \in Out!Lines : logged[k] \in 0..2
  BY <1>3
<1>7. outcome \in {"new", "duplicate"} => logged'[l] > 0
  BY <1>1, <1>4, <1>6
<1>8. \A k \in Out!Lines : logged[k] > 0 => logged'[k] > 0
  BY <1>4, <1>6
<1> QED
  BY <1>4, <1>5, <1>7, <1>8 DEF outcome

LEMMA Keeps ==
    ASSUME DrainTypes, Out!NamedEventsOnce, NEW entry \in Entry
    PROVE  LET kept == Out!Kept(entry)
               outcome == Out!Outcome(entry.line, entry.wraps)
           IN  /\ kept \in Seq(Entry)
               /\ \A l : In(l, kept) => l = entry.line
               /\ In(entry.line, kept) \/ outcome \in {"new", "duplicate"}
               /\ entry.line \in Named /\ entry.wraps = 0 => kept = <<>>
<1> DEFINE outcome == Out!Outcome(entry.line, entry.wraps)
           rewrapped == [entry EXCEPT !.wraps = IF @ < 2 THEN @ + 1 ELSE @]
<1>1. entry.line \in Out!Lines /\ entry.wraps \in Nat
  BY DEF Entry
<1>2. /\ outcome \in {"unparsable", "refused", "new", "duplicate"}
      /\ entry.line \in Named /\ entry.wraps = 0 => outcome \in {"new", "duplicate"}
  BY <1>1, Outcomes
<1>3. rewrapped \in Entry /\ rewrapped.line = entry.line
  BY <1>1 DEF Entry
<1>4. \A e \in Entry : /\ <<e>> \in Seq(Entry)
                       /\ \A l : In(l, <<e>>) <=> e.line = l
  <2>1. \A e : Out!ToSet(<<e>>) = {e}
    BY DEF Out!ToSet
  <2> QED
    BY <2>1 DEF In
<1>5. <<>> \in Seq(Entry) /\ \A l : ~In(l, <<>>)
  BY InEmpty
<1>6. /\ outcome = "unparsable" => Out!Kept(entry) = <<entry>>
      /\ outcome = "refused" => Out!Kept(entry) = <<rewrapped>>
      /\ outcome \in {"new", "duplicate"} => Out!Kept(entry) = <<>>
  BY DEF Out!Kept
<1> HIDE DEF outcome, rewrapped, Entry
<1>7. CASE outcome = "unparsable"
  BY <1>2, <1>4, <1>6, <1>7 DEF outcome
<1>8. CASE outcome = "refused"
  BY <1>2, <1>3, <1>4, <1>6, <1>8 DEF outcome
<1>9. CASE outcome \in {"new", "duplicate"}
  BY <1>5, <1>6, <1>9 DEF outcome
<1> QED
  BY <1>2, <1>7, <1>8, <1>9

(* A line is written to the file.                                          *)
LEMMA AppendedKeeps ==
    ASSUME DrainInv, NEW l \in Out!Lines, Out!Appended(l), UNCHANGED <<logged, drain>>
    PROVE  DrainInv'
<1> DEFINE e == [line |-> l, wraps |-> 0]
<1>1. e \in Entry /\ e.line = l /\ e.wraps = 0
  BY DEF Entry
<1>2. /\ file' = Append(file, e) /\ written' = written \cup {l}
      /\ raced' = (raced \/ Out!Busy)
  BY DEF Out!Appended
<1> HIDE DEF e
<1>3. /\ file' \in Seq(Entry) /\ Out!ToSet(file') = Out!ToSet(file) \cup {e}
      /\ \A k : In(k, file') <=> In(k, file) \/ l = k
  BY <1>1, <1>2, InAppend DEF DrainInv, DrainTypes
<1>4. DrainTypes' /\ Out!NamedEventsOnce'
  BY <1>2, <1>3 DEF DrainInv, DrainTypes, Out!NamedEventsOnce
<1>5. NamedStayBare'
  <2>1. Unwrapped(file)'
    BY <1>1, <1>3 DEF DrainInv, NamedStayBare, Unwrapped
  <2> QED
    BY <2>1 DEF DrainInv, NamedStayBare, Unwrapped, In
<1>6. ASSUME ~raced' PROVE InTurn'
  <2>1. InTurn /\ \A d \in Drains : drain[d].pc = "idle"
    BY <1>2, <1>6 DEF DrainInv, Out!Busy
  <2> QED
    BY <1>2, <1>3, <2>1 DEF InTurn, In
<1> QED
  BY <1>4, <1>5, <1>6 DEF DrainInv

(* A drain takes a step of its own.                                        *)
DrainRow == [pc : {"idle", "draining", "truncated"},
             todo : Seq(Entry), pending : Seq(Entry)]

LEMMA DrainMoves ==
    ASSUME DrainTypes, NEW d \in Drains, NEW row \in DrainRow,
           drain' = [drain EXCEPT ![d] = row]
    PROVE  /\ drain' \in [Drains -> DrainRow] /\ drain'[d] = row
           /\ \A x \in Drains : x # d => drain'[x] = drain[x]
<1>1. drain \in [Drains -> DrainRow]
  BY DEF DrainTypes, DrainRow
<1> HIDE DEF DrainRow
<1> QED
  BY <1>1

LEMMA NoDrainIsIdle ==
    /\ Out!NoDrain \in DrainRow
    /\ Out!NoDrain.pc = "idle" /\ Out!NoDrain.todo = <<>> /\ Out!NoDrain.pending = <<>>
BY DEF Out!NoDrain, DrainRow

LEMMA ReadKeeps ==
    ASSUME DrainInv, NEW d \in Drains, Out!Read(d)
    PROVE  DrainInv'
<1> DEFINE row == [pc |-> "draining", todo |-> file, pending |-> <<>>]
<1>1. /\ drain' = [drain EXCEPT ![d] = row] /\ raced' = (raced \/ Out!Busy)
      /\ UNCHANGED <<file, logged, written>>
  BY DEF Out!Read
<1>2. row \in DrainRow /\ row.pc = "draining" /\ row.todo = file /\ row.pending = <<>>
  BY DEF DrainInv, DrainTypes, DrainRow
<1> HIDE DEF row
<1>3. /\ drain' \in [Drains -> DrainRow] /\ drain'[d] = row
      /\ \A x \in Drains : x # d => drain'[x] = drain[x]
  BY <1>1, <1>2, DrainMoves DEF DrainInv
<1>4. DrainTypes' /\ Out!NamedEventsOnce'
  BY <1>1, <1>3 DEF DrainInv, DrainTypes, DrainRow, Out!NamedEventsOnce
<1>5. NamedStayBare'
  <2>1. ASSUME NEW x \in Drains
        PROVE  /\ Unwrapped(drain'[x].todo)
               /\ \A l \in Named : ~In(l, drain'[x].pending)
    BY <1>2, <1>3, InEmpty DEF DrainInv, NamedStayBare
  <2> QED
    BY <1>1, <2>1 DEF DrainInv, NamedStayBare, Unwrapped, In
<1>6. ASSUME ~raced' PROVE InTurn'
  <2>1. InTurn /\ \A x \in Drains : drain[x].pc = "idle"
    BY <1>1, <1>6 DEF DrainInv, Out!Busy
  <2>2. \A x \in Drains : drain[x].pending = <<>>
    BY <2>1 DEF InTurn
  <2>3. \A x \in Drains : drain'[x].pc = "idle" \/ x = d
    BY <1>3, <2>1
  <2>4. \A l : \A x \in Drains : ~In(l, drain[x].pending)
    BY <2>2, InEmpty
  <2>5. \A l \in written' : logged'[l] > 0 \/ In(l, file')
    BY <1>1, <2>1, <2>4 DEF InTurn
  <2>6. \A x \in Drains :
            /\ drain'[x].pc = "idle" => drain'[x].pending = <<>>
            /\ drain'[x].pc # "truncated"
    BY <1>2, <1>3, <2>1, <2>2
  <2>7. \A x \in Drains : drain'[x].pc = "draining" =>
            drain'[x].todo = file' /\ drain'[x].pending = <<>>
    BY <1>1, <1>2, <1>3, <2>3
  <2>8. \A l : ~In(l, <<>>)
    BY InEmpty
  <2>9. \A x \in Drains : drain'[x].pc = "draining" =>
            /\ \A l \in Out!Lines : In(l, file') =>
                   logged'[l] > 0 \/ In(l, drain'[x].todo) \/ In(l, drain'[x].pending)
            /\ \A l \in Out!Lines :
                   In(l, drain'[x].todo) \/ In(l, drain'[x].pending) => In(l, file')
    BY <2>7, <2>8
  <2> QED
    BY <2>3, <2>5, <2>6, <2>9 DEF InTurn, In
<1> QED
  BY <1>4, <1>5, <1>6 DEF DrainInv

LEMMA DrainKeeps ==
    ASSUME DrainInv, NEW d \in Drains, Out!Drain(d)
    PROVE  DrainInv'
<1> DEFINE h == drain[d]
           entry == Head(h.todo)
           kept == Out!Kept(entry)
           row == [h EXCEPT !.todo = Tail(h.todo), !.pending = h.pending \o kept]
<1>1. /\ h \in DrainRow /\ h.pc = "draining" /\ h.todo # <<>>
      /\ h.todo \in Seq(Entry) /\ h.pending \in Seq(Entry)
  BY DEF Out!Drain, DrainInv, DrainTypes, DrainRow
<1>2. /\ entry \in Entry /\ Tail(h.todo) \in Seq(Entry)
      /\ Out!ToSet(h.todo) = {entry} \cup Out!ToSet(Tail(h.todo))
      /\ \A l : In(l, h.todo) <=> entry.line = l \/ In(l, Tail(h.todo))
  BY <1>1, InHeadTail
<1>3. /\ kept \in Seq(Entry) /\ \A l : In(l, kept) => l = entry.line
      /\ In(entry.line, kept)
           \/ Out!Outcome(entry.line, entry.wraps) \in {"new", "duplicate"}
      /\ entry.line \in Named /\ entry.wraps = 0 => kept = <<>>
  BY <1>2, Keeps DEF DrainInv
<1>4. /\ h.pending \o kept \in Seq(Entry)
      /\ \A l : In(l, h.pending \o kept) <=> In(l, h.pending) \/ In(l, kept)
  BY <1>1, <1>3, InConcat
<1>5. /\ logged' = Out!LoggedAfter(entry.line, entry.wraps)
      /\ UNCHANGED <<file, written, raced>>
      /\ drain' = [drain EXCEPT ![d].todo = Tail(@), ![d].pending = @ \o kept]
  BY DEF Out!Drain
<1>6. entry.line \in Out!Lines /\ entry.wraps \in Nat
  BY <1>2 DEF Entry
<1>7. /\ logged' \in [Out!Lines -> 0..2] /\ Out!NamedEventsOnce'
      /\ \A l \in Out!Lines : logged[l] > 0 => logged'[l] > 0
      /\ In(entry.line, kept) \/ logged'[entry.line] > 0
  BY <1>3, <1>5, <1>6, Logs DEF DrainInv
<1> HIDE DEF kept, entry
<1>8. drain' = [drain EXCEPT ![d] = row]
  BY <1>5 DEF DrainInv, DrainTypes
<1> HIDE DEF h
<1>9. /\ row \in DrainRow /\ row.pc = "draining" /\ row.todo = Tail(h.todo)
      /\ row.pending = h.pending \o kept
  BY <1>1, <1>2, <1>4 DEF DrainRow
<1> HIDE DEF row
<1>10. /\ drain' \in [Drains -> DrainRow] /\ drain'[d] = row
       /\ \A x \in Drains : x # d => drain'[x] = drain[x]
  BY <1>8, <1>9, DrainMoves DEF DrainInv
<1>11. DrainTypes'
  BY <1>5, <1>7, <1>10 DEF DrainInv, DrainTypes, DrainRow
<1>12. NamedStayBare'
  <2>1. Unwrapped(h.todo) /\ \A l \in Named : ~In(l, h.pending)
    BY DEF h, DrainInv, NamedStayBare
  <2>2. Unwrapped(row.todo)
    BY <1>2, <1>9, <2>1 DEF Unwrapped
  <2>3. \A l \in Named : ~In(l, row.pending)
    <3>1. entry.line \in Named => kept = <<>>
      BY <1>2, <1>3, <2>1 DEF Unwrapped
    <3> QED
      BY <1>3, <1>4, <1>9, <2>1, <3>1, InEmpty
  <2>4. ASSUME NEW x \in Drains
        PROVE  /\ Unwrapped(drain'[x].todo)
               /\ \A l \in Named : ~In(l, drain'[x].pending)
    BY <1>10, <2>2, <2>3 DEF DrainInv, NamedStayBare
  <2> QED
    BY <1>5, <2>4 DEF DrainInv, NamedStayBare, Unwrapped, In
<1>13. ASSUME ~raced' PROVE InTurn'
  <2>1. InTurn
    BY <1>5, <1>13 DEF DrainInv
  <2>2. \A x \in Drains : x # d => drain'[x].pc = "idle" /\ drain'[x].pending = <<>>
    BY <1>1, <1>10, <2>1 DEF InTurn, h
  <2>3. \A l \in Out!Lines : In(l, file) =>
            logged[l] > 0 \/ In(l, h.todo) \/ In(l, h.pending)
    BY <1>1, <2>1 DEF InTurn, h
  <2>4. \A l \in Out!Lines : In(l, h.todo) \/ In(l, h.pending) => In(l, file)
    BY <1>1, <2>1 DEF InTurn, h
  <2>5. \A l \in Out!Lines : In(l, file) =>
            logged'[l] > 0 \/ In(l, row.todo) \/ In(l, row.pending)
    BY <1>2, <1>4, <1>7, <1>9, <2>3
  <2>6. \A l \in Out!Lines : In(l, row.todo) \/ In(l, row.pending) => In(l, file)
    BY <1>2, <1>3, <1>4, <1>9, <2>4
  <2>7. \A l \in written :
            logged'[l] > 0 \/ In(l, file) \/ \E x \in Drains : In(l, drain'[x].pending)
    <3> SUFFICES ASSUME NEW l \in written, ~(logged'[l] > 0), ~In(l, file)
                 PROVE  \E x \in Drains : In(l, drain'[x].pending)
      OBVIOUS
    <3>1. l \in Out!Lines /\ ~(logged[l] > 0)
      BY <1>7 DEF DrainInv, DrainTypes
    <3>2. PICK x \in Drains : In(l, drain[x].pending)
      BY <2>1, <3>1 DEF InTurn
    <3>3. x = d => In(l, row.pending)
      BY <1>4, <1>9, <3>2 DEF h
    <3> QED
      BY <1>10, <3>2, <3>3
  <2>8. ASSUME NEW x \in Drains, drain'[x].pc # "idle" PROVE x = d
    BY <2>2, <2>8
  <2>9. ASSUME NEW x \in Drains
        PROVE  /\ drain'[x].pc = "idle" => drain'[x].pending = <<>>
               /\ drain'[x].pc # "truncated"
               /\ drain'[x].pc = "draining" => drain'[x] = row
    BY <1>9, <1>10, <2>2
  <2> QED
    BY <1>5, <2>5, <2>6, <2>7, <2>8, <2>9 DEF InTurn, In
<1> QED
  BY <1>7, <1>11, <1>12, <1>13 DEF DrainInv

(* The file is opened for writing, which empties it.                       *)
LEMMA TruncateKeeps ==
    ASSUME DrainInv, NEW d \in Drains, Out!Truncate(d)
    PROVE  DrainInv'
<1> DEFINE h == drain[d]
           row == [h EXCEPT !.pc = "truncated"]
<1>1. h \in DrainRow /\ h.pc = "draining" /\ h.todo = <<>>
  BY DEF Out!Truncate, DrainInv, DrainTypes, DrainRow
<1>2. /\ drain' = [drain EXCEPT ![d] = row] /\ file' = <<>>
      /\ UNCHANGED <<logged, written, raced>>
  BY DEF Out!Truncate, DrainInv, DrainTypes
<1> HIDE DEF h
<1>3. /\ row \in DrainRow /\ row.pc = "truncated" /\ row.todo = h.todo
      /\ row.pending = h.pending
  BY <1>1 DEF DrainRow
<1> HIDE DEF row
<1>4. /\ drain' \in [Drains -> DrainRow] /\ drain'[d] = row
      /\ \A x \in Drains : x # d => drain'[x] = drain[x]
  BY <1>2, <1>3, DrainMoves DEF DrainInv
<1>5. \A x \in Drains : /\ drain'[x].todo = drain[x].todo
                        /\ drain'[x].pending = drain[x].pending
  BY <1>3, <1>4 DEF h
<1>6. DrainTypes' /\ Out!NamedEventsOnce'
  BY <1>2, <1>4 DEF DrainInv, DrainTypes, DrainRow, Out!NamedEventsOnce
<1>7. NamedStayBare'
  BY <1>2, <1>5, InEmpty DEF DrainInv, NamedStayBare, Unwrapped, In
<1>8. ASSUME ~raced' PROVE InTurn'
  <2>1. InTurn
    BY <1>2, <1>8 DEF DrainInv
  <2>2. \A x \in Drains : x # d => drain'[x].pc = "idle" /\ drain'[x].pending = <<>>
    BY <1>1, <1>4, <2>1 DEF InTurn, h
  <2>3. \A l \in Out!Lines : In(l, file) => logged[l] > 0 \/ In(l, drain[d].pending)
    BY <1>1, <2>1, InEmpty DEF InTurn, h
  <2>4. \A l \in written : logged'[l] > 0 \/ \E x \in Drains : In(l, drain'[x].pending)
    BY <1>2, <1>5, <2>1, <2>3 DEF InTurn, DrainInv, DrainTypes
  <2>5. ASSUME NEW x \in Drains
        PROVE  /\ drain'[x].pc # "idle" => x = d
               /\ drain'[x].pc = "idle" => drain'[x].pending = <<>>
               /\ drain'[x].pc # "draining"
    BY <1>3, <1>4, <2>2
  <2> QED
    BY <1>2, <2>4, <2>5 DEF InTurn, In
<1> QED
  BY <1>6, <1>7, <1>8 DEF DrainInv

(* A drain ends, and the file holds what it kept, or as much as before.    *)
LEMMA DrainEndKeeps ==
    ASSUME DrainInv, NEW d \in Drains, Out!WriteBack(d) \/ Out!Abort(d)
    PROVE  DrainInv'
<1> DEFINE h == drain[d]
           row == Out!NoDrain
<1>1. /\ h \in DrainRow /\ h.pc # "idle" /\ drain' = [drain EXCEPT ![d] = row]
      /\ UNCHANGED <<logged, written>>
      /\ ~raced' => ~raced
      /\ \/ file' = file
         \/ h.pc = "truncated" /\ file' = h.pending
      /\ h.pc = "truncated" /\ ~raced' /\ h.pending # <<>> => file' = h.pending
  <2>1. h \in DrainRow
    BY DEF DrainInv, DrainTypes, DrainRow
  <2>2. CASE Out!WriteBack(d)
    BY <2>1, <2>2 DEF Out!WriteBack
  <2>3. CASE Out!Abort(d)
    <3>1. ~raced' => ~raced /\ h.pc # "truncated"
      BY <2>3 DEF Out!Abort
    <3> QED
      BY <2>1, <2>3, <3>1 DEF Out!Abort
  <2> QED
    BY <2>2, <2>3
<1> HIDE DEF h
<1>2. row \in DrainRow /\ row.pc = "idle" /\ row.todo = <<>> /\ row.pending = <<>>
  BY NoDrainIsIdle
<1> HIDE DEF row
<1>3. /\ drain' \in [Drains -> DrainRow] /\ drain'[d] = row
      /\ \A x \in Drains : x # d => drain'[x] = drain[x]
  BY <1>1, <1>2, DrainMoves DEF DrainInv
<1>4. h.pending \in Seq(Entry)
  BY <1>1 DEF DrainRow
<1>5. DrainTypes' /\ Out!NamedEventsOnce'
  BY <1>1, <1>3, <1>4 DEF DrainInv, DrainTypes, DrainRow, Out!NamedEventsOnce
<1>6. NamedStayBare'
  <2>1. Unwrapped(file')
    <3>1. Unwrapped(h.pending)
      BY DEF h, DrainInv, NamedStayBare, Unwrapped, In
    <3> QED
      BY <1>1, <3>1 DEF DrainInv, NamedStayBare
  <2>2. ASSUME NEW x \in Drains
        PROVE  /\ Unwrapped(drain'[x].todo)
               /\ \A l \in Named : ~In(l, drain'[x].pending)
    BY <1>2, <1>3, InEmpty DEF DrainInv, NamedStayBare, Unwrapped
  <2> QED
    BY <2>1, <2>2 DEF NamedStayBare, Unwrapped, In
<1>7. ASSUME ~raced' PROVE InTurn'
  <2>1. InTurn
    BY <1>1, <1>7 DEF DrainInv
  <2>2. \A x \in Drains : drain'[x].pc = "idle" /\ drain'[x].pending = <<>>
    BY <1>1, <1>2, <1>3, <2>1 DEF InTurn, h
  <2>3. \A l \in Out!Lines : In(l, file) \/ In(l, h.pending) => In(l, file')
    <3>1. CASE h.pc = "draining"
      <4>1. \A l \in Out!Lines : In(l, h.pending) => In(l, file)
        BY <2>1, <3>1 DEF InTurn, h
      <4> QED
        BY <1>1, <3>1, <4>1
    <3>2. CASE h.pc = "truncated"
      <4>1. file = <<>>
        BY <2>1, <3>2 DEF InTurn, h
      <4> QED
        BY <1>1, <1>7, <3>2, <4>1, InEmpty
    <3> QED
      BY <1>1, <3>1, <3>2 DEF DrainRow
  <2>4. \A x \in Drains : x # d => drain[x].pending = <<>>
    BY <1>3, <2>2
  <2>5. \A l \in written : logged[l] > 0 \/ In(l, file) \/ In(l, h.pending)
    BY <2>1, <2>4, InEmpty DEF InTurn, h
  <2>6. \A l \in written : logged[l] > 0 \/ In(l, file')
    BY <2>3, <2>5 DEF DrainInv, DrainTypes
  <2> QED
    BY <1>1, <2>2, <2>6 DEF InTurn, In
<1> QED
  BY <1>5, <1>6, <1>7 DEF DrainInv

LEMMA DrainInvNext ==
    ASSUME DrainInv, [Out!Next]_drainVars
    PROVE  DrainInv'
<1>1. ASSUME NEW l \in Out!Lines, Out!IngestOne(l) PROVE DrainInv'
  <2>1. UNCHANGED <<file, written, drain, raced>> /\ logged' = Out!LoggedAfter(l, 0)
    BY <1>1 DEF Out!IngestOne
  <2>2. /\ logged' \in [Out!Lines -> 0..2] /\ Out!NamedEventsOnce'
        /\ \A x \in Out!Lines : logged[x] > 0 => logged'[x] > 0
    BY <2>1, Logs DEF DrainInv
  <2>3. DrainTypes' /\ NamedStayBare'
    BY <2>1, <2>2 DEF DrainInv, DrainTypes, NamedStayBare, Unwrapped, In
  <2>4. InTurn => InTurn'
    BY <2>1, <2>2 DEF InTurn, DrainInv, DrainTypes
  <2> QED
    BY <2>1, <2>2, <2>3, <2>4 DEF DrainInv
<1>2. ASSUME NEW l \in Out!Lines, Out!FallBack(l) \/ Out!TornLine(l) PROVE DrainInv'
  BY <1>2, AppendedKeeps DEF Out!FallBack, Out!TornLine
<1>3. ASSUME NEW d \in Drains,
             \/ Out!Read(d) \/ Out!Drain(d) \/ Out!Truncate(d)
             \/ Out!WriteBack(d) \/ Out!Abort(d)
      PROVE  DrainInv'
  BY <1>3, ReadKeeps, DrainKeeps, TruncateKeeps, DrainEndKeeps
<1>4. ASSUME UNCHANGED <<file, logged, written, drain, raced>> PROVE DrainInv'
  BY <1>4 DEF DrainInv, DrainTypes, NamedStayBare, Unwrapped, InTurn, In,
     Out!NamedEventsOnce
<1> QED
  BY <1>1, <1>2, <1>3, <1>4
  DEF Out!Next, Out!Post, Out!Answer, Out!NoAnswer, drainVars

(* Unless an append or another drain overlaps it, or it dies while it      *)
(* rewrites the file, a drain applies or keeps each line; an event with an *)
(* id is logged once, and one with id and time leaves the file             *)
(* (cmd_outbox_drain, _ingest_batch).                                      *)
THEOREM DrainsStayExact == MaintenanceSpec => []DrainsAreExact
<1>1. MaintenanceInit => DrainInv
  <2> SUFFICES ASSUME MaintenanceInit PROVE DrainInv
    OBVIOUS
  <2>1. /\ file = <<>> /\ logged = [l \in Out!Lines |-> 0] /\ written = {}
        /\ drain = [d \in Drains |-> Out!NoDrain]
    BY DEF MaintenanceInit, Out!Init
  <2>2. \A d \in Drains : drain[d] = Out!NoDrain
    BY <2>1
  <2>3. DrainTypes /\ Out!NamedEventsOnce
    BY <2>1, NoDrainIsIdle DEF DrainTypes, DrainRow, Out!NamedEventsOnce, Out!Lines,
       Out!EventLines
  <2>4. NamedStayBare
    BY <2>1, <2>2, NoDrainIsIdle, InEmpty DEF NamedStayBare, Unwrapped
  <2>5. InTurn
    BY <2>1, <2>2, NoDrainIsIdle DEF InTurn
  <2> QED
    BY <2>3, <2>4, <2>5 DEF DrainInv
<1>2. DrainInv /\ [MaintenanceNext]_allVars => DrainInv'
  BY Parts, DrainInvNext
<1>3. DrainInv => DrainsAreExact
  <2> SUFFICES ASSUME DrainInv PROVE DrainsAreExact
    OBVIOUS
  <2>1. Out!NothingIsLostInTurn
    <3>1. \A l : In(l, file) => Out!InFile(l)
      BY DEF In, Out!InFile, Out!ToSet
    <3>2. \A l : (\E d \in Drains : In(l, drain[d].pending)) => Out!IsPending(l)
      BY DEF In, Out!IsPending
    <3> QED
      BY <3>1, <3>2 DEF DrainInv, InTurn, Out!NothingIsLostInTurn
  <2>2. Out!GoodLinesNeverStick
    BY DEF DrainInv, NamedStayBare, Unwrapped, In, Out!GoodLinesNeverStick,
       Out!IsPending, Out!ToSet
  <2> QED
    BY <2>1, <2>2 DEF DrainInv, DrainsAreExact
<1> QED
  BY <1>1, <1>2, <1>3, PTL DEF MaintenanceSpec

-----------------------------------------------------------------------------
(* ExportFiles.                                                            *)
WriterRow ==
    [pc : {"idle", "evidence", "revision", "policy", "files", "manifest"},
     next : 1..Len(Payloads), write : Nat, policy : Nat, evidence : Nat,
     revision : Nat, full_policy : Nat \cup {None}]

ExportTypes ==
    /\ store \in [revision : Nat, evidence : Nat, policy : Nat]
    /\ writer \in [Writers -> WriterRow]
    /\ files \in [Exp!Names -> Exp!Contents \cup {None}]
    /\ manifest # None =>
           manifest.write \in Nat /\ manifest.files \in [Exp!Names -> Exp!Contents]
    /\ writes \in Nat
    /\ spent \in [ingests : Nat, saves : Nat, kills : Nat, failures : Nat]

(* The one writer at work is the latest, and what it has replaced is its.  *)
WritesInTurn ==
    /\ \A v, w \in Writers : Exp!Busy(v) /\ Exp!Busy(w) => v = w
    /\ \A w \in Writers :
           /\ Exp!Busy(w) => writer[w].write = writes
           /\ writer[w].pc \in {"evidence", "revision", "policy"} => writer[w].next = 1
           /\ writer[w].pc = "files" =>
                  \A i \in 1..(writer[w].next - 1) :
                      files[Payloads[i]] = Exp!Payload(writer[w])
           /\ writer[w].pc = "manifest" =>
                  \A n \in Exp!Names : files[n] = Exp!Payload(writer[w])
    /\ \A n \in Exp!Names : files[n] # None => files[n].write <= writes
    /\ manifest # None =>
           /\ manifest.write <= writes
           /\ \A n \in Exp!Names : files[n] # None /\ files[n].write >= manifest.write

WholeWhenDone ==
    manifest # None /\ spent.kills = 0 /\ (\A w \in Writers : ~Exp!Busy(w))
        => files = manifest.files

ExportInv == ExportTypes /\ (~overlapped => WritesInTurn /\ WholeWhenDone)

LEMMA PayloadsFact ==
    /\ Len(Payloads) \in Nat \ {0} /\ DOMAIN Payloads = 1..Len(Payloads)
    /\ Exp!Names = {Payloads[i] : i \in 1..Len(Payloads)}
    /\ None \notin Nat /\ None \notin Exp!Contents
<1>1. Payloads \in Seq(STRING) /\ Payloads # <<>>
  BY MaintenanceAssumption DEF Exp!ExportFilesAssumption
<1>2. Len(Payloads) \in Nat \ {0} /\ DOMAIN Payloads = 1..Len(Payloads)
  BY <1>1, LenProperties, EmptySeq
<1> QED
  BY <1>2, MaintenanceAssumption DEF Exp!ExportFilesAssumption, Exp!Names

(* What is written depends on what was read, not on how far it has come.   *)
LEMMA PayloadFact ==
    ASSUME NEW r \in WriterRow
    PROVE  /\ Exp!Payload(r) \in Exp!Contents /\ Exp!Payload(r).write = r.write
           /\ Exp!Payload(r) # None
           /\ \A q \in WriterRow :
                  /\ q.write = r.write /\ q.policy = r.policy /\ q.evidence = r.evidence
                  /\ q.revision = r.revision /\ q.full_policy = r.full_policy
                  => Exp!Payload(q) = Exp!Payload(r)
<1>1. /\ r.write \in Nat /\ r.policy \in Nat /\ r.evidence \in Nat
      /\ r.revision \in Nat /\ r.full_policy \in Nat \cup {None}
  BY DEF WriterRow
<1>2. Exp!_snapshot_policy(r) \in {"document", "copy"} \X Nat
  BY <1>1 DEF Exp!_snapshot_policy, Exp!Document, Exp!DisplayCopy
<1>3. Exp!Payload(r) \in Exp!Contents /\ Exp!Payload(r).write = r.write
  BY <1>1, <1>2 DEF Exp!Payload, Exp!Contents
<1> QED
  BY <1>3, PayloadsFact DEF Exp!Payload, Exp!_snapshot_policy

(* A writer takes a step.                                                  *)
LEMMA WriterMoves ==
    ASSUME ExportTypes, NEW w \in Writers, NEW row \in WriterRow,
           writer' = [writer EXCEPT ![w] = row]
    PROVE  /\ writer' \in [Writers -> WriterRow] /\ writer'[w] = row
           /\ \A v \in Writers : v # w => writer'[v] = writer[v]
<1>1. writer \in [Writers -> WriterRow]
  BY DEF ExportTypes
<1> HIDE DEF WriterRow
<1> QED
  BY <1>1

LEMMA IdleWriter ==
    Exp!Idle \in WriterRow /\ Exp!Idle.pc = "idle" /\ Exp!Idle.next = 1
BY PayloadsFact DEF Exp!Idle, WriterRow

(* A step that reads: the row goes on, no file is touched.                 *)
LEMMA ReadingKeeps ==
    ASSUME ExportInv, NEW w \in Writers, NEW row \in WriterRow,
           writer' = [writer EXCEPT ![w] = row],
           Exp!Busy(w), row.pc \in {"revision", "policy", "files"}, overlapped \/ row.next = 1,
           row.write = writer[w].write, spent'.kills = spent.kills,
           spent' \in [ingests : Nat, saves : Nat, kills : Nat, failures : Nat],
           UNCHANGED <<store, files, manifest, writes, overlapped>>
    PROVE  ExportInv'
<1>1. /\ writer' \in [Writers -> WriterRow] /\ writer'[w] = row
      /\ \A v \in Writers : v # w => writer'[v] = writer[v]
  BY WriterMoves DEF ExportInv
<1>2. ExportTypes'
  BY <1>1 DEF ExportInv, ExportTypes
<1>3. \A v \in Writers : (writer'[v].pc # "idle") = (writer[v].pc # "idle")
  BY <1>1 DEF Exp!Busy
<1>4. ASSUME ~overlapped' PROVE WritesInTurn' /\ WholeWhenDone'
  <2>1. WritesInTurn /\ WholeWhenDone
    BY <1>4 DEF ExportInv
  <2>2. WholeWhenDone'
    BY <1>3, <2>1 DEF WholeWhenDone, Exp!Busy
  <2>3. row.next = 1 /\ \A i \in 1..(row.next - 1) : FALSE
    BY <1>4
  <2>4. ASSUME NEW v \in Writers
        PROVE  /\ writer'[v].pc # "idle" => writer'[v].write = writes
               /\ writer'[v].pc \in {"evidence", "revision", "policy"} =>
                      writer'[v].next = 1
               /\ writer'[v].pc = "files" => \A i \in 1..(writer'[v].next - 1) :
                      files[Payloads[i]] = Exp!Payload(writer'[v])
               /\ writer'[v].pc = "manifest" => \A n \in Exp!Names :
                      files[n] = Exp!Payload(writer'[v])
    <3>1. CASE v = w
      BY <1>1, <2>1, <2>3, <3>1 DEF WritesInTurn, Exp!Busy
    <3>2. CASE v # w
      BY <1>1, <2>1, <3>2 DEF WritesInTurn, Exp!Busy
    <3> QED
      BY <3>1, <3>2
  <2> QED
    BY <1>3, <2>1, <2>2, <2>4 DEF WritesInTurn, Exp!Busy
<1> QED
  BY <1>2, <1>4 DEF ExportInv

LEMMA StartKeeps ==
    ASSUME ExportInv, NEW w \in Writers, Exp!Start(w)
    PROVE  ExportInv'
<1> DEFINE row == [Exp!Idle EXCEPT !.pc = "evidence", !.write = writes + 1,
                                   !.policy = store.policy]
<1>1. /\ writer' = [writer EXCEPT ![w] = row] /\ writes' = writes + 1
      /\ overlapped' = (overlapped \/ \E v \in Writers : Exp!Busy(v))
      /\ UNCHANGED <<store, files, manifest, spent>>
  BY DEF Exp!Start, Exp!MovesOn
<1>2. /\ row \in WriterRow /\ row.pc = "evidence" /\ row.write = writes + 1
      /\ row.next = 1
  <2> DEFINE begun == [Exp!Idle EXCEPT !.pc = "evidence"]
             numbered == [begun EXCEPT !.write = writes + 1]
  <2>1. writes \in Nat /\ store.policy \in Nat
    BY DEF ExportInv, ExportTypes
  <2>2. begun \in WriterRow /\ begun.pc = "evidence" /\ begun.next = 1
    BY IdleWriter DEF WriterRow
  <2> HIDE DEF begun
  <2>3. /\ numbered \in WriterRow /\ numbered.pc = "evidence" /\ numbered.next = 1
        /\ numbered.write = writes + 1
    BY <2>1, <2>2 DEF WriterRow
  <2>4. row = [numbered EXCEPT !.policy = store.policy]
    BY DEF begun
  <2> HIDE DEF numbered, row
  <2> QED
    BY <2>1, <2>3, <2>4 DEF WriterRow
<1> HIDE DEF row
<1>3. /\ writer' \in [Writers -> WriterRow] /\ writer'[w] = row
      /\ \A v \in Writers : v # w => writer'[v] = writer[v]
  BY <1>1, <1>2, WriterMoves DEF ExportInv
<1>4. ExportTypes'
  BY <1>1, <1>3 DEF ExportInv, ExportTypes
<1>5. ASSUME ~overlapped' PROVE WritesInTurn' /\ WholeWhenDone'
  <2>1. WritesInTurn /\ \A v \in Writers : writer[v].pc = "idle"
    BY <1>1, <1>5 DEF ExportInv, Exp!Busy
  <2>2. \A v \in Writers : v # w => writer'[v].pc = "idle"
    BY <1>3, <2>1
  <2>3. WholeWhenDone'
    BY <1>2, <1>3 DEF WholeWhenDone, Exp!Busy
  <2>4. /\ \A n \in Exp!Names : files'[n] # None => files'[n].write <= writes'
        /\ manifest' # None =>
               /\ manifest'.write <= writes'
               /\ \A n \in Exp!Names :
                      files'[n] # None /\ files'[n].write >= manifest'.write
    <3>1. \A n \in Exp!Names : files[n] # None => files[n].write \in Nat
      BY DEF ExportInv, ExportTypes, Exp!Contents
    <3> QED
      BY <1>1, <2>1, <3>1 DEF ExportInv, ExportTypes, WritesInTurn
  <2>5. ASSUME NEW v \in Writers, writer'[v].pc # "idle"
        PROVE  /\ v = w /\ writer'[v].write = writes' /\ writer'[v].next = 1
               /\ writer'[v].pc = "evidence"
    BY <1>1, <1>2, <1>3, <2>2, <2>5
  <2>6. WritesInTurn'
    BY <2>4, <2>5 DEF WritesInTurn, Exp!Busy
  <2> QED
    BY <2>3, <2>6
<1> QED
  BY <1>4, <1>5 DEF ExportInv

(* A file takes the place of the one before it.                            *)
LEMMA ReplaceKeeps ==
    ASSUME ExportInv, NEW w \in Writers, Exp!Replace(w)
    PROVE  ExportInv'
<1> DEFINE r == writer[w]
           last == r.next = Len(Payloads)
           row == IF last THEN [r EXCEPT !.pc = "manifest"]
                          ELSE [r EXCEPT !.next = @ + 1]
           payload == Exp!Payload(r)
<1>1. /\ r.pc = "files" /\ writer' = [writer EXCEPT ![w] = row]
      /\ files' = [files EXCEPT ![Payloads[r.next]] = payload]
      /\ UNCHANGED <<store, manifest, writes, overlapped, spent>>
  BY DEF Exp!Replace
<1>2. r \in WriterRow /\ r.next \in 1..Len(Payloads)
  BY DEF ExportInv, ExportTypes, WriterRow
<1>3. /\ payload \in Exp!Contents /\ payload.write = r.write /\ payload # None
  BY <1>2, PayloadFact
<1> HIDE DEF r
<1>4. /\ row \in WriterRow /\ row.write = r.write
      /\ row.policy = r.policy /\ row.evidence = r.evidence
      /\ row.revision = r.revision /\ row.full_policy = r.full_policy
      /\ \/ row.pc = "manifest" /\ last
         \/ row.pc = "files" /\ row.next = r.next + 1
  BY <1>1, <1>2, PayloadsFact DEF WriterRow
<1>5. Exp!Payload(row) = payload
  BY <1>2, <1>4, PayloadFact
<1> HIDE DEF row, payload
<1>6. /\ writer' \in [Writers -> WriterRow] /\ writer'[w] = row
      /\ \A v \in Writers : v # w => writer'[v] = writer[v]
  BY <1>1, <1>4, WriterMoves DEF ExportInv
<1>7. /\ files' \in [Exp!Names -> Exp!Contents \cup {None}]
      /\ \A n \in Exp!Names :
             files'[n] = IF n = Payloads[r.next] THEN payload ELSE files[n]
      /\ Payloads[r.next] \in Exp!Names
  <2>1. files \in [Exp!Names -> Exp!Contents \cup {None}]
    BY DEF ExportInv, ExportTypes
  <2>2. Payloads[r.next] \in Exp!Names
    BY <1>2, PayloadsFact
  <2> QED
    BY <1>1, <1>3, <2>1, <2>2
<1>8. ExportTypes'
  BY <1>1, <1>6, <1>7 DEF ExportInv, ExportTypes
<1>9. ASSUME ~overlapped' PROVE WritesInTurn' /\ WholeWhenDone'
  <2>1. WritesInTurn
    BY <1>1, <1>9 DEF ExportInv
  <2>2. \A v \in Writers : v # w => writer'[v].pc = "idle"
    BY <1>1, <1>6, <2>1 DEF WritesInTurn, Exp!Busy, r
  <2>3. r.write = writes /\ row.pc # "idle"
    BY <1>1, <1>4, <2>1 DEF WritesInTurn, Exp!Busy, r
  <2>4. \A i \in 1..r.next : files'[Payloads[i]] = payload
    <3>1. \A i \in 1..(r.next - 1) : files[Payloads[i]] = payload
      BY <1>1, <2>1 DEF WritesInTurn, r, payload
    <3>2. \A i \in 1..r.next : Payloads[i] \in Exp!Names
      BY <1>2, PayloadsFact
    <3>3. r.next \in Nat
      BY <1>2, PayloadsFact
    <3> QED
      BY <1>7, <3>1, <3>2, <3>3
  <2>5. last => \A n \in Exp!Names : files'[n] = payload
    BY <2>4, PayloadsFact
  <2>6. /\ \A n \in Exp!Names : files'[n] # None => files'[n].write <= writes'
        /\ manifest' # None =>
               /\ manifest'.write <= writes'
               /\ \A n \in Exp!Names :
                      files'[n] # None /\ files'[n].write >= manifest'.write
    BY <1>1, <1>3, <1>7, <2>1, <2>3 DEF WritesInTurn, ExportInv, ExportTypes
  <2>7. WholeWhenDone'
    BY <1>6, <2>3 DEF WholeWhenDone, Exp!Busy
  <2>8. ASSUME NEW v \in Writers
        PROVE  /\ writer'[v].pc # "idle" => v = w /\ writer'[v].write = writes
               /\ writer'[v].pc = "files" => \A i \in 1..(writer'[v].next - 1) :
                      files'[Payloads[i]] = Exp!Payload(writer'[v])
               /\ writer'[v].pc = "manifest" => \A n \in Exp!Names :
                      files'[n] = Exp!Payload(writer'[v])
    <3>1. CASE v # w
      BY <2>2, <3>1
    <3>2. CASE v = w
      <4>1. (r.next + 1) - 1 = r.next
        BY <1>2, PayloadsFact
      <4> QED
        BY <1>4, <1>5, <1>6, <2>3, <2>4, <2>5, <3>2, <4>1
    <3> QED
      BY <3>1, <3>2
  <2>9. \A v \in Writers : writer'[v].pc \in {"idle", "files", "manifest"}
    BY <1>4, <1>6, <2>2
  <2>10. WritesInTurn'
    BY <1>1, <2>6, <2>8, <2>9 DEF WritesInTurn, Exp!Busy
  <2> QED
    BY <2>7, <2>10
<1> QED
  BY <1>8, <1>9 DEF ExportInv

LEMMA ReplaceManifestKeeps ==
    ASSUME ExportInv, NEW w \in Writers, Exp!ReplaceManifest(w)
    PROVE  ExportInv'
<1> DEFINE r == writer[w]
           idle == Exp!Idle
           payload == Exp!Payload(r)
<1>1. /\ r.pc = "manifest" /\ writer' = [writer EXCEPT ![w] = idle]
      /\ manifest' = Exp!ManifestOf(r)
      /\ UNCHANGED <<store, files, writes, overlapped, spent>>
  BY DEF Exp!ReplaceManifest
<1>2. r \in WriterRow /\ idle \in WriterRow /\ idle.pc = "idle"
  BY IdleWriter DEF ExportInv, ExportTypes
<1>3. payload \in Exp!Contents /\ payload.write = r.write /\ payload # None
  BY <1>2, PayloadFact
<1>4. manifest'.write = r.write /\ manifest'.files = [n \in Exp!Names |-> payload]
  BY <1>1 DEF Exp!ManifestOf
<1>5. r.write \in Nat
  BY <1>2 DEF WriterRow
<1> HIDE DEF r, idle, payload
<1>6. /\ writer' \in [Writers -> WriterRow] /\ writer'[w] = idle
      /\ \A v \in Writers : v # w => writer'[v] = writer[v]
  BY <1>1, <1>2, WriterMoves DEF ExportInv
<1>7. ExportTypes'
  BY <1>1, <1>3, <1>4, <1>5, <1>6 DEF ExportInv, ExportTypes
<1>8. ASSUME ~overlapped' PROVE WritesInTurn' /\ WholeWhenDone'
  <2>1. WritesInTurn
    BY <1>1, <1>8 DEF ExportInv
  <2>2. \A v \in Writers : writer'[v].pc = "idle"
    BY <1>1, <1>2, <1>6, <2>1 DEF WritesInTurn, Exp!Busy, r
  <2>3. r.write = writes /\ \A n \in Exp!Names : files[n] = payload
    BY <1>1, <2>1 DEF WritesInTurn, Exp!Busy, r, payload
  <2>4. files' = manifest'.files
    BY <1>1, <1>4, <2>3 DEF ExportInv, ExportTypes
  <2> QED
    BY <1>1, <1>3, <1>4, <1>5, <2>2, <2>3, <2>4
    DEF WritesInTurn, WholeWhenDone, Exp!Busy
<1> QED
  BY <1>7, <1>8 DEF ExportInv

LEMMA KillKeeps ==
    ASSUME ExportInv, NEW w \in Writers, Exp!Kill(w)
    PROVE  ExportInv'
<1> DEFINE idle == Exp!Idle
<1>1. /\ writer' = [writer EXCEPT ![w] = idle] /\ writer[w].pc # "idle"
      /\ spent' = [spent EXCEPT !.kills = @ + 1]
      /\ UNCHANGED <<store, files, manifest, writes, overlapped>>
  BY DEF Exp!Kill, Exp!Busy
<1>2. idle \in WriterRow /\ idle.pc = "idle"
  BY IdleWriter
<1> HIDE DEF idle
<1>3. /\ writer' \in [Writers -> WriterRow] /\ writer'[w] = idle
      /\ \A v \in Writers : v # w => writer'[v] = writer[v]
  BY <1>1, <1>2, WriterMoves DEF ExportInv
<1>4. /\ spent' \in [ingests : Nat, saves : Nat, kills : Nat, failures : Nat]
      /\ spent'.kills # 0
  BY <1>1 DEF ExportInv, ExportTypes
<1>5. ExportTypes'
  BY <1>1, <1>3, <1>4 DEF ExportInv, ExportTypes
<1>6. ASSUME ~overlapped' PROVE WritesInTurn' /\ WholeWhenDone'
  <2>1. WritesInTurn
    BY <1>1, <1>6 DEF ExportInv
  <2>2. \A v \in Writers : writer'[v].pc = "idle"
    BY <1>1, <1>2, <1>3, <2>1 DEF WritesInTurn, Exp!Busy
  <2> QED
    BY <1>1, <1>4, <2>1, <2>2
    DEF WritesInTurn, WholeWhenDone, Exp!Busy
<1> QED
  BY <1>5, <1>6 DEF ExportInv

LEMMA ExportInvNext ==
    ASSUME ExportInv, [Exp!Next]_exportVars
    PROVE  ExportInv'
<1>1. ASSUME UNCHANGED <<writer, files, manifest, writes, overlapped>>,
             store' \in [revision : Nat, evidence : Nat, policy : Nat],
             spent' \in [ingests : Nat, saves : Nat, kills : Nat, failures : Nat],
             spent'.kills = spent.kills
      PROVE  ExportInv'
  BY <1>1 DEF ExportInv, ExportTypes, WritesInTurn, WholeWhenDone, Exp!Busy
<1>2. /\ store \in [revision : Nat, evidence : Nat, policy : Nat]
      /\ spent \in [ingests : Nat, saves : Nat, kills : Nat, failures : Nat]
      /\ writer \in [Writers -> WriterRow]
  BY DEF ExportInv, ExportTypes
<1>3. ASSUME Exp!Ingest \/ Exp!ActivatePolicy \/ Exp!AuditPolicy PROVE ExportInv'
  <2>1. store' \in [revision : Nat, evidence : Nat, policy : Nat]
    <3> DEFINE counted == [store EXCEPT !.evidence = @ + 1]
    <3>1. counted \in [revision : Nat, evidence : Nat, policy : Nat]
      BY <1>2
    <3>2. Exp!Ingest => store' = [counted EXCEPT !.revision = @ + 1]
      BY DEF Exp!Ingest
    <3> HIDE DEF counted
    <3>3. Exp!Ingest => store' \in [revision : Nat, evidence : Nat, policy : Nat]
      BY <3>1, <3>2
    <3>4. Exp!ActivatePolicy \/ Exp!AuditPolicy
              => store' \in [revision : Nat, evidence : Nat, policy : Nat]
      BY <1>2 DEF Exp!ActivatePolicy, Exp!AuditPolicy
    <3> QED
      BY <1>3, <3>3, <3>4
  <2>2. /\ spent' \in [ingests : Nat, saves : Nat, kills : Nat, failures : Nat]
        /\ spent'.kills = spent.kills
    BY <1>2, <1>3 DEF Exp!Ingest, Exp!ActivatePolicy, Exp!AuditPolicy
  <2> QED
    BY <1>1, <1>3, <2>1, <2>2 DEF Exp!Ingest, Exp!ActivatePolicy, Exp!AuditPolicy
<1>4. ASSUME NEW w \in Writers,
             \/ Exp!ReadEvidence(w) \/ Exp!ReadRevision(w)
             \/ Exp!ReadFullPolicy(w) \/ Exp!ReadFullPolicyFails(w)
      PROVE  ExportInv'
  <2> DEFINE r == writer[w]
             MovedRows == {[r EXCEPT !.pc = "revision", !.evidence = store.evidence],
                           [r EXCEPT !.pc = "policy", !.revision = store.revision],
                           [r EXCEPT !.pc = "files", !.full_policy = store.policy],
                           [r EXCEPT !.pc = "files"]}
  <2>1. /\ r \in WriterRow /\ r.pc \in {"evidence", "revision", "policy"}
        /\ store.evidence \in Nat /\ store.revision \in Nat /\ store.policy \in Nat
    BY <1>2, <1>4
    DEF Exp!ReadEvidence, Exp!ReadRevision, Exp!ReadFullPolicy, Exp!ReadFullPolicyFails
  <2>2. PICK row \in MovedRows : writer' = [writer EXCEPT ![w] = row]
    BY <1>2, <1>4
    DEF Exp!ReadEvidence, Exp!ReadRevision, Exp!ReadFullPolicy,
        Exp!ReadFullPolicyFails, Exp!MovesOn
  <2>3. UNCHANGED <<store, files, manifest, writes, overlapped>>
    BY <1>4
    DEF Exp!ReadEvidence, Exp!ReadRevision, Exp!ReadFullPolicy,
        Exp!ReadFullPolicyFails, Exp!MovesOn
  <2>4. /\ spent' \in [ingests : Nat, saves : Nat, kills : Nat, failures : Nat]
        /\ spent'.kills = spent.kills
    BY <1>2, <1>4
    DEF Exp!ReadEvidence, Exp!ReadRevision, Exp!ReadFullPolicy, Exp!ReadFullPolicyFails
  <2> HIDE DEF r
  <2>5. /\ row \in WriterRow /\ row.pc \in {"revision", "policy", "files"}
        /\ row.next = r.next /\ row.write = r.write
    BY <2>1, <2>2 DEF WriterRow
  <2>6. overlapped \/ r.next = 1
    BY <2>1 DEF ExportInv, WritesInTurn, r
  <2> QED
    BY <2>1, <2>2, <2>3, <2>4, <2>5, <2>6, ReadingKeeps DEF r, Exp!Busy
<1>5. ASSUME UNCHANGED exportVars PROVE ExportInv'
  BY <1>1, <1>2, <1>5 DEF exportVars
<1> QED
  BY <1>3, <1>4, <1>5, StartKeeps, ReplaceKeeps, ReplaceManifestKeeps, KillKeeps
  DEF Exp!Next

(* With one writer at a time, whenever it is killed, the manifest is no    *)
(* newer than any file, and a write left undisturbed leaves the whole set  *)
(* (write_compatibility_exports).                                          *)
THEOREM ExportsStayWhole == MaintenanceSpec => []ExportSetIsWhole
<1>1. MaintenanceInit => ExportInv
  <2> SUFFICES ASSUME MaintenanceInit PROVE ExportInv
    OBVIOUS
  <2>1. /\ store = [revision |-> 0, evidence |-> 0, policy |-> 0]
        /\ writer = [w \in Writers |-> Exp!Idle]
        /\ files = [n \in Exp!Names |-> None] /\ manifest = None /\ writes = 0
        /\ spent = [ingests |-> 0, saves |-> 0, kills |-> 0, failures |-> 0]
    BY DEF MaintenanceInit, Exp!Init
  <2>2. writer \in [Writers -> WriterRow] /\ \A w \in Writers : writer[w].pc = "idle"
    BY <2>1, IdleWriter
  <2>3. ExportTypes
    BY <2>1, <2>2 DEF ExportTypes
  <2>4. WritesInTurn /\ WholeWhenDone
    BY <2>1, <2>2 DEF WritesInTurn, WholeWhenDone, Exp!Busy
  <2> QED
    BY <2>3, <2>4 DEF ExportInv
<1>2. ExportInv /\ [MaintenanceNext]_allVars => ExportInv'
  BY Parts, ExportInvNext
<1>3. ExportInv => ExportSetIsWhole
  BY DEF ExportInv, WritesInTurn, WholeWhenDone, ExportSetIsWhole,
     Exp!ManifestFollowsItsFiles, Exp!UndisturbedSetIsWhole
<1> QED
  BY <1>1, <1>2, <1>3, PTL DEF MaintenanceSpec

-----------------------------------------------------------------------------
(* Hotfix.                                                                 *)

(* What is installed, by where the helper is.                              *)
InstalledAsTold ==
    LET pc == helper.pc IN
    /\ pc \in {"apply", "stop", "copy", "restart", "prove", "old-untouched",
               "rolled-back-old"} => LIVE = "old" /\ START = "old"
    /\ pc = "failed" /\ ~helper.stopped => LIVE = "old" /\ START = "old"
    /\ pc = "startup" => LIVE = "new"
    /\ pc \in {"start", "await", "compare", "healthy-new"} =>
           LIVE = "new" /\ START = "new"
    /\ pc \in {"copy", "startup", "start", "await", "compare"} => helper.stopped

(* The process the helper waits for was started from what is installed,    *)
(* and once it was seen to serve, so was whoever serves.                   *)
WaitsForItsOwn ==
    /\ pids \in Nat
    /\ service # None => service.pid \in 1..pids
    /\ helper.pc \in {"await", "prove"} =>
           /\ helper.new_pid \in 1..pids
           /\ service # None /\ service.pid = helper.new_pid => service.loaded = LIVE
    /\ helper.pc = "compare" /\ service # None => service.loaded = LIVE

ReceiptComesLast ==
    /\ helper.pc # "ended" => promotion = None
    /\ Hot!ReceiptTellsTheFiles

Places ==
    {"apply", "stop", "copy", "startup", "start", "await", "compare", "failed", "undo",
     "restore", "restart", "prove", "ended", "killed"} \cup Hot!Outcomes

HelperRow ==
    [pc : Places, old_pid : Nat, new_pid : Nat \cup {None}, stopped : BOOLEAN]

PromoteInv ==
    helper \in HelperRow /\ InstalledAsTold /\ WaitsForItsOwn /\ ReceiptComesLast

(* What a step of the helper does to its row.                              *)
LEMMA GoesTo ==
    ASSUME helper \in HelperRow, NEW STATE from, NEW STATE to, to \in Places, Hot!Goes(from, to)
    PROVE  /\ helper' \in HelperRow /\ helper.pc = from /\ helper'.pc = to
           /\ helper'.new_pid = helper.new_pid
           /\ helper'.stopped = helper.stopped
BY DEF Hot!Goes, HelperRow

(* A process that starts serves only a free port, from what is installed.  *)
LEMMA LaunchedServes ==
    ASSUME pids \in Nat, service # None => service.pid \in 1..pids,
           NEW digest, Hot!Launched(digest)
    PROVE  /\ pids' = pids + 1 /\ pids' \in Nat
           /\ \/ service' = service
              \/ service = None /\ service'.pid = pids' /\ service'.loaded = LIVE
           /\ service' # None => service'.pid \in 1..pids'
BY DEF Hot!Launched

(* What lies between the receipt and the end does not tell of the files.   *)
LEMMA NoReceiptYet ==
    ASSUME promotion = None
    PROVE  Hot!ReceiptTellsTheFiles
BY MaintenanceAssumption DEF Hot!HotfixAssumption, Hot!ReceiptTellsTheFiles

LEMMA OutsideKeepsPromotion ==
    ASSUME PromoteInv, Hot!Die \/ Hot!Logon \/ Hot!KillHelper
    PROVE  PromoteInv'
<1>1. CASE Hot!Die
  BY <1>1 DEF Hot!Die, PromoteInv, InstalledAsTold, WaitsForItsOwn, ReceiptComesLast,
     Hot!ReceiptTellsTheFiles
<1>2. CASE Hot!Logon
  <2>1. /\ pids' = pids + 1 /\ pids' \in Nat /\ pids \in Nat
        /\ \/ service' = service
           \/ service = None /\ service'.pid = pids' /\ service'.loaded = LIVE
        /\ service' # None => service'.pid \in 1..pids'
    BY <1>2, LaunchedServes DEF Hot!Logon, PromoteInv, WaitsForItsOwn
  <2>2. UNCHANGED <<LIVE, START, helper, promotion>>
    BY <1>2 DEF Hot!Logon
  <2>3. WaitsForItsOwn'
    BY <2>1, <2>2 DEF PromoteInv, WaitsForItsOwn, InstalledAsTold
  <2> QED
    BY <2>2, <2>3 DEF PromoteInv, InstalledAsTold, ReceiptComesLast,
       Hot!ReceiptTellsTheFiles
<1>3. CASE Hot!KillHelper
  <2>1. /\ Hot!Goes(helper.pc, "killed") /\ promotion = None
        /\ UNCHANGED <<LIVE, START, service, pids, promotion>>
    BY <1>3 DEF Hot!KillHelper, Hot!Goes, PromoteInv, ReceiptComesLast
  <2>2. helper \in HelperRow
    BY DEF PromoteInv
  <2>3. helper' \in HelperRow /\ helper'.pc = "killed"
    BY <2>1, <2>2 DEF Hot!Goes, HelperRow, Places
  <2>4. InstalledAsTold' /\ WaitsForItsOwn'
    BY <2>1, <2>3 DEF PromoteInv, InstalledAsTold, WaitsForItsOwn
  <2>5. ReceiptComesLast'
    BY <2>1, <2>3 DEF PromoteInv, ReceiptComesLast, Hot!ReceiptTellsTheFiles
  <2> QED
    BY <2>3, <2>4, <2>5 DEF PromoteInv
<1> QED
  BY <1>1, <1>2, <1>3

(* No receipt has been written before the end, so none is wrong.           *)
LEMMA NoReceiptKept ==
    ASSUME ReceiptComesLast, helper.pc # "ended", UNCHANGED promotion
    PROVE  ReceiptComesLast'
BY MaintenanceAssumption
DEF ReceiptComesLast, Hot!HotfixAssumption, Hot!ReceiptTellsTheFiles

(* The steps of the helper that leave every process and file alone.        *)
LEMMA QuietStepKeeps ==
    ASSUME PromoteInv, NEW STATE from, NEW STATE to, to \in Places, Hot!Goes(from, to),
           from # "ended", UNCHANGED <<LIVE, START, service, pids, promotion>>,
           to \notin {"await", "prove"},
           to = "compare" => service # None /\ service.loaded = LIVE,
           to \in {"stop", "restart", "old-untouched", "rolled-back-old"}
               => LIVE = "old" /\ START = "old",
           to \in {"compare", "healthy-new"} => LIVE = "new" /\ START = "new",
           to = "compare" => helper.stopped,
           to = "failed" => helper.stopped \/ (LIVE = "old" /\ START = "old"),
           to \notin {"apply", "copy", "startup", "start", "await"}
    PROVE  PromoteInv'
<1>1. /\ helper' \in HelperRow /\ helper.pc = from /\ helper'.pc = to
      /\ helper'.new_pid = helper.new_pid /\ helper'.stopped = helper.stopped
  BY GoesTo DEF PromoteInv
<1>2. InstalledAsTold'
  BY <1>1 DEF PromoteInv, InstalledAsTold
<1>3. WaitsForItsOwn'
  BY <1>1 DEF PromoteInv, WaitsForItsOwn
<1>4. ReceiptComesLast'
  BY <1>1, NoReceiptKept DEF PromoteInv
<1> QED
  BY <1>1, <1>2, <1>3, <1>4 DEF PromoteInv

LEMMA QuietStepsKeep ==
    ASSUME PromoteInv,
           Hot!Check \/ Hot!Await \/ Hot!Compare \/ Hot!Fail \/ Hot!Prove
    PROVE  PromoteInv'
<1>1. UNCHANGED <<LIVE, START, service, pids, promotion>>
  BY DEF Hot!Check, Hot!Await, Hot!Compare, Hot!Fail, Hot!Prove
<1>2. CASE Hot!Check
  <2>1. /\ Hot!Goes("apply", "stop") \/ Hot!Goes("apply", "ended")
        /\ helper.pc = "apply"
    BY <1>2 DEF Hot!Check, Hot!Goes
  <2>2. LIVE = "old" /\ START = "old"
    BY <2>1 DEF PromoteInv, InstalledAsTold
  <2> QED
    BY <1>1, <2>1, <2>2, QuietStepKeeps DEF Places
<1>3. CASE Hot!Await
  <2>1. /\ \/ Hot!Goes("await", "compare") /\ Hot!Serves(helper.new_pid, "new")
           \/ Hot!Goes("await", "failed")
        /\ helper.pc = "await"
    BY <1>3 DEF Hot!Await, Hot!Goes
  <2>2. /\ LIVE = "new" /\ START = "new" /\ helper.stopped
        /\ Hot!Serves(helper.new_pid, "new")
               => service # None /\ service.loaded = LIVE
    BY <2>1 DEF PromoteInv, InstalledAsTold, WaitsForItsOwn, Hot!Serves
  <2> QED
    BY <1>1, <2>1, <2>2, QuietStepKeeps DEF Places
<1>4. CASE Hot!Compare
  <2>1. /\ Hot!Goes("compare", "healthy-new") \/ Hot!Goes("compare", "failed")
        /\ helper.pc = "compare"
    BY <1>4 DEF Hot!Compare, Hot!Goes
  <2>2. LIVE = "new" /\ START = "new" /\ helper.stopped
    BY <2>1 DEF PromoteInv, InstalledAsTold
  <2> QED
    BY <1>1, <2>1, <2>2, QuietStepKeeps DEF Places, Hot!Outcomes
<1>5. CASE Hot!Fail
  <2>1. /\ IF helper.stopped THEN Hot!Goes("failed", "undo")
                             ELSE Hot!Goes("failed", "old-untouched")
        /\ helper.pc = "failed"
    BY <1>5 DEF Hot!Fail, Hot!Goes
  <2>2. ~helper.stopped => LIVE = "old" /\ START = "old"
    BY <2>1 DEF PromoteInv, InstalledAsTold
  <2> QED
    BY <1>1, <2>1, <2>2, QuietStepKeeps DEF Places, Hot!Outcomes
<1>6. CASE Hot!Prove
  <2>1. /\ \/ Hot!Goes("prove", "rolled-back-old")
           \/ Hot!Goes("prove", "rollback-failed")
        /\ helper.pc = "prove"
    BY <1>6 DEF Hot!Prove, Hot!Goes
  <2>2. LIVE = "old" /\ START = "old"
    BY <2>1 DEF PromoteInv, InstalledAsTold
  <2> QED
    BY <1>1, <2>1, <2>2, QuietStepKeeps DEF Places, Hot!Outcomes
<1> QED
  BY <1>2, <1>3, <1>4, <1>5, <1>6

LEMMA FileStepsKeep ==
    ASSUME PromoteInv, Hot!CopyNew \/ Hot!EditStartup \/ Hot!Restore
    PROVE  PromoteInv'
<1> USE DEF Hot!CopyNew, Hot!EditStartup, Hot!Restore, Hot!Goes
<1>1. /\ helper.pc \in {"copy", "startup", "restore"}
      /\ helper'.pc \in {"startup", "failed", "start", "restart", "rollback-failed"}
      /\ UNCHANGED <<service, pids, promotion>>
  BY DEF PromoteInv, HelperRow
<1>2. /\ helper' \in HelperRow /\ helper'.new_pid = helper.new_pid
      /\ helper'.stopped = helper.stopped
  BY DEF PromoteInv, HelperRow, Places, Hot!Outcomes
<1>3. /\ helper'.pc = "startup" => helper.pc = "copy" /\ LIVE' = "new"
      /\ helper'.pc = "start" => helper.pc = "startup" /\ LIVE' = LIVE /\ START' = "new"
      /\ helper'.pc = "restart" => LIVE' = "old" /\ START' = "old"
      /\ helper'.pc = "failed" => helper.pc \in {"copy", "startup"}
  BY DEF PromoteInv, HelperRow
<1>4. InstalledAsTold'
  BY <1>1, <1>2, <1>3 DEF PromoteInv, InstalledAsTold
<1>5. WaitsForItsOwn'
  BY <1>1, <1>2 DEF PromoteInv, WaitsForItsOwn
<1>6. ReceiptComesLast'
  BY <1>1, NoReceiptKept DEF PromoteInv
<1> QED
  BY <1>2, <1>4, <1>5, <1>6 DEF PromoteInv

LEMMA StopStepsKeep ==
    ASSUME PromoteInv, Hot!StopOld \/ Hot!StopNew
    PROVE  PromoteInv'
<1>1. /\ helper.pc \in {"stop", "undo"}
      /\ helper'.pc \in {"copy", "failed", "restore", "rollback-failed"}
      /\ helper' \in HelperRow
  <2>1. helper \in HelperRow
    BY DEF PromoteInv
  <2>2. CASE Hot!StopOld
    <3>1. \/ helper' = [helper EXCEPT !.pc = "copy", !.stopped = TRUE]
          \/ helper' = [helper EXCEPT !.pc = "failed"]
      BY <2>2 DEF Hot!StopOld
    <3>2. CASE helper' = [helper EXCEPT !.pc = "copy", !.stopped = TRUE]
      <4> DEFINE moved == [helper EXCEPT !.pc = "copy"]
      <4>1. moved \in HelperRow /\ moved.pc = "copy"
        BY <2>1 DEF HelperRow, Places
      <4>2. helper' = [moved EXCEPT !.stopped = TRUE]
        BY <3>2
      <4> HIDE DEF moved
      <4>3. helper' \in HelperRow /\ helper'.pc = "copy"
        BY <4>1, <4>2 DEF HelperRow
      <4> QED
        BY <2>2, <4>3 DEF Hot!StopOld
    <3>3. CASE helper' = [helper EXCEPT !.pc = "failed"]
      <4>1. helper' \in HelperRow /\ helper'.pc = "failed"
        BY <2>1, <3>3 DEF HelperRow, Places
      <4> QED
        BY <2>2, <4>1 DEF Hot!StopOld
    <3> QED
      BY <3>1, <3>2, <3>3
  <2>3. CASE Hot!StopNew
    BY <2>1, <2>3 DEF Hot!StopNew, Hot!Goes, HelperRow, Places, Hot!Outcomes
  <2> QED
    BY <2>2, <2>3
<1>2. /\ helper'.pc \in {"copy", "failed"} =>
            /\ helper.pc = "stop"
            /\ helper'.pc = "copy" => helper'.stopped
      /\ service' \in {service, None}
      /\ UNCHANGED <<LIVE, START, pids, promotion>>
  BY DEF Hot!StopOld, Hot!StopNew, Hot!Goes, PromoteInv, HelperRow
<1>3. InstalledAsTold'
  BY <1>1, <1>2 DEF PromoteInv, InstalledAsTold
<1>4. WaitsForItsOwn'
  BY <1>1, <1>2 DEF PromoteInv, WaitsForItsOwn
<1>5. ReceiptComesLast'
  BY <1>1, <1>2, NoReceiptKept DEF PromoteInv
<1> QED
  BY <1>1, <1>3, <1>4, <1>5 DEF PromoteInv

LEMMA StartStepsKeep ==
    ASSUME PromoteInv, Hot!StartNew \/ Hot!Restart
    PROVE  PromoteInv'
<1>1. /\ helper \in HelperRow /\ pids \in Nat
      /\ service # None => service.pid \in 1..pids
  BY DEF PromoteInv, WaitsForItsOwn
<1>2. UNCHANGED <<LIVE, START, promotion>> /\ helper.pc \in {"start", "restart"}
  BY DEF Hot!StartNew, Hot!Restart, Hot!Goes
<1>3. CASE UNCHANGED <<service, pids>> /\ helper' = [helper EXCEPT !.pc = "failed"]
           /\ helper.pc = "start"
  <2>1. helper' \in HelperRow /\ helper'.pc = "failed" /\ helper'.stopped = helper.stopped
    BY <1>1, <1>3 DEF HelperRow, Places
  <2>2. InstalledAsTold' /\ WaitsForItsOwn'
    BY <1>2, <1>3, <2>1 DEF PromoteInv, InstalledAsTold, WaitsForItsOwn
  <2> QED
    BY <1>2, <2>1, <2>2, NoReceiptKept DEF PromoteInv
<1>4. CASE UNCHANGED <<service, pids>> /\ Hot!Goes("restart", "rollback-failed")
  BY <1>2, <1>4, QuietStepKeeps DEF Places, Hot!Outcomes
<1>5. CASE \E digest, to \in {"new", "old", "await", "prove"} :
              /\ Hot!Launched(digest)
              /\ helper' = [helper EXCEPT !.pc = to, !.new_pid = pids + 1]
              /\ \/ helper.pc = "start" /\ to = "await"
                 \/ helper.pc = "restart" /\ to = "prove"
  <2>1. PICK digest, to \in {"new", "old", "await", "prove"} :
              /\ Hot!Launched(digest)
              /\ helper' = [helper EXCEPT !.pc = to, !.new_pid = pids + 1]
              /\ \/ helper.pc = "start" /\ to = "await"
                 \/ helper.pc = "restart" /\ to = "prove"
    BY <1>5
  <2>2. /\ pids' = pids + 1 /\ pids' \in Nat
        /\ \/ service' = service
           \/ service = None /\ service'.pid = pids' /\ service'.loaded = LIVE
        /\ service' # None => service'.pid \in 1..pids'
    BY <1>1, <2>1, LaunchedServes
  <2> DEFINE moved == [helper EXCEPT !.pc = to]
  <2>3. moved \in HelperRow /\ moved.pc = to /\ moved.stopped = helper.stopped
    BY <1>1, <2>1 DEF HelperRow, Places
  <2>4. helper' = [moved EXCEPT !.new_pid = pids']
    BY <2>1, <2>2
  <2> HIDE DEF moved
  <2>5. /\ helper' \in HelperRow /\ helper'.pc = to /\ helper'.new_pid = pids'
        /\ helper'.stopped = helper.stopped
    BY <2>2, <2>3, <2>4 DEF HelperRow
  <2>6. InstalledAsTold'
    BY <1>2, <2>1, <2>5 DEF PromoteInv, InstalledAsTold
  <2>7. WaitsForItsOwn'
    BY <1>1, <1>2, <2>1, <2>2, <2>5 DEF WaitsForItsOwn
  <2>8. ReceiptComesLast'
    BY <1>2, <2>1, NoReceiptKept DEF PromoteInv
  <2> QED
    BY <2>5, <2>6, <2>7, <2>8 DEF PromoteInv
<1> QED
  BY <1>3, <1>4, <1>5 DEF Hot!StartNew, Hot!Restart

LEMMA WriteReceiptKeeps ==
    ASSUME PromoteInv, Hot!WriteReceipt
    PROVE  PromoteInv'
<1>1. /\ UNCHANGED <<LIVE, START, service, pids>> /\ promotion' = helper.pc
      /\ helper.pc \in Hot!Outcomes
  BY DEF Hot!WriteReceipt
<1>2. helper' \in HelperRow /\ helper'.pc = "ended"
  BY DEF Hot!WriteReceipt, PromoteInv, HelperRow, Places
<1>3. InstalledAsTold' /\ WaitsForItsOwn'
  BY <1>1, <1>2 DEF PromoteInv, InstalledAsTold, WaitsForItsOwn
<1>4. ReceiptComesLast'
  BY <1>1, <1>2 DEF PromoteInv, InstalledAsTold, ReceiptComesLast,
     Hot!ReceiptTellsTheFiles, Hot!Outcomes
<1> QED
  BY <1>2, <1>3, <1>4 DEF PromoteInv

(* The receipt names the release that artifact and startup entry hold, and *)
(* a service is taken for the helper's own, or success declared, only      *)
(* while whoever answers runs what is installed (apply).                   *)
THEOREM PromotionStaysHonest == MaintenanceSpec => PromotionIsHonest
<1>1. MaintenanceInit => PromoteInv
  <2> SUFFICES ASSUME MaintenanceInit PROVE PromoteInv
    OBVIOUS
  <2>1. /\ LIVE = "old" /\ START = "old" /\ pids = 1 /\ promotion = None
        /\ service.pid = 1
        /\ helper = [pc |-> "apply", old_pid |-> 1, new_pid |-> None,
                     stopped |-> FALSE]
    BY DEF MaintenanceInit, Hot!Init
  <2>2. helper \in HelperRow /\ helper.pc = "apply"
    BY <2>1 DEF HelperRow, Places
  <2> QED
    BY <2>1, <2>2, MaintenanceAssumption
    DEF PromoteInv, InstalledAsTold, WaitsForItsOwn, ReceiptComesLast,
        Hot!HotfixAssumption, Hot!ReceiptTellsTheFiles
<1>2. PromoteInv /\ [MaintenanceNext]_allVars => PromoteInv'
  <2> SUFFICES ASSUME PromoteInv, [Hot!Next]_promoteVars PROVE PromoteInv'
    BY Parts
  <2>1. CASE UNCHANGED promoteVars
    BY <2>1 DEF promoteVars, PromoteInv, InstalledAsTold, WaitsForItsOwn,
       ReceiptComesLast, Hot!ReceiptTellsTheFiles
  <2> QED
    BY <2>1, OutsideKeepsPromotion, QuietStepsKeep, FileStepsKeep, StopStepsKeep,
       StartStepsKeep, WriteReceiptKeeps
    DEF Hot!Next, Hot!apply
<1>3. PromoteInv => Hot!ReceiptTellsTheFiles
  BY DEF PromoteInv, ReceiptComesLast
<1>4. PromoteInv /\ [MaintenanceNext]_allVars
          => [helper'.pc # helper.pc =>
                /\ helper'.pc \in {"compare", "rolled-back-old"} =>
                      /\ service # None /\ service.pid = helper.new_pid
                      /\ service.loaded = LIVE
                /\ helper'.pc = "healthy-new" =>
                      service # None /\ service.loaded = LIVE]_promoteVars
  <2> DEFINE takes ==
                helper'.pc # helper.pc =>
                   /\ helper'.pc \in {"compare", "rolled-back-old"} =>
                         /\ service # None /\ service.pid = helper.new_pid
                         /\ service.loaded = LIVE
                   /\ helper'.pc = "healthy-new" =>
                         service # None /\ service.loaded = LIVE
  <2> SUFFICES ASSUME PromoteInv, Hot!Next PROVE takes
    BY Parts
  <2>1. helper \in HelperRow
    BY DEF PromoteInv
  <2>2. CASE Hot!Await \/ Hot!Compare \/ Hot!Prove
    BY <2>1, <2>2
    DEF PromoteInv, WaitsForItsOwn, HelperRow, Hot!Await, Hot!Compare, Hot!Prove,
        Hot!Goes, Hot!Serves
  <2>3. CASE \/ Hot!Check \/ Hot!StopOld \/ Hot!CopyNew \/ Hot!EditStartup
             \/ Hot!StartNew \/ Hot!Fail \/ Hot!StopNew \/ Hot!Restore \/ Hot!Restart
             \/ Hot!WriteReceipt
    <3>1. helper'.pc \notin {"compare", "rolled-back-old", "healthy-new"}
      BY <2>1, <2>3
      DEF HelperRow, Hot!Check, Hot!StopOld, Hot!CopyNew, Hot!EditStartup,
          Hot!StartNew, Hot!Fail, Hot!StopNew, Hot!Restore, Hot!Restart,
          Hot!WriteReceipt, Hot!Goes
    <3> QED
      BY <3>1
  <2>4. CASE Hot!Die \/ Hot!Logon \/ Hot!KillHelper
    BY <2>1, <2>4 DEF HelperRow, Hot!Die, Hot!Logon, Hot!KillHelper
  <2> QED
    BY <2>2, <2>3, <2>4 DEF Hot!Next, Hot!apply
<1> QED
  BY <1>1, <1>2, <1>3, <1>4, PTL
  DEF MaintenanceSpec, PromotionIsHonest, Hot!DeclaredServiceIsOurs, Hot!vars, promoteVars
=============================================================================
