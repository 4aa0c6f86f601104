----------------------------- MODULE Dashboard ------------------------------
(***************************************************************************)
(* How a change of the store reaches the dashboard: build_snapshot, the    *)
(* event stream and the page that fetches the one when told by the other.  *)
(*                                                                         *)
(* build_snapshot reads table after table, each read in a transaction of   *)
(* its own: the policy, routes, goals, attempts, overrides and catalog,    *)
(* then the revision, and after it the catalog's error mark, the rechecks, *)
(* the heartbeats and the events.  The stream polls the revision twice a   *)
(* second.  The page starts a load for every announced revision it does    *)
(* not show yet, for every user action and, only while it has no stream,   *)
(* every five seconds; loads overlap and their answers may cross.          *)
(***************************************************************************)
EXTENDS Integers, Sequences

CONSTANTS
    Evidence,           \* the tables an ingest moves
    ReadOrder,          \* build_snapshot's reads, in order, "revision" among them
    Loads,              \* bound: fetches of the page in flight at once
    MaxChanges,         \* bound: ingests
    MaxSaves, MaxRebuilds, MaxDrops, MaxFailures    \* bounds: faults

DashboardAssumption ==
    /\ {"policy", "revision"} \cap Evidence = {}
    /\ {ReadOrder[i] : i \in DOMAIN ReadOrder} = Evidence \cup {"policy", "revision"}
    /\ {MaxChanges, MaxSaves, MaxRebuilds, MaxDrops, MaxFailures} \subseteq Nat

Tables == Evidence \cup {"policy"}

VARIABLES
    tables,             \* table -> stamp of the change it last saw
    revision,           \* metadata.state_revision
    unaudited,          \* policy saves whose audit event is to come
    spent,              \* how often each bounded event has happened
    load,               \* Loads -> [pc, next, got, rev]
    shown,              \* the page: S.snapshot, with its revision
    error,              \* the page: S.error is set
    live,               \* the page: S.stream = "live"
    last_revision,      \* the stream handler's last_revision
    announced           \* revision messages on their way to the page

store == <<tables, revision, unaudited>>
page == <<load, shown, error>>
stream == <<live, last_revision, announced>>
vars == <<store, spent, page, stream>>

Nothing == [t \in Tables |-> 0]
NoLoad == [pc |-> "idle", next |-> 1, got |-> Nothing, rev |-> 0]

Init ==
    /\ tables = Nothing
    /\ revision = 0
    /\ unaudited = 0
    /\ spent = [changes |-> 0, saves |-> 0, rebuilds |-> 0, drops |-> 0, failures |-> 0]
    /\ load = [l \in Loads |-> NoLoad]
    /\ shown = [tables |-> Nothing, rev |-> -1]
    /\ error = FALSE
    /\ live = FALSE
    /\ last_revision = -1
    /\ announced = <<>>

-----------------------------------------------------------------------------
(* The store, as its readers see it.                                       *)

Ingest(t) ==
    /\ spent.changes < MaxChanges
    /\ spent' = [spent EXCEPT !.changes = @ + 1]
    /\ revision' = revision + 1
    /\ tables' = [tables EXCEPT ![t] = spent.changes + 1]
    /\ UNCHANGED <<unaudited, page, stream>>

(* save_policy activates the document and bumps the revision in one        *)
(* transaction; the audit event that follows bumps it again.               *)
ActivatePolicy ==
    /\ spent.saves < MaxSaves
    /\ spent' = [spent EXCEPT !.saves = @ + 1]
    /\ tables' = [tables EXCEPT !["policy"] = @ + 1]
    /\ unaudited' = unaudited + 1
    /\ revision' = revision + 1
    /\ UNCHANGED <<page, stream>>

AuditPolicy ==
    /\ unaudited > 0
    /\ unaudited' = unaudited - 1
    /\ revision' = revision + 1
    /\ UNCHANGED <<tables, spent, page, stream>>

(* rebuild: the projections are replayed in another order and the revision *)
(* becomes the number of events replayed, which an ingest may have passed  *)
(* and a quarantine lowers.                                                *)
Rebuilt ==
    /\ spent.rebuilds < MaxRebuilds
    /\ spent' = [spent EXCEPT !.rebuilds = @ + 1]
    /\ revision' \in {revision, revision - 1} \cap Nat
    /\ \E t \in Evidence :
          tables' = [tables EXCEPT ![t] = MaxChanges + spent.rebuilds + 1]
    /\ UNCHANGED <<unaudited, page, stream>>

-----------------------------------------------------------------------------
(* The page and the requests it makes.                                     *)

StartLoad(l) ==
    /\ load[l].pc = "idle"
    /\ load' = [load EXCEPT ![l] = [NoLoad EXCEPT !.pc = "reading"]]

(* A load after its next read, which may have been the last.               *)
ReadOn(l) ==
    [load[l] EXCEPT !.next = @ + 1,
                    !.pc = IF load[l].next = Len(ReadOrder) THEN "answered" ELSE @]

ReadTable(l) ==
    /\ load[l].pc = "reading"
    /\ ReadOrder[load[l].next] # "revision"
    /\ load' = [load EXCEPT ![l] =
            [ReadOn(l) EXCEPT !.got[ReadOrder[load[l].next]] =
                                  tables[ReadOrder[load[l].next]]]]
    /\ UNCHANGED <<store, spent, shown, error, stream>>

(* Slip: the snapshot names the revision the stream announced last.        *)
ReadRevision_Announced(l) ==
    /\ load[l].pc = "reading"
    /\ ReadOrder[load[l].next] = "revision"
    /\ load' = [load EXCEPT ![l] = [ReadOn(l) EXCEPT !.rev = last_revision]]
    /\ UNCHANGED <<store, spent, shown, error, stream>>

ReadRevision(l) ==
    /\ load[l].pc = "reading"
    /\ ReadOrder[load[l].next] = "revision"
    /\ load' = [load EXCEPT ![l] = [ReadOn(l) EXCEPT !.rev = revision]]
    /\ UNCHANGED <<store, spent, shown, error, stream>>

(* The answer is shown, whichever load was started last.                   *)
Receive(l) ==
    /\ load[l].pc = "answered"
    /\ shown' = [tables |-> load[l].got, rev |-> load[l].rev]
    /\ error' = FALSE
    /\ load' = [load EXCEPT ![l] = NoLoad]
    /\ UNCHANGED <<store, spent, stream>>

(* An error is shown in place of the snapshot; nothing loads it again.     *)
LoadFails(l) ==
    /\ load[l].pc # "idle"
    /\ spent.failures < MaxFailures
    /\ spent' = [spent EXCEPT !.failures = @ + 1]
    /\ error' = TRUE
    /\ load' = [load EXCEPT ![l] = NoLoad]
    /\ UNCHANGED <<store, shown, stream>>

UserLoad(l) == StartLoad(l) /\ UNCHANGED <<store, spent, shown, error, stream>>

(* Slip: the page polls only until it has shown something.                 *)
TimerLoad_Once(l) ==
    /\ ~live
    /\ shown.rev = -1
    /\ StartLoad(l)
    /\ UNCHANGED <<store, spent, shown, error, stream>>

TimerLoad(l) ==
    /\ ~live
    /\ StartLoad(l)
    /\ UNCHANGED <<store, spent, shown, error, stream>>

-----------------------------------------------------------------------------
(* The stream: a handler per connection, which starts knowing nothing.     *)

Connect ==
    /\ ~live
    /\ live' = TRUE
    /\ last_revision' = -1
    /\ UNCHANGED <<store, spent, page, announced>>

Drop ==
    /\ live
    /\ spent.drops < MaxDrops
    /\ spent' = [spent EXCEPT !.drops = @ + 1]
    /\ live' = FALSE
    /\ announced' = <<>>
    /\ UNCHANGED <<store, page, last_revision>>

(* Slip: only a higher revision is news.                                   *)
Announce_Higher ==
    /\ live
    /\ revision > last_revision
    /\ last_revision' = revision
    /\ announced' = Append(announced, revision)
    /\ UNCHANGED <<store, spent, page, live>>

Announce ==
    /\ live
    /\ revision # last_revision
    /\ last_revision' = revision
    /\ announced' = Append(announced, revision)
    /\ UNCHANGED <<store, spent, page, live>>

(* The revision listener: a known revision is not loaded again.            *)
Hear ==
    /\ announced # <<>>
    /\ announced' = Tail(announced)
    /\ IF Head(announced) # shown.rev
         THEN \E l \in Loads : StartLoad(l)
         ELSE UNCHANGED load
    /\ UNCHANGED <<store, spent, shown, error, live, last_revision>>

Next ==
    \/ \E t \in Evidence : Ingest(t)
    \/ ActivatePolicy \/ AuditPolicy \/ Rebuilt
    \/ \E l \in Loads :
          \/ ReadTable(l) \/ ReadRevision(l) \/ Receive(l) \/ LoadFails(l)
          \/ UserLoad(l) \/ TimerLoad(l)
    \/ Connect \/ Drop \/ Announce \/ Hear

(* Requests are answered, the stream handler polls, the browser delivers   *)
(* and fires its timer.  Nothing makes users act or streams connect.       *)
Fairness ==
    /\ \A l \in Loads :
          WF_vars(ReadTable(l)) /\ WF_vars(ReadRevision(l)) /\ WF_vars(Receive(l))
    /\ WF_vars(\E l \in Loads : TimerLoad(l))
    /\ WF_vars(Announce) /\ WF_vars(Hear)

Spec == Init /\ [][Next]_vars /\ Fairness

-----------------------------------------------------------------------------
(* The tables build_snapshot reads before the revision: routes, goals,     *)
(* attempts, overrides and the catalog.                                    *)
ReadBeforeRevision ==
    {t \in Evidence : \E i, j \in DOMAIN ReadOrder :
        i < j /\ ReadOrder[i] = t /\ ReadOrder[j] = "revision"}

(* Until a rebuild renumbers it, a snapshot holds no row of these tables   *)
(* newer than the revision it names, so what a later revision announces    *)
(* about them is never there already.  It may hold newer rechecks, marks   *)
(* and events (build_snapshot).                                            *)
NothingNewerThanItsRevision ==
    spent.rebuilds = 0 /\ shown.rev # -1 =>
        \A t \in ReadBeforeRevision : shown.tables[t] <= shown.rev

(* A page whose stream stays down shows the store again and again (the     *)
(* five-second timer of app.js), whatever failed or crossed before.        *)
PollingConverges ==
    <>[]~live => []<>(shown.tables = tables /\ shown.rev = revision)

(* A stream that stays up announces the revision the store comes to rest   *)
(* at, even when a rebuild made it smaller (_handle_stream).               *)
FinalRevisionIsAnnounced ==
    <>[]live => <>[](last_revision = revision)

-----------------------------------------------------------------------------
(* Promises of the repository that the code breaks: TLC finds each of      *)
(* these violated (README, Divergences).                                   *)

(* "so every surface reports the same evidence at the same revision"       *)
(* (the module comment of snapshot.py).                                    *)
SameRevisionSameEvidence ==
    [][shown.rev = shown'.rev =>
          \A t \in Evidence : shown.tables[t] = shown'.tables[t]]_vars

(* "Each state change emits event: revision ... Clients re-fetch the       *)
(* snapshot when the revision changes" (docs/cmo-v2-interface.md): a page  *)
(* with a stream comes to show the state the store rests at, or an error.  *)
StreamedPageConverges ==
    <>[]live => <>[](error \/ shown.tables = tables)
=============================================================================
