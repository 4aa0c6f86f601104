------------------------------- MODULE Catalog ------------------------------
(***************************************************************************)
(* The provider catalog: who refreshes it, the table it lands in, and the  *)
(* status the snapshot derives from it.                                    *)
(*                                                                         *)
(* The worker thread, POST /api/catalog/refresh and the command line       *)
(* refresh concurrently.  Each takes its timestamp, then reads the provider*)
(* over the network for up to ten seconds, then writes one transaction; so *)
(* writes land in another order than their timestamps.  The service writes *)
(* one event per model and a final marker, the command line one event with *)
(* the whole list.                                                         *)
(***************************************************************************)
EXTENDS Integers, FiniteSets

CONSTANTS
    Models,                 \* models the provider may list
    ServiceRefreshers,      \* refresh_catalog: the thread and POST requests
    CliRefreshers,          \* cmo catalog refresh
    ListBound,              \* models that fit into one bounded summary event
    catalog_refresh_ms,     \* age up to which the catalog is fresh
    None,
    MaxTime                 \* bound: the clock stops here

Refreshers == ServiceRefreshers \cup CliRefreshers

CatalogAssumption ==
    /\ ServiceRefreshers \cap CliRefreshers = {}
    /\ {ListBound, catalog_refresh_ms} \subseteq Nat
    /\ MaxTime \in Nat \ {0}
    /\ None \notin Nat

VARIABLES
    now,                    \* the wall clock
    provider,               \* the models the provider offers
    catalog_models,         \* model -> catalog_seen_at, or None
    catalog_last_success_at,
    catalog_last_error_at,  \* metadata; None when cleared
    refresher,              \* refresher -> [pc, at, listed]
    listings                \* for the properties: the refreshes that succeeded

metadata == <<catalog_last_success_at, catalog_last_error_at>>
vars == <<now, provider, catalog_models, metadata, refresher, listings>>

Idle == [pc |-> "idle", at |-> 0, listed |-> {}]

Init ==
    /\ now = 1
    /\ provider = Models
    /\ catalog_models = [m \in Models |-> None]
    /\ catalog_last_success_at = None
    /\ catalog_last_error_at = None
    /\ refresher = [r \in Refreshers |-> Idle]
    /\ listings = {}

-----------------------------------------------------------------------------
(* The timestamp of the refresh is taken before the provider is asked.     *)
Start(r) ==
    /\ refresher[r].pc = "idle"
    /\ refresher' = [refresher EXCEPT ![r] = [Idle EXCEPT !.pc = "asking", !.at = now]]
    /\ UNCHANGED <<now, provider, catalog_models, metadata, listings>>

(* fetch_catalog returns what is offered at that moment; an empty list is  *)
(* an error, as are a timeout and an answer without known categories.      *)
Fetch(r) ==
    /\ refresher[r].pc = "asking"
    /\ provider # {}
    /\ refresher' = [refresher EXCEPT ![r].pc = "fetched", ![r].listed = provider]
    /\ UNCHANGED <<now, provider, catalog_models, metadata, listings>>

FetchFails(r) ==
    /\ refresher[r].pc = "asking"
    /\ refresher' = [refresher EXCEPT ![r].pc = "failed"]
    /\ UNCHANGED <<now, provider, catalog_models, metadata, listings>>

(* Slip: a row is overwritten by older evidence.                           *)
Upserted_Any(rows, models, seen) ==
    [m \in Models |-> IF m \in models THEN seen ELSE rows[m]]

(* INSERT ... ON CONFLICT DO UPDATE ... WHERE excluded.seen >= seen.       *)
Upserted(rows, models, seen) ==
    [m \in Models |->
        IF m \in models /\ (rows[m] = None \/ seen >= rows[m]) THEN seen ELSE rows[m]]

(* Slip: a retired row is kept with a zero timestamp.                      *)
Retired_Zeroed(rows, seen) ==
    [m \in Models |-> IF rows[m] # None /\ rows[m] < seen THEN 0 ELSE rows[m]]

(* DELETE FROM catalog_models WHERE catalog_seen_at < seen.                *)
Retired(rows, seen) ==
    [m \in Models |-> IF rows[m] # None /\ rows[m] < seen THEN None ELSE rows[m]]

Late(seen) == catalog_last_success_at # None /\ catalog_last_success_at > seen

(* The marker, or the one event of the command line, in _apply_catalog_    *)
(* refreshed: ignored when a newer refresh has succeeded.                  *)
Marker(rows, seen) ==
    IF Late(seen)
      THEN catalog_models' = rows /\ UNCHANGED metadata
      ELSE /\ catalog_models' = Retired(rows, seen)
           /\ catalog_last_success_at' = seen
           /\ catalog_last_error_at' = None

(* Slip: the models and the marker are ingested in transactions of their   *)
(* own, and the process may stop between them.                             *)
CommitBatch_Torn(r) ==
    LET seen == refresher[r].at
    IN  /\ r \in ServiceRefreshers
        /\ refresher[r].pc = "fetched"
        /\ \/ Marker(Upserted(catalog_models, refresher[r].listed, seen), seen)
           \/ /\ catalog_models' = Upserted(catalog_models, refresher[r].listed, seen)
              /\ UNCHANGED metadata
        /\ listings' = listings \cup {[at |-> seen, models |-> refresher[r].listed]}
        /\ refresher' = [refresher EXCEPT ![r] = Idle]
        /\ UNCHANGED <<now, provider>>

(* ingest_many: the per-model events, which know nothing of the last       *)
(* success, and the marker, in one transaction.                            *)
CommitBatch(r) ==
    LET seen == refresher[r].at
    IN  /\ r \in ServiceRefreshers
        /\ refresher[r].pc = "fetched"
        /\ Marker(Upserted(catalog_models, refresher[r].listed, seen), seen)
        /\ listings' = listings \cup {[at |-> seen, models |-> refresher[r].listed]}
        /\ refresher' = [refresher EXCEPT ![r] = Idle]
        /\ UNCHANGED <<now, provider>>

(* cmd_catalog_refresh: the late test comes before the rows; a list that   *)
(* does not fit the bounded summary is refused by normalize_event.         *)
CommitList(r) ==
    LET seen == refresher[r].at
    IN  /\ r \in CliRefreshers
        /\ refresher[r].pc = "fetched"
        /\ Cardinality(refresher[r].listed) <= ListBound
        /\ Marker(IF Late(seen) THEN catalog_models
                  ELSE Upserted(catalog_models, refresher[r].listed, seen), seen)
        /\ listings' = IF Late(seen) THEN listings
                       ELSE listings \cup {[at |-> seen, models |-> refresher[r].listed]}
        /\ refresher' = [refresher EXCEPT ![r] = Idle]
        /\ UNCHANGED <<now, provider>>

(* The list is refused, or the database stays busy: an error like others.  *)
CommitFails(r) ==
    /\ refresher[r].pc = "fetched"
    /\ refresher' = [refresher EXCEPT ![r].pc = "failed"]
    /\ UNCHANGED <<now, provider, catalog_models, metadata, listings>>

(* Slip: a failure empties the table.                                      *)
AfterFailure_Emptied(rows) == [m \in Models |-> None]

AfterFailure(rows) == rows

(* catalog.failed under the timestamp of the start, with no lateness test. *)
TellFailure(r) ==
    /\ refresher[r].pc = "failed"
    /\ catalog_last_error_at' = refresher[r].at
    /\ catalog_models' = AfterFailure(catalog_models)
    /\ refresher' = [refresher EXCEPT ![r] = Idle]
    /\ UNCHANGED <<now, provider, catalog_last_success_at, listings>>

(* The process dies before it writes anything.                             *)
Die(r) ==
    /\ refresher[r].pc # "idle"
    /\ refresher' = [refresher EXCEPT ![r] = Idle]
    /\ UNCHANGED <<now, provider, catalog_models, metadata, listings>>

ProviderChanges(offered) ==
    /\ provider' = offered
    /\ UNCHANGED <<now, catalog_models, metadata, refresher, listings>>

Tick ==
    /\ now < MaxTime
    /\ now' = now + 1
    /\ UNCHANGED <<provider, catalog_models, metadata, refresher, listings>>

Next ==
    \/ \E r \in Refreshers :
          \/ Start(r) \/ Fetch(r) \/ FetchFails(r)
          \/ CommitBatch(r) \/ CommitList(r) \/ CommitFails(r)
          \/ TellFailure(r) \/ Die(r)
    \/ \E offered \in SUBSET Models : ProviderChanges(offered)
    \/ Tick

Spec == Init /\ [][Next]_vars

-----------------------------------------------------------------------------
(* What build_snapshot makes of the table and the metadata.                *)
Listed == {m \in Models : catalog_models[m] # None}

catalog_seen ==
    IF Listed = {} THEN 0
    ELSE CHOOSE t \in {catalog_models[m] : m \in Listed} :
             \A m \in Listed : catalog_models[m] <= t

catalog_fresh == catalog_seen # 0 /\ now - catalog_seen <= catalog_refresh_ms

catalog_status ==
    IF catalog_last_error_at # None /\ catalog_last_error_at >= catalog_seen
      THEN "error"
    ELSE IF catalog_seen = 0 THEN "unknown"
    ELSE IF catalog_fresh THEN "fresh" ELSE "stale"

(* _catalog_gate's answer to a policy with a model that is new to it.      *)
GateRefuses(model) == catalog_seen # 0 /\ model \notin Listed

-----------------------------------------------------------------------------
TypeOK ==
    /\ now \in 1..MaxTime
    /\ provider \subseteq Models
    /\ catalog_models \in [Models -> 1..MaxTime \cup {None}]
    /\ catalog_last_success_at \in 1..MaxTime \cup {None}
    /\ catalog_last_error_at \in 1..MaxTime \cup {None}
    /\ refresher \in [Refreshers -> [pc : {"idle", "asking", "fetched", "failed"},
                                     at : 0..MaxTime, listed : SUBSET Models]]

(* The freshness readers derive from the rows is that of the last complete *)
(* refresh: no partial write, crash or late batch makes the catalog look   *)
(* newer or older than the refresh that succeeded last.                    *)
SeenIsTheLastSuccess ==
    catalog_seen = (IF catalog_last_success_at = None THEN 0
                    ELSE catalog_last_success_at)

(* A row dates from a refresh that listed its model, never from an answer  *)
(* that did not, and the newest listing is there in full.                  *)
RowsWereListed ==
    /\ \A m \in Listed : \E l \in listings : l.at = catalog_models[m] /\ m \in l.models
    /\ \A l \in listings : l.at = catalog_last_success_at =>
           \A m \in l.models : catalog_models[m] = l.at

(* "leaves last-good rows in place" (refresh_catalog): rows move only in   *)
(* the step in which a refresh that has its answer commits, whatever fails *)
(* or dies meanwhile and however late a failure is told.                   *)
OnlyListingsMoveRows ==
    [][catalog_models' # catalog_models =>
          \E r \in Refreshers : /\ refresher[r].pc = "fetched"
                               /\ refresher'[r].pc = "idle"]_vars

-----------------------------------------------------------------------------
(* Promises of the repository that the code breaks: TLC finds each of      *)
(* these violated (README, Divergences).                                   *)

(* A complete marker "retires models absent from this successful provider  *)
(* response" (refresh_catalog): the table holds what the newest successful *)
(* refresh listed.                                                         *)
OmittedModelsStayRetired ==
    \A l \in listings : l.at = catalog_last_success_at =>
        \A m \in Listed : \E k \in listings : k.at = l.at /\ m \in k.models

(* "A model absent from a *fresh* catalog raises" (_catalog_gate): a stale *)
(* catalog refuses nothing.                                                *)
OnlyAFreshCatalogRefuses ==
    \A m \in Models : GateRefuses(m) => catalog_fresh
=============================================================================
