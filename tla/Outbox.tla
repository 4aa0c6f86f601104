------------------------------- MODULE Outbox -------------------------------
(***************************************************************************)
(* The two ways a producer's events reach the store: a batch posted to the *)
(* service, and the JSONL outbox it falls back to, drained by the command  *)
(* line.  Producer, service and drains run in processes of their own; any  *)
(* of them may stop between two steps, and the file has no lock.           *)
(*                                                                         *)
(* A line is what it is to ingest: Named lines carry an id and a time,     *)
(* Undated ones only an id (ingest stamps them, and the stamp is part of   *)
(* the payload hash), Anonymous ones no id (ingest makes one up), Refused  *)
(* ones fail validation or conflict, Junk is no JSON at all.               *)
(***************************************************************************)
EXTENDS Naturals, SequencesExt

CONSTANTS Named, Undated, Anonymous, Refused, Junk, Drains

EventLines == Named \cup Undated \cup Anonymous \cup Refused
Lines == EventLines \cup Junk

OutboxAssumption ==
    LET kind == <<Named, Undated, Anonymous, Refused, Junk>>
    IN  \A i, j \in 1..5 : i # j => kind[i] \cap kind[j] = {}

VARIABLES
    file,               \* the outbox: a sequence of [line, wraps]
    logged,             \* line -> 0, 1, or 2 for "more than once"
    post,               \* the producer's batch: [pc, todo, batch]
    sent,               \* events the producer has posted
    written,            \* lines the producer has appended
    drain,              \* Drains -> [pc, todo, pending]
    raced               \* for the properties: the file was written to by two
                        \* at once, or a drain died rewriting it

vars == <<file, logged, post, sent, written, drain, raced>>

NoPost == [pc |-> "idle", todo |-> {}, batch |-> {}]
NoDrain == [pc |-> "idle", todo |-> <<>>, pending |-> <<>>]

Init ==
    /\ file = <<>>
    /\ logged = [l \in Lines |-> 0]
    /\ post = NoPost
    /\ sent = {}
    /\ written = {}
    /\ drain = [d \in Drains |-> NoDrain]
    /\ raced = FALSE

-----------------------------------------------------------------------------
(* What ingest does with a line of the file, or with an event of a batch.  *)

(* Slip: a known id is a conflict, whatever its payload.                   *)
Outcome_Strict(l, wraps) ==
    CASE l \in Junk                                        -> "unparsable"
      [] l \in Refused \/ (wraps > 0 /\ l \notin Junk)     -> "refused"
      [] l \in Anonymous /\ wraps = 0                      -> "new"
      [] l \in Undated \cup Named /\ wraps = 0             ->
            IF logged[l] = 0 THEN "new" ELSE "refused"

Outcome(l, wraps) ==
    CASE l \in Junk                                        -> "unparsable"
      [] l \in Refused \/ (wraps > 0 /\ l \notin Junk)     -> "refused"
      [] l \in Anonymous /\ wraps = 0                      -> "new"
      [] l \in Undated /\ wraps = 0                        ->
            IF logged[l] = 0 THEN "new" ELSE "refused"
      [] l \in Named /\ wraps = 0                          ->
            IF logged[l] = 0 THEN "new" ELSE "duplicate"

(* Slip: an id is not looked up before the event is inserted.              *)
LoggedAfter_Unchecked(l, wraps) ==
    IF Outcome(l, wraps) \in {"new", "duplicate"} /\ logged[l] < 2
      THEN [logged EXCEPT ![l] = @ + 1] ELSE logged

LoggedAfter(l, wraps) ==
    IF Outcome(l, wraps) = "new" /\ logged[l] < 2
      THEN [logged EXCEPT ![l] = @ + 1] ELSE logged

-----------------------------------------------------------------------------
(* The producer posts; _ingest_batch works the events one by one, each in  *)
(* a transaction of its own, and answers with the outcome of each.         *)

Post(batch) ==
    /\ post.pc = "idle"
    /\ batch # {}
    /\ batch \cap sent = {}
    /\ post' = [pc |-> "posted", todo |-> batch, batch |-> batch]
    /\ sent' = sent \cup batch
    /\ UNCHANGED <<file, logged, written, drain, raced>>

IngestOne(l) ==
    /\ post.pc = "posted"
    /\ l \in post.todo
    /\ logged' = LoggedAfter(l, 0)
    /\ post' = [post EXCEPT !.todo = @ \ {l}]
    /\ UNCHANGED <<file, sent, written, drain, raced>>

(* 200 or 207: the producer knows what became of every event.              *)
Answer ==
    /\ post.pc = "posted"
    /\ post.todo = {}
    /\ post' = NoPost
    /\ UNCHANGED <<file, logged, sent, written, drain, raced>>

(* The service dies, stays busy or is not there: no outcome is known.      *)
NoAnswer ==
    /\ post.pc = "posted"
    /\ post' = [post EXCEPT !.pc = "unanswered", !.todo = post.batch]
    /\ UNCHANGED <<file, logged, sent, written, drain, raced>>

Busy == \E d \in Drains : drain[d].pc # "idle"

Appended(l) ==
    /\ file' = Append(file, [line |-> l, wraps |-> 0])
    /\ written' = written \cup {l}
    /\ raced' = (raced \/ Busy)

FallBack(l) ==
    /\ post.pc = "unanswered"
    /\ l \in post.todo
    /\ Appended(l)
    /\ post' = IF post.todo = {l} THEN NoPost
               ELSE [post EXCEPT !.todo = @ \ {l}]
    /\ UNCHANGED <<logged, sent, drain>>

(* A producer that dies while it appends leaves a torn line.               *)
TornLine(l) ==
    /\ l \in Junk \ written
    /\ Appended(l)
    /\ UNCHANGED <<logged, post, sent, drain>>

-----------------------------------------------------------------------------
(* cmd_outbox_drain.                                                       *)

Read(d) ==
    /\ drain[d].pc = "idle"
    /\ file # <<>>
    /\ drain' = [drain EXCEPT ![d] = [pc |-> "draining", todo |-> file, pending |-> <<>>]]
    /\ raced' = (raced \/ Busy)
    /\ UNCHANGED <<file, logged, post, sent, written>>

(* A refused line is kept wrapped in its error, junk as it is.             *)
Kept(entry) ==
    CASE Outcome(entry.line, entry.wraps) = "unparsable" -> <<entry>>
      [] Outcome(entry.line, entry.wraps) = "refused" ->
            <<[entry EXCEPT !.wraps = IF @ < 2 THEN @ + 1 ELSE @]>>
      [] OTHER -> <<>>

(* Slip: only lines that do not parse are kept.                            *)
Drain_DroppingRefused(d) ==
    LET entry == Head(drain[d].todo)
    IN  /\ drain[d].pc = "draining"
        /\ drain[d].todo # <<>>
        /\ logged' = LoggedAfter(entry.line, entry.wraps)
        /\ drain' = [drain EXCEPT
              ![d].todo = Tail(@),
              ![d].pending = IF entry.line \in Junk THEN Append(@, entry) ELSE @]
        /\ UNCHANGED <<file, post, sent, written, raced>>

Drain(d) ==
    LET entry == Head(drain[d].todo)
    IN  /\ drain[d].pc = "draining"
        /\ drain[d].todo # <<>>
        /\ logged' = LoggedAfter(entry.line, entry.wraps)
        /\ drain' = [drain EXCEPT ![d].todo = Tail(@),
                                  ![d].pending = @ \o Kept(entry)]
        /\ UNCHANGED <<file, post, sent, written, raced>>

(* path.write_text: the file is truncated when it is opened ...            *)
Truncate(d) ==
    /\ drain[d].pc = "draining"
    /\ drain[d].todo = <<>>
    /\ file' = <<>>
    /\ drain' = [drain EXCEPT ![d].pc = "truncated"]
    /\ UNCHANGED <<logged, post, sent, written, raced>>

(* ... and the pending lines are written over whatever is there by then.   *)
WriteBack(d) ==
    /\ drain[d].pc = "truncated"
    /\ file' = IF drain[d].pending = <<>> THEN file ELSE drain[d].pending
    /\ drain' = [drain EXCEPT ![d] = NoDrain]
    /\ UNCHANGED <<logged, post, sent, written, raced>>

(* The store stays busy, or the process dies.                              *)
Abort(d) ==
    /\ drain[d].pc # "idle"
    /\ drain' = [drain EXCEPT ![d] = NoDrain]
    /\ raced' = (raced \/ drain[d].pc = "truncated")
    /\ UNCHANGED <<file, logged, post, sent, written>>

Next ==
    \/ \E batch \in SUBSET EventLines : Post(batch)
    \/ \E l \in Lines : IngestOne(l) \/ FallBack(l) \/ TornLine(l)
    \/ Answer \/ NoAnswer
    \/ \E d \in Drains :
          Read(d) \/ Drain(d) \/ Truncate(d) \/ WriteBack(d) \/ Abort(d)

Spec == Init /\ [][Next]_vars

-----------------------------------------------------------------------------
InFile(l) == \E i \in DOMAIN file : file[i].line = l
IsPending(l) == \E d \in Drains : \E e \in ToSet(drain[d].pending) : e.line = l

(* While producers and drains keep off each other, an appended line is     *)
(* logged or still in the file, or about to be put back, whatever aborts   *)
(* and is drained again.                                                   *)
NothingIsLostInTurn ==
    ~raced => \A l \in written : logged[l] > 0 \/ InFile(l) \/ IsPending(l)

(* An event with an id is logged once, though the batch it was in went     *)
(* unanswered, was appended and drained by two drains, one of them twice.  *)
NamedEventsOnce == \A l \in Named \cup Undated : logged[l] <= 1

(* A line with id and time never sticks in the outbox: applied before or   *)
(* not, the drain that meets it is done with it.                           *)
GoodLinesNeverStick ==
    \A l \in Named :
        ~IsPending(l) /\ \A i \in DOMAIN file : file[i].line = l => file[i].wraps = 0

-----------------------------------------------------------------------------
(* Promises of the repository that the code breaks: TLC finds each of      *)
(* these violated (README, Divergences).                                   *)

(* "cmo outbox drain is the durable offline path: Pi appends JSONL events  *)
(* to a local outbox ... and drains it later" (docs/cmo-v2-interface.md).  *)
OutboxIsDurable ==
    \A l \in written : logged[l] > 0 \/ InFile(l) \/ IsPending(l)

(* "leaves unparsable or conflicting lines in the file" (docs/cmo-v2-      *)
(* interface.md): a kept line keeps its text below one wrapping.           *)
BadLinesStay == \A i \in DOMAIN file : file[i].wraps <= 1

(* "ingestion is idempotent, so retries are safe"                          *)
(* (docs/cmo-v2-interface.md): no event is logged twice.                   *)
RetriesAreSafe == \A l \in Lines : logged[l] <= 1

(* "duplicate: true means the event id was already applied"                *)
(* (docs/cmo-v2-interface.md): an applied event, sent again as it was, is  *)
(* a duplicate and not a conflict.                                         *)
AppliedIdsAreDuplicates == \A l \in Undated : IsPending(l) => logged[l] = 0
=============================================================================
