---------------------------- MODULE ServiceProofs -----------------------------
(***************************************************************************)
(* Theorems about the service's threads, for every number of them and any  *)
(* bounds: policies stay sound, what the page shows is no newer than it    *)
(* says, what the catalog and the usage panel show is what was read,       *)
(* resumes are exclusive and account terminals are known.                  *)
(*                                                                         *)
(* Each part has an inductive invariant of its own; a step of the service  *)
(* is a step of one part or leaves it alone (Parts).                       *)
(***************************************************************************)
EXTENDS MCService, PolicyProofs

(* Whichever part a step belongs to, it is one of that part or a stutter.  *)
LEMMA Parts ==
    ASSUME [ServiceNext]_allVars
    PROVE  /\ [Next]_vars
           /\ [Cat!Next]_catalogVars
           /\ [Dash!Next]_pageVars
           /\ [Usage!Next]_usageVars
           /\ [Res!Next]_resumeVars
           /\ [Setup!Next]_setupVars
BY DEF ServiceNext, UsageNext, allVars

-----------------------------------------------------------------------------
(* Policies.  Through edits, rollbacks and crashes of any number of        *)
(* editors, the version readers take is the last one saved, every version  *)
(* has an account to route to, accounts that map one profile were posted   *)
(* so, and what was saved stays (save_policy_version, _mutate_account).    *)
THEOREM PoliciesKeepTheirWord == ServiceSpec => PoliciesStaySound
<1>1. ServiceSpec => Spec
  <2>1. ServiceInit => Init
    BY DEF ServiceInit
  <2>2. [ServiceNext]_allVars => [Next]_vars
    BY Parts
  <2> QED
    BY <2>1, <2>2, PTL DEF ServiceSpec, Spec
<1> QED
  BY <1>1, PoliciesAreRoutable, SharedProfilesArePosted, VersionsAreAppended, PTL
  DEF PoliciesStaySound

-----------------------------------------------------------------------------
(* Dashboard.  Until a rebuild, no table is stamped later than the         *)
(* revision counts, and what a load has read of the routes is covered by   *)
(* the revision it reads next.                                             *)
Shown == {"policy", "routes", "rechecks"}

IsLoad(row) ==
    /\ DOMAIN row = {"pc", "next", "got", "rev"}
    /\ row.next \in 1..5 /\ (row.pc = "answered" <=> row.next = 5)
    /\ row.got \in [Shown -> Nat] /\ row.rev \in Int

PageTypes ==
    /\ tables \in [Shown -> Nat] /\ revision \in Nat
    /\ spent \in [changes : Nat, saves : Nat, rebuilds : Nat, drops : Nat,
                  failures : Nat]
    /\ DOMAIN load = Loads /\ \A l \in Loads : IsLoad(load[l])
    /\ shown \in [tables : [Shown -> Nat], rev : Int]

StampsAreCounted ==
    tables["routes"] <= spent.changes /\ spent.changes <= revision

Covered(row, rev) == row.got["routes"] <= (IF row.next > 3 THEN row.rev ELSE rev)

LoadsAreCovered == \A l \in Loads : Covered(load[l], revision)

PageInv ==
    /\ PageTypes
    /\ spent.rebuilds = 0 =>
           StampsAreCounted /\ LoadsAreCovered /\ NothingNewerThanItsRevision

(* Of the page's reads, that of the routes comes before the revision's.    *)
LEMMA RoutesComeFirst ==
    NothingNewerThanItsRevision <=>
        (spent.rebuilds = 0 /\ shown.rev # -1 => shown.tables["routes"] <= shown.rev)
<1> DEFINE order == <<"policy", "routes", "revision", "rechecks">>
<1>1. /\ DOMAIN order = 1..4
      /\ order[1] = "policy" /\ order[2] = "routes" /\ order[3] = "revision"
      /\ order[4] = "rechecks"
  OBVIOUS
<1>2. Dash!ReadBeforeRevision =
          {t \in {"routes", "rechecks"} : \E i, j \in DOMAIN order :
               i < j /\ order[i] = t /\ order[j] = "revision"}
  BY DEF Dash!ReadBeforeRevision
<1> HIDE DEF order
<1>3. \A j \in DOMAIN order : order[j] = "revision" => j = 3
  BY <1>1
<1>4. \A i \in DOMAIN order : i < 3 => order[i] # "rechecks"
  BY <1>1
<1>5. Dash!ReadBeforeRevision = {"routes"}
  BY <1>1, <1>2, <1>3, <1>4
<1> QED
  BY <1>5 DEF NothingNewerThanItsRevision, Dash!NothingNewerThanItsRevision

(* What the page does to a load.                                           *)
LEMMA LoadMoves ==
    ASSUME PageTypes, NEW l \in Loads, NEW row, IsLoad(row),
           load' = [load EXCEPT ![l] = row]
    PROVE  /\ DOMAIN load' = Loads /\ \A x \in Loads : IsLoad(load'[x])
           /\ load'[l] = row
           /\ \A x \in Loads : x # l => load'[x] = load[x]
BY DEF PageTypes

LEMMA NoLoadIsALoad ==
    LET reading == [Dash!NoLoad EXCEPT !.pc = "reading"]
    IN  /\ IsLoad(Dash!NoLoad) /\ IsLoad(reading)
        /\ Dash!NoLoad.pc = "idle" /\ reading.pc = "reading"
        /\ Dash!NoLoad.next = 1 /\ reading.next = 1
        /\ \A t \in Shown : Dash!NoLoad.got[t] = 0 /\ reading.got[t] = 0
<1> DEFINE zero == Dash!Nothing
           none == Dash!NoLoad
<1>1. zero \in [Shown -> Nat] /\ \A t \in Shown : zero[t] = 0
  BY DEF Dash!Nothing, Dash!Tables, Shown
<1>2. none = [pc |-> "idle", next |-> 1, got |-> zero, rev |-> 0]
  BY DEF Dash!NoLoad
<1> HIDE DEF zero
<1>3. IsLoad(none) /\ none.pc = "idle" /\ none.next = 1 /\ none.got = zero
  BY <1>1, <1>2 DEF IsLoad
<1> HIDE DEF none
<1>4. /\ IsLoad([none EXCEPT !.pc = "reading"])
      /\ [none EXCEPT !.pc = "reading"].pc = "reading"
      /\ [none EXCEPT !.pc = "reading"].next = 1
      /\ [none EXCEPT !.pc = "reading"].got = zero
  BY <1>3 DEF IsLoad
<1> QED
  BY <1>1, <1>3, <1>4 DEF none

(* A load starts anew, reads a table, reads the revision, or goes.         *)
Starts(l) == load' = [load EXCEPT ![l] = [Dash!NoLoad EXCEPT !.pc = "reading"]]

Reads(l) ==
    \E row : /\ IsLoad(row) /\ load' = [load EXCEPT ![l] = row]
             /\ \/ /\ load[l].next <= 2 /\ row.next <= 3
                   /\ row.got["routes"] \in {load[l].got["routes"], tables["routes"]}
                \/ /\ load[l].next > 3 /\ row.next > 3 /\ row.rev = load[l].rev
                   /\ row.got["routes"] = load[l].got["routes"]

ReadsRevision(l) ==
    \E row : /\ IsLoad(row) /\ load' = [load EXCEPT ![l] = row]
             /\ load[l].next = 3 /\ row.next > 3
             /\ row.rev = revision /\ row.got = load[l].got

Goes(l) == load' = [load EXCEPT ![l] = Dash!NoLoad]

(* A load whose next read is the n-th of the four.                         *)
LEMMA ReadsOn ==
    ASSUME PageTypes, NEW l \in Loads, load[l].pc = "reading"
    PROVE  /\ load[l].next \in 1..4
           /\ Dash!ReadOn(l) = [pc |-> IF load[l].next = 4 THEN "answered" ELSE "reading",
                                next |-> load[l].next + 1, got |-> load[l].got,
                                rev |-> load[l].rev]
<1> DEFINE h == load[l]
           len == Len(<<"policy", "routes", "revision", "rechecks">>)
<1>1. IsLoad(h)
  BY DEF PageTypes
<1>2. len = 4
  OBVIOUS
<1>3. Dash!ReadOn(l) = [h EXCEPT !.next = @ + 1,
                                 !.pc = IF h.next = len THEN "answered" ELSE @]
  BY DEF Dash!ReadOn
<1> HIDE DEF h, len
<1>4. h.pc = "reading"
  BY DEF h
<1>5. h.next \in 1..4
  BY <1>1, <1>4 DEF IsLoad
<1> DEFINE on == [h EXCEPT !.next = @ + 1, !.pc = IF h.next = len THEN "answered" ELSE @]
           pc == IF h.next = 4 THEN "answered" ELSE "reading"
           plain == [pc |-> pc, next |-> h.next + 1, got |-> h.got, rev |-> h.rev]
<1>6. on = plain
  <2>1. /\ DOMAIN on = {"pc", "next", "got", "rev"} /\ on = [x \in DOMAIN on |-> on[x]]
        /\ on.pc = pc /\ on.next = h.next + 1 /\ on.got = h.got /\ on.rev = h.rev
    BY <1>1, <1>2, <1>4 DEF IsLoad
  <2>2. /\ DOMAIN plain = {"pc", "next", "got", "rev"}
        /\ plain = [x \in DOMAIN plain |-> plain[x]]
        /\ plain.pc = pc /\ plain.next = h.next + 1 /\ plain.got = h.got /\ plain.rev = h.rev
    OBVIOUS
  <2> HIDE DEF on, plain, pc
  <2>3. \A x \in {"pc", "next", "got", "rev"} : on[x] = plain[x]
    BY <2>1, <2>2
  <2> QED
    BY <2>1, <2>2, <2>3, Zenon
<1>7. Dash!ReadOn(l) = [pc |-> IF h.next = 4 THEN "answered" ELSE "reading",
                        next |-> h.next + 1, got |-> h.got, rev |-> h.rev]
  BY <1>3, <1>6, Zenon
<1> QED
  BY <1>5, <1>7 DEF h

LEMMA ReadTableReads ==
    ASSUME PageTypes, NEW l \in Loads, Dash!ReadTable(l)
    PROVE  Reads(l)
<1> DEFINE h == load[l]
           order == <<"policy", "routes", "revision", "rechecks">>
           t == order[h.next]
           on == Dash!ReadOn(l)
           row == [on EXCEPT !.got[t] = tables[t]]
<1>1. IsLoad(h) /\ tables \in [Shown -> Nat] /\ h.pc = "reading"
  BY DEF PageTypes, Dash!ReadTable
<1>2. /\ h.next \in 1..4
      /\ on = [pc |-> IF h.next = 4 THEN "answered" ELSE "reading",
               next |-> h.next + 1, got |-> h.got, rev |-> h.rev]
  BY <1>1, ReadsOn
<1>3. t # "revision" /\ load' = [load EXCEPT ![l] = row]
  BY DEF Dash!ReadTable
<1> HIDE DEF h, on
<1>4. \/ h.next \in {1, 2} /\ t \in {"policy", "routes"}
      \/ h.next = 4 /\ t = "rechecks"
  BY <1>2, <1>3
<1> HIDE DEF t
<1>5. /\ DOMAIN row = {"pc", "next", "got", "rev"}
      /\ row.pc = (IF h.next = 4 THEN "answered" ELSE "reading")
      /\ row.next = h.next + 1 /\ row.rev = h.rev
      /\ row.got = [h.got EXCEPT ![t] = tables[t]]
  BY <1>2
<1> HIDE DEF row
<1>6. h.got \in [Shown -> Nat] /\ h.rev \in Int /\ t \in Shown
      /\ h.next \in 1..4
  BY <1>1, <1>2, <1>4 DEF IsLoad, Shown
<1>7. row.got \in [Shown -> Nat]
      /\ row.got["routes"] = IF t = "routes" THEN tables["routes"] ELSE h.got["routes"]
  BY <1>1, <1>5, <1>6 DEF Shown
<1>8. IsLoad(row)
  BY <1>5, <1>6, <1>7 DEF IsLoad
<1>9. \/ h.next <= 2 /\ row.next <= 3
      \/ h.next > 3 /\ row.next > 3 /\ t # "routes"
  BY <1>4, <1>5
<1> QED
  BY <1>3, <1>5, <1>7, <1>8, <1>9 DEF Reads, h

LEMMA ReadRevisionReads ==
    ASSUME PageTypes, NEW l \in Loads, Dash!ReadRevision(l)
    PROVE  ReadsRevision(l)
<1> DEFINE h == load[l]
           order == <<"policy", "routes", "revision", "rechecks">>
           on == Dash!ReadOn(l)
           row == [on EXCEPT !.rev = revision]
<1>1. IsLoad(h) /\ revision \in Nat /\ h.pc = "reading"
  BY DEF PageTypes, Dash!ReadRevision
<1>2. /\ h.next \in 1..4
      /\ on = [pc |-> IF h.next = 4 THEN "answered" ELSE "reading",
               next |-> h.next + 1, got |-> h.got, rev |-> h.rev]
  BY <1>1, ReadsOn
<1>3. order[h.next] = "revision" /\ load' = [load EXCEPT ![l] = row]
  BY DEF Dash!ReadRevision
<1> HIDE DEF h, on
<1>4. h.next = 3
  BY <1>2, <1>3
<1>5. row = [pc |-> "reading", next |-> 4, got |-> h.got, rev |-> revision]
  BY <1>2, <1>4
<1> HIDE DEF row
<1>6. IsLoad(row) /\ row.next > 3 /\ row.rev = revision /\ row.got = h.got
  BY <1>1, <1>5 DEF IsLoad
<1>7. h = load[l]
  BY DEF h
<1> QED
  BY <1>3, <1>4, <1>6, <1>7 DEF ReadsRevision

(* The steps of the page's subject: the store changes and the page does    *)
(* not, or the other way round, or neither.                                *)
LEMMA PageSteps ==
    ASSUME PageTypes, [Dash!Next]_pageVars
    PROVE  \/ \E t \in {"routes", "rechecks"} : Dash!Ingest(t)
           \/ Dash!ActivatePolicy \/ Dash!AuditPolicy \/ Dash!Rebuilt
           \/ /\ UNCHANGED <<tables, revision>>
              /\ spent' = [spent EXCEPT !.drops = @ + 1] \/ UNCHANGED spent
              /\ UNCHANGED shown
              /\ UNCHANGED load
                 \/ \E l \in Loads : Starts(l) \/ Reads(l) \/ ReadsRevision(l)
           \/ /\ UNCHANGED <<tables, revision, spent>>
              /\ \E l \in Loads : Dash!Receive(l)
           \/ /\ UNCHANGED <<tables, revision, shown>>
              /\ spent' = [spent EXCEPT !.failures = @ + 1]
              /\ \E l \in Loads : Goes(l)
<1> USE DEF Dash!store, Dash!page, Dash!stream
<1>1. CASE UNCHANGED pageVars
  BY <1>1 DEF pageVars
<1>2. ASSUME NEW l \in Loads, Dash!ReadTable(l) \/ Dash!ReadRevision(l)
      PROVE  /\ UNCHANGED <<tables, revision, spent, shown>>
             /\ Reads(l) \/ ReadsRevision(l)
  BY <1>2, ReadTableReads, ReadRevisionReads DEF Dash!ReadTable, Dash!ReadRevision
<1>3. ASSUME NEW l \in Loads, Dash!UserLoad(l) \/ Dash!TimerLoad(l)
      PROVE  UNCHANGED <<tables, revision, spent, shown>> /\ Starts(l)
  BY <1>3 DEF Dash!UserLoad, Dash!TimerLoad, Dash!StartLoad, Starts
<1>4. ASSUME NEW l \in Loads, Dash!Receive(l)
      PROVE  UNCHANGED <<tables, revision, spent>>
  BY <1>4 DEF Dash!Receive
<1>5. ASSUME NEW l \in Loads, Dash!LoadFails(l)
      PROVE  /\ UNCHANGED <<tables, revision, shown>> /\ Goes(l)
             /\ spent' = [spent EXCEPT !.failures = @ + 1]
  BY <1>5 DEF Dash!LoadFails, Goes
<1>6. CASE Dash!Connect \/ Dash!Announce
  BY <1>6 DEF Dash!Connect, Dash!Announce
<1>7. CASE Dash!Drop
  BY <1>7 DEF Dash!Drop
<1>8. CASE Dash!Hear
  BY <1>8 DEF Dash!Hear, Dash!StartLoad, Starts
<1> QED
  BY <1>1, <1>2, <1>3, <1>4, <1>5, <1>6, <1>7, <1>8 DEF Dash!Next

LEMMA PageTypesNext ==
    ASSUME PageTypes, [Dash!Next]_pageVars
    PROVE  PageTypes'
<1>1. ASSUME NEW t \in {"routes", "rechecks"}, Dash!Ingest(t)
      PROVE  PageTypes'
  BY <1>1 DEF Dash!Ingest, Dash!page, PageTypes, Shown
<1>2. CASE Dash!ActivatePolicy \/ Dash!AuditPolicy
  BY <1>2 DEF Dash!ActivatePolicy, Dash!AuditPolicy, Dash!page, PageTypes, Shown
<1>3. CASE Dash!Rebuilt
  BY <1>3, ServiceAssumption
  DEF Dash!Rebuilt, Dash!DashboardAssumption, Dash!page, PageTypes, Shown
<1>4. ASSUME NEW l \in Loads, Starts(l) \/ Reads(l) \/ ReadsRevision(l) \/ Goes(l)
      PROVE  DOMAIN load' = Loads /\ \A x \in Loads : IsLoad(load'[x])
  BY <1>4, LoadMoves, NoLoadIsALoad DEF Starts, Reads, ReadsRevision, Goes
<1>5. ASSUME NEW l \in Loads, Dash!Receive(l)
      PROVE  /\ shown' \in [tables : [Shown -> Nat], rev : Int]
             /\ Goes(l)
  BY <1>5 DEF Dash!Receive, PageTypes, IsLoad, Goes
<1>6. ASSUME spent' = [spent EXCEPT !.drops = @ + 1]
             \/ spent' = [spent EXCEPT !.failures = @ + 1] \/ UNCHANGED spent
      PROVE  spent' \in [changes : Nat, saves : Nat, rebuilds : Nat, drops : Nat,
                         failures : Nat]
  BY <1>6 DEF PageTypes
<1> QED
  BY <1>1, <1>2, <1>3, <1>4, <1>5, <1>6, PageSteps DEF PageTypes

(* Without a rebuild a load goes on to cover what it reads.                *)
LEMMA LoadsStayCovered ==
    ASSUME PageTypes, StampsAreCounted, LoadsAreCovered,
           tables' = tables, revision' = revision,
           \/ UNCHANGED load
           \/ \E l \in Loads : Starts(l) \/ Reads(l) \/ ReadsRevision(l) \/ Goes(l)
    PROVE  LoadsAreCovered'
<1>1. CASE UNCHANGED load
  BY <1>1 DEF LoadsAreCovered
<1>2. ASSUME NEW l \in Loads, NEW row, IsLoad(row), load' = [load EXCEPT ![l] = row],
             Covered(row, revision)
      PROVE  LoadsAreCovered'
  <2>1. load'[l] = row /\ \A x \in Loads : x # l => load'[x] = load[x]
    BY <1>2, LoadMoves
  <2> QED
    BY <1>2, <2>1 DEF LoadsAreCovered
<1>3. revision \in Nat /\ tables["routes"] \in Nat /\ tables["routes"] <= revision
  BY DEF Shown, PageTypes, StampsAreCounted
<1>4. ASSUME NEW l \in Loads, Starts(l) \/ Goes(l)
      PROVE  LoadsAreCovered'
  <2>1. PICK row : /\ IsLoad(row) /\ load' = [load EXCEPT ![l] = row]
                   /\ row.next = 1 /\ \A t \in Shown : row.got[t] = 0
    BY <1>4, NoLoadIsALoad DEF Starts, Goes
  <2>2. Covered(row, revision)
    BY <1>3, <2>1 DEF Covered, Shown
  <2> QED
    BY <1>2, <2>1, <2>2
<1>5. ASSUME NEW l \in Loads, Reads(l)
      PROVE  LoadsAreCovered'
  <2>1. PICK row :
            /\ IsLoad(row) /\ load' = [load EXCEPT ![l] = row]
            /\ \/ /\ load[l].next <= 2 /\ row.next <= 3
                  /\ row.got["routes"] \in {load[l].got["routes"], tables["routes"]}
               \/ /\ load[l].next > 3 /\ row.next > 3 /\ row.rev = load[l].rev
                  /\ row.got["routes"] = load[l].got["routes"]
    BY <1>5 DEF Reads
  <2>2. IsLoad(load[l]) /\ Covered(load[l], revision)
    BY DEF PageTypes, LoadsAreCovered
  <2>3. Covered(row, revision)
    BY <1>3, <2>1, <2>2 DEF Covered, IsLoad
  <2> QED
    BY <1>2, <2>1, <2>3
<1>6. ASSUME NEW l \in Loads, ReadsRevision(l)
      PROVE  LoadsAreCovered'
  <2>1. PICK row : /\ IsLoad(row) /\ load' = [load EXCEPT ![l] = row]
                   /\ load[l].next = 3 /\ row.next > 3
                   /\ row.rev = revision /\ row.got = load[l].got
    BY <1>6 DEF ReadsRevision
  <2>2. Covered(load[l], revision)
    BY DEF LoadsAreCovered
  <2>3. Covered(row, revision)
    BY <2>1, <2>2 DEF Covered
  <2> QED
    BY <1>2, <2>1, <2>3
<1> QED
  BY <1>1, <1>4, <1>5, <1>6

LEMMA PageInvNext ==
    ASSUME PageInv, [Dash!Next]_pageVars
    PROVE  PageInv'
<1>1. PageTypes /\ PageTypes'
  BY PageTypesNext DEF PageInv
<1> USE DEF Dash!page
<1> DEFINE Sound == StampsAreCounted /\ LoadsAreCovered /\ NothingNewerThanItsRevision
           Fresh == spent.rebuilds = 0 /\ shown.rev # -1 =>
                        shown.tables["routes"] <= shown.rev
<1>2. /\ revision \in Nat /\ spent.changes \in Nat /\ spent.rebuilds \in Nat
      /\ tables["routes"] \in Nat
      /\ \A l \in Loads : load[l].got["routes"] \in Nat /\ load[l].rev \in Int
  BY <1>1 DEF PageTypes, IsLoad, Shown
<1>3. (NothingNewerThanItsRevision <=> Fresh) /\ (NothingNewerThanItsRevision <=> Fresh)'
  BY RoutesComeFirst, PTL
<1> SUFFICES ASSUME spent'.rebuilds = 0
             PROVE  Sound'
  BY <1>1 DEF PageInv
<1>4. ASSUME \/ \E t \in {"routes", "rechecks"} : Dash!Ingest(t)
             \/ Dash!ActivatePolicy \/ Dash!AuditPolicy
      PROVE  Sound'
  <2>1. /\ revision' = revision + 1 /\ load' = load /\ shown' = shown
        /\ spent'.rebuilds = spent.rebuilds
        /\ \/ tables'["routes"] = tables["routes"] /\ spent'.changes = spent.changes
           \/ /\ spent'.changes = spent.changes + 1
              /\ tables'["routes"] \in {tables["routes"], spent.changes + 1}
    BY <1>1, <1>4 DEF Dash!Ingest, Dash!ActivatePolicy, Dash!AuditPolicy, PageTypes, Shown
  <2>2. Sound
    BY <2>1 DEF PageInv
  <2>3. StampsAreCounted'
    BY <1>2, <2>1, <2>2 DEF StampsAreCounted
  <2>4. LoadsAreCovered'
    BY <1>2, <2>1, <2>2 DEF LoadsAreCovered, Covered
  <2> QED
    BY <1>3, <2>1, <2>2, <2>3, <2>4
<1>5. CASE Dash!Rebuilt
  <2>1. spent'.rebuilds = spent.rebuilds + 1
    BY <1>1, <1>5 DEF Dash!Rebuilt, PageTypes
  <2> QED
    BY <1>2, <2>1
<1>6. ASSUME UNCHANGED <<tables, revision>>,
             \/ spent' = [spent EXCEPT !.drops = @ + 1]
             \/ spent' = [spent EXCEPT !.failures = @ + 1]
             \/ UNCHANGED spent
      PROVE  Sound /\ StampsAreCounted' /\ spent'.rebuilds = spent.rebuilds
  <2>1. spent'.rebuilds = spent.rebuilds /\ spent'.changes = spent.changes
    BY <1>1, <1>6 DEF PageTypes
  <2>2. Sound
    BY <2>1 DEF PageInv
  <2> QED
    BY <1>6, <2>1, <2>2 DEF StampsAreCounted
<1>7. ASSUME UNCHANGED <<tables, revision, spent>>, NEW l \in Loads, Dash!Receive(l)
      PROVE  Sound'
  <2>1. Goes(l) /\ load[l].pc = "answered"
        /\ shown' = [tables |-> load[l].got, rev |-> load[l].rev]
    BY <1>7 DEF Dash!Receive, Goes
  <2>2. Sound /\ StampsAreCounted'
    BY <1>6, <1>7
  <2>3. LoadsAreCovered'
    BY <1>1, <1>7, <2>1, <2>2, LoadsStayCovered
  <2>4. load[l].next = 5 /\ load[l].got["routes"] <= load[l].rev
    BY <1>1, <2>1, <2>2 DEF LoadsAreCovered, Covered, PageTypes, IsLoad
  <2>5. Fresh'
    BY <2>1, <2>4
  <2> QED
    BY <1>3, <2>2, <2>3, <2>5
<1>8. ASSUME UNCHANGED <<tables, revision, shown>>,
             \/ spent' = [spent EXCEPT !.drops = @ + 1]
             \/ spent' = [spent EXCEPT !.failures = @ + 1]
             \/ UNCHANGED spent,
             \/ UNCHANGED load
             \/ \E l \in Loads : Starts(l) \/ Reads(l) \/ ReadsRevision(l) \/ Goes(l)
      PROVE  Sound'
  <2>1. Sound /\ StampsAreCounted' /\ spent'.rebuilds = spent.rebuilds
    BY <1>6, <1>8
  <2>2. LoadsAreCovered'
    BY <1>1, <1>8, <2>1, LoadsStayCovered
  <2> QED
    BY <1>3, <1>8, <2>1, <2>2
<1> HIDE DEF Sound
<1> QED
  BY <1>1, <1>4, <1>5, <1>7, <1>8, PageSteps

(* Until a rebuild renumbers it, the page never shows a route row newer    *)
(* than the revision it names, however many loads overlap and cross and    *)
(* however often they fail (build_snapshot reads the routes and then the   *)
(* revision).                                                              *)
THEOREM PagesAreNoNewer == ServiceSpec => []NothingNewerThanItsRevision
<1>1. ServiceInit => PageInv
  <2> SUFFICES ASSUME ServiceInit PROVE PageInv
    OBVIOUS
  <2>1. Dash!Init
    BY DEF ServiceInit
  <2>2. Dash!Nothing \in [Shown -> Nat] /\ \A t \in Shown : Dash!Nothing[t] = 0
    BY DEF Dash!Nothing, Dash!Tables, Shown
  <2>3. /\ tables = Dash!Nothing /\ revision = 0
        /\ spent = [changes |-> 0, saves |-> 0, rebuilds |-> 0, drops |-> 0, failures |-> 0]
        /\ shown = [tables |-> Dash!Nothing, rev |-> -1]
        /\ load = [l \in Loads |-> Dash!NoLoad]
    BY <2>1 DEF Dash!Init
  <2>4. PageTypes
    BY <2>2, <2>3, NoLoadIsALoad DEF PageTypes
  <2>5. StampsAreCounted /\ LoadsAreCovered
    BY <2>2, <2>3, NoLoadIsALoad DEF StampsAreCounted, LoadsAreCovered, Covered, Shown
  <2> QED
    BY <2>3, <2>4, <2>5, RoutesComeFirst DEF PageInv
<1>2. PageInv /\ [ServiceNext]_allVars => PageInv'
  BY Parts, PageInvNext
<1>3. PageInv => NothingNewerThanItsRevision
  BY RoutesComeFirst DEF PageInv
<1> QED
  BY <1>1, <1>2, <1>3, PTL DEF ServiceSpec

-----------------------------------------------------------------------------
(* AccountUsage.  What is kept or about to be shows no plan but that of    *)
(* its label's login, and how old it is follows from when it was asked for.*)
UsageTypes ==
    /\ usage_now \in Nat /\ label \in Emails
    /\ DOMAIN saved = {"login", "state"} /\ saved.login \in Emails
    /\ DOMAIN usage_cache = Emails
    /\ DOMAIN usage_request = Threads
    /\ \A h \in Threads :
           /\ DOMAIN usage_request[h] = {"pc", "label", "renew", "since", "token", "result"}
           /\ usage_request[h].since \in Nat

(* A request never runs longer than a check takes.                         *)
ChecksAreShort ==
    \A h \in Threads : usage_request[h].pc # "idle" =>
        /\ usage_request[h].label \in Emails
        /\ usage_request[h].since <= usage_now
        /\ usage_now <= usage_request[h].since + LongestCheck

ResultsAreHonest ==
    \A h \in Threads :
        LET q == usage_request[h]
        IN  /\ q.pc \in {"plan", "limits"} => q.token = q.label
            /\ q.pc = "storing" => /\ q.result.shows \in {None, q.label}
                                   /\ q.result.readAt \in q.since..usage_now

KeptIsHonest ==
    \A e \in Emails : usage_cache[e] # None =>
        LET c == usage_cache[e]
        IN  /\ c.at \in 0..usage_now
            /\ c.result.shows \in {None, e}
            /\ c.result.readAt \in Nat /\ c.result.readAt <= c.at
            /\ c.at <= c.result.readAt + LongestCheck

UsageInv ==
    /\ UsageTypes /\ ChecksAreShort /\ ResultsAreHonest /\ KeptIsHonest
    /\ AnswersAreCurrent

(* What a request becomes, and what that does to the invariant.            *)
LEMMA RequestMoves ==
    ASSUME UsageTypes, NEW h \in Threads, NEW row,
           usage_request' = [usage_request EXCEPT ![h] = row]
    PROVE  /\ DOMAIN usage_request' = Threads /\ usage_request'[h] = row
           /\ \A x \in Threads : x # h => usage_request'[x] = usage_request[x]
BY DEF UsageTypes

IsRequest(row) ==
    /\ DOMAIN row = {"pc", "label", "renew", "since", "token", "result"}
    /\ row.since \in Nat
    /\ row.pc # "idle" => /\ row.label \in Emails /\ row.since <= usage_now
                          /\ usage_now <= row.since + LongestCheck
    /\ row.pc \in {"plan", "limits"} => row.token = row.label
    /\ row.pc = "storing" => /\ row.result.shows \in {None, row.label}
                             /\ row.result.readAt \in row.since..usage_now

LEMMA RequestsStay ==
    ASSUME UsageInv, NEW h \in Threads, NEW row, IsRequest(row),
           usage_request' = [usage_request EXCEPT ![h] = row],
           usage_now' = usage_now, label' = label, UNCHANGED usage_cache, UNCHANGED answer,
           DOMAIN saved' = {"login", "state"}, saved'.login \in Emails
    PROVE  UsageInv'
<1>1. DOMAIN usage_request' = Threads /\ usage_request'[h] = row
      /\ \A x \in Threads : x # h => usage_request'[x] = usage_request[x]
  BY RequestMoves DEF UsageInv
<1>2. UsageTypes'
  BY <1>1 DEF UsageInv, UsageTypes, IsRequest
<1>3. ChecksAreShort'
  BY <1>1 DEF UsageInv, ChecksAreShort, IsRequest
<1>4. ResultsAreHonest'
  BY <1>1 DEF UsageInv, ResultsAreHonest, IsRequest
<1>5. KeptIsHonest'
  BY DEF UsageInv, KeptIsHonest
<1>6. AnswersAreCurrent'
  BY DEF UsageInv, AnswersAreCurrent, Usage!NeverSomeoneElsesPlan,
         Usage!RefreshReadsAnew, Usage!AnswersAreRecent
<1> QED
  BY <1>2, <1>3, <1>4, <1>5, <1>6 DEF UsageInv

(* A row that a step leaves is one the invariant allows.                   *)
LEMMA RequestsAre ==
    ASSUME UsageInv, NEW h \in Threads
    PROVE  IsRequest(usage_request[h])
BY DEF UsageInv, UsageTypes, ChecksAreShort, ResultsAreHonest, IsRequest

LEMMA IdleIsARequest == IsRequest(Usage!Idle) /\ Usage!Idle.pc = "idle"
BY DEF IsRequest, Usage!Idle

(* A request goes on to the next step, with what it has.                   *)
LEMMA GoesOn ==
    ASSUME UsageInv, NEW h \in Threads, usage_request[h].pc # "idle",
           NEW pc, pc \in {"reading", "limits"},
           pc = "limits" => usage_request[h].pc \in {"plan", "limits"}
    PROVE  IsRequest([usage_request[h] EXCEPT !.pc = pc])
<1> DEFINE q == usage_request[h]
<1>1. IsRequest(q) /\ q.pc # "idle"
  BY RequestsAre
<1> HIDE DEF q
<1>2. DOMAIN q = {"pc", "label", "renew", "since", "token", "result"}
  BY <1>1 DEF IsRequest
<1> DEFINE row == [q EXCEPT !.pc = pc]
<1>3. /\ DOMAIN row = DOMAIN q /\ row.pc = pc /\ row.label = q.label
      /\ row.since = q.since /\ row.token = q.token /\ row.result = q.result
  BY <1>2
<1> HIDE DEF row
<1>4. pc = "limits" => q.token = q.label
  BY <1>1 DEF IsRequest, q
<1>5. IsRequest(row)
  BY <1>1, <1>2, <1>3, <1>4 DEF IsRequest
<1> QED
  BY <1>5 DEF q, row

(* It has a result, which shows no plan or that of the label's login.      *)
LEMMA Finishes ==
    ASSUME UsageInv, NEW h \in Threads, usage_request[h].pc # "idle",
           NEW shows \in {None, usage_request[h].label},
           Usage!Finish(h, shows)
    PROVE  \E row : IsRequest(row) /\ usage_request' = [usage_request EXCEPT ![h] = row]
<1> DEFINE q == usage_request[h]
           result == [shows |-> shows, readAt |-> usage_now]
           row == [q EXCEPT !.pc = "storing", !.result = result]
<1>1. IsRequest(q) /\ q.pc # "idle" /\ DOMAIN usage_request = Threads
      /\ usage_now \in Nat
  BY RequestsAre DEF UsageInv, UsageTypes
<1>2. usage_request' = [usage_request EXCEPT ![h] = row]
  BY <1>1 DEF Usage!Finish
<1>3. result.shows = shows /\ result.readAt = usage_now /\ shows \in {None, q.label}
  OBVIOUS
<1> HIDE DEF q, result
<1>4. DOMAIN q = {"pc", "label", "renew", "since", "token", "result"}
  BY <1>1 DEF IsRequest
<1>5. /\ DOMAIN row = DOMAIN q /\ row.pc = "storing" /\ row.label = q.label
      /\ row.since = q.since /\ row.token = q.token /\ row.result = result
  BY <1>4
<1> HIDE DEF row
<1>6. IsRequest(row)
  BY <1>1, <1>3, <1>4, <1>5 DEF IsRequest
<1> QED
  BY <1>2, <1>6

LEMMA UsageInvNext ==
    ASSUME UsageInv, [Usage!Next]_usageVars
    PROVE  UsageInv'
<1> DEFINE Unmoved == /\ usage_now' = usage_now /\ label' = label
                      /\ UNCHANGED usage_cache /\ UNCHANGED answer
           Moves(h) == \E row : /\ IsRequest(row)
                                /\ usage_request' = [usage_request EXCEPT ![h] = row]
<1>1. CASE UNCHANGED usageVars
  BY <1>1 DEF usageVars, UsageInv, UsageTypes, ChecksAreShort, ResultsAreHonest,
              KeptIsHonest, AnswersAreCurrent, Usage!NeverSomeoneElsesPlan,
              Usage!RefreshReadsAnew, Usage!AnswersAreRecent
<1>2. UsageTypes /\ KeepFor \in Nat \ {0} /\ LongestCheck \in Nat /\ None \notin Emails
  BY ServiceAssumption DEF UsageInv, Usage!UsageAssumption
<1>3. saved' = saved => DOMAIN saved' = {"login", "state"} /\ saved'.login \in Emails
  BY <1>2 DEF UsageTypes
<1>4. ASSUME NEW h \in Threads, Unmoved, Moves(h), saved' = saved
      PROVE  UsageInv'
  BY <1>3, <1>4, RequestsStay
<1>5. ASSUME NEW h \in Threads, NEW pc, pc \in {"reading", "limits"},
             usage_request' = [usage_request EXCEPT ![h].pc = pc],
             usage_request[h].pc # "idle",
             pc = "limits" => usage_request[h].pc \in {"plan", "limits"}
      PROVE  Moves(h)
  <2>1. usage_request' = [usage_request EXCEPT ![h] = [usage_request[h] EXCEPT !.pc = pc]]
    BY <1>2, <1>5 DEF UsageTypes
  <2> QED
    BY <1>5, <2>1, GoesOn
<1>6. ASSUME NEW h \in Threads, NEW renew \in BOOLEAN, Usage!Begin(h, renew)
      PROVE  UsageInv'
  <2>1. CASE Usage!Cached(label, renew)
    <3> DEFINE c == usage_cache[label]
               shownAnswer == [label |-> label, shows |-> c.result.shows,
                               age |-> usage_now - c.result.readAt,
                               stale |-> renew /\ c.result.readAt < usage_now]
    <3>1. /\ answer' = shownAnswer
          /\ UNCHANGED <<usage_now, label, saved, usage_cache, usage_request>>
      BY <1>6, <2>1 DEF Usage!Begin, Usage!AnswerWith
    <3>2. ~renew /\ c # None /\ usage_now - c.at < KeepFor
      BY <2>1 DEF Usage!Cached
    <3>3. /\ c.at \in 0..usage_now /\ c.result.shows \in {None, label}
          /\ c.result.readAt \in Nat /\ c.at <= c.result.readAt + LongestCheck
      BY <1>2, <3>2 DEF UsageInv, UsageTypes, KeptIsHonest
    <3> HIDE DEF c
    <3>4. /\ shownAnswer.shows # None => shownAnswer.shows = shownAnswer.label
          /\ shownAnswer.age < KeepFor + LongestCheck
      BY <1>2, <3>2, <3>3 DEF UsageTypes
    <3>5. ~shownAnswer.stale
      BY <3>2
    <3> HIDE DEF shownAnswer
    <3>6. AnswersAreCurrent'
      BY <3>1, <3>4, <3>5 DEF AnswersAreCurrent, Usage!NeverSomeoneElsesPlan,
                              Usage!RefreshReadsAnew, Usage!AnswersAreRecent
    <3> QED
      BY <3>1, <3>6 DEF UsageInv, UsageTypes, ChecksAreShort, ResultsAreHonest, KeptIsHonest
  <2>2. CASE ~Usage!Cached(label, renew)
    <3> DEFINE row == [Usage!Idle EXCEPT !.pc = IF renew THEN "renewing" ELSE "reading",
                                        !.label = label, !.renew = renew,
                                        !.since = usage_now]
    <3>1. IsRequest(row)
      BY <1>2 DEF Usage!Idle, IsRequest, UsageTypes
    <3>2. /\ usage_request' = [usage_request EXCEPT ![h] = row]
          /\ Unmoved /\ saved' = saved
      BY <1>6, <2>2 DEF Usage!Begin
    <3> HIDE DEF row
    <3> QED
      BY <1>4, <3>1, <3>2
  <2> QED
    BY <2>1, <2>2
<1>7. ASSUME NEW h \in Threads, Usage!Renew(h)
      PROVE  UsageInv'
  <2>1. usage_request[h].pc = "renewing" /\ Unmoved
    BY <1>7 DEF Usage!Renew
  <2>2. Usage!Goto(h, "reading") \/ Usage!Finish(h, None)
    BY <1>7 DEF Usage!Renew
  <2>3. Moves(h)
    BY <1>5, <2>1, <2>2, Finishes DEF Usage!Goto
  <2>4. DOMAIN saved' = {"login", "state"} /\ saved'.login \in Emails
    BY <1>2, <1>7 DEF Usage!Renew, UsageTypes
  <2> QED
    BY <2>1, <2>3, <2>4, RequestsStay
<1>8. ASSUME NEW h \in Threads, Usage!ReadAuth(h)
      PROVE  UsageInv'
  <2>1. usage_request[h].pc = "reading" /\ Unmoved /\ saved' = saved
    BY <1>8 DEF Usage!ReadAuth
  <2>2. Moves(h)
    <3>1. CASE saved.state = "current"
      <4> DEFINE q == usage_request[h]
                 row == [q EXCEPT !.pc = "user", !.token = saved.login]
      <4>1. usage_request' = [usage_request EXCEPT ![h] = row]
        BY <1>2, <1>8, <3>1 DEF Usage!ReadAuth, UsageTypes
      <4>2. IsRequest(q) /\ q.pc # "idle"
        BY <2>1, RequestsAre
      <4> HIDE DEF q
      <4>3. /\ DOMAIN row = DOMAIN q /\ row.pc = "user" /\ row.label = q.label
            /\ row.since = q.since
        BY <4>2 DEF IsRequest
      <4> HIDE DEF row
      <4>4. IsRequest(row)
        BY <4>2, <4>3 DEF IsRequest
      <4> QED
        BY <4>1, <4>4
    <3>2. CASE saved.state # "current"
      BY <1>8, <2>1, <3>2, Finishes DEF Usage!ReadAuth
    <3> QED
      BY <3>1, <3>2
  <2> QED
    BY <1>4, <2>1, <2>2
<1>9. ASSUME NEW h \in Threads, Usage!ProviderRefuses(h)
      PROVE  UsageInv'
  BY <1>4, <1>9, Finishes DEF Usage!ProviderRefuses
<1>10. ASSUME NEW h \in Threads, Usage!FetchUser(h)
       PROVE  UsageInv'
  <2>1. usage_request[h].pc = "user" /\ Unmoved /\ saved' = saved
    BY <1>10 DEF Usage!FetchUser
  <2> DEFINE q == usage_request[h]
             row == [q EXCEPT !.pc = "plan"]
  <2>2. usage_request' = [usage_request EXCEPT ![h] = row] /\ q.token = q.label
    BY <1>2, <1>10 DEF Usage!FetchUser, Usage!Goto, UsageTypes
  <2>3. IsRequest(q) /\ q.pc # "idle"
    BY <2>1, RequestsAre
  <2> HIDE DEF q
  <2>4. /\ DOMAIN row = DOMAIN q /\ row.pc = "plan" /\ row.label = q.label
        /\ row.since = q.since /\ row.token = q.token
    BY <2>3 DEF IsRequest
  <2> HIDE DEF row
  <2>5. IsRequest(row)
    BY <2>2, <2>3, <2>4 DEF IsRequest
  <2> QED
    BY <1>4, <2>1, <2>2, <2>5
<1>11. ASSUME NEW h \in Threads, Usage!FetchPlan(h)
       PROVE  UsageInv'
  BY <1>4, <1>5, <1>11 DEF Usage!FetchPlan, Usage!Goto
<1>12. ASSUME NEW h \in Threads, Usage!FetchLimits(h)
       PROVE  UsageInv'
  <2>1. usage_request[h].token = usage_request[h].label /\ usage_request[h].pc = "limits"
    BY <1>12 DEF Usage!FetchLimits, UsageInv, ResultsAreHonest
  <2> QED
    BY <1>4, <1>12, <2>1, Finishes DEF Usage!FetchLimits
<1>13. ASSUME NEW h \in Threads, Usage!Store(h)
       PROVE  UsageInv'
  <2> DEFINE q == usage_request[h]
             entry == [at |-> usage_now, result |-> q.result]
             late == q.renew /\ q.result.readAt < q.since
             given == [label |-> q.label, shows |-> q.result.shows,
                       age |-> usage_now - q.result.readAt, stale |-> late]
  <2>1. /\ q.pc = "storing" /\ answer' = given
        /\ usage_cache' = [usage_cache EXCEPT ![q.label] = entry]
        /\ usage_request' = [usage_request EXCEPT ![h] = Usage!Idle]
        /\ UNCHANGED <<usage_now, label, saved>>
    BY <1>13 DEF Usage!Store, Usage!AnswerWith
  <2>2. IsRequest(q)
    BY RequestsAre
  <2>3. /\ q.label \in Emails /\ q.result.shows \in {None, q.label}
        /\ q.since \in Nat /\ q.result.readAt \in q.since..usage_now
        /\ usage_now <= q.since + LongestCheck
    BY <2>1, <2>2 DEF IsRequest
  <2> HIDE DEF q
  <2>4. entry.at = usage_now /\ entry.result = q.result
    OBVIOUS
  <2>5. /\ given.shows # None => given.shows = given.label
        /\ given.age < KeepFor + LongestCheck
    BY <1>2, <2>3 DEF UsageTypes
  <2>6. ~given.stale
    <3>1. ~late
      BY <1>2, <2>3 DEF UsageTypes
    <3>2. given.stale = late
      BY Zenon
    <3> HIDE DEF given, late
    <3> QED
      BY <3>1, <3>2
  <2> HIDE DEF entry, given
  <2>7. AnswersAreCurrent'
    BY <2>1, <2>5, <2>6 DEF AnswersAreCurrent, Usage!NeverSomeoneElsesPlan,
                            Usage!RefreshReadsAnew, Usage!AnswersAreRecent
  <2>8. /\ DOMAIN usage_request' = Threads /\ usage_request'[h] = Usage!Idle
        /\ \A x \in Threads : x # h => usage_request'[x] = usage_request[x]
    BY <1>2, <2>1, RequestMoves
  <2>9. /\ DOMAIN usage_cache' = Emails
        /\ \A e \in Emails : usage_cache'[e] = IF e = q.label THEN entry ELSE usage_cache[e]
    BY <1>2, <2>1, <2>3 DEF UsageTypes
  <2>10. KeptIsHonest'
    <3> SUFFICES ASSUME NEW e \in Emails, usage_cache'[e] # None
                 PROVE  /\ usage_cache'[e].at \in 0..usage_now
                        /\ usage_cache'[e].result.shows \in {None, e}
                        /\ usage_cache'[e].result.readAt \in Nat
                        /\ usage_cache'[e].result.readAt <= usage_cache'[e].at
                        /\ usage_cache'[e].at <=
                               usage_cache'[e].result.readAt + LongestCheck
      BY <2>1 DEF KeptIsHonest
    <3>1. CASE e = q.label
      BY <1>2, <2>3, <2>4, <2>9, <3>1 DEF UsageTypes
    <3>2. CASE e # q.label
      BY <2>9, <3>2 DEF UsageInv, KeptIsHonest
    <3> QED
      BY <3>1, <3>2
  <2>11. UsageTypes' /\ ChecksAreShort' /\ ResultsAreHonest'
    BY <2>1, <2>8, <2>9, IdleIsARequest
    DEF UsageInv, UsageTypes, ChecksAreShort, ResultsAreHonest, IsRequest
  <2> QED
    BY <2>7, <2>10, <2>11 DEF UsageInv
<1>14. ASSUME NEW e \in Emails, Usage!Relabel(e) \/ Usage!SignIn(e)
       PROVE  UsageInv'
  <2>1. /\ UNCHANGED <<usage_now, usage_cache, usage_request, answer>>
        /\ label' \in Emails /\ DOMAIN saved' = {"login", "state"}
        /\ saved'.login \in Emails
    BY <1>2, <1>14 DEF Usage!Relabel, Usage!SignIn, UsageTypes
  <2> QED
    BY <2>1 DEF UsageInv, UsageTypes, ChecksAreShort, ResultsAreHonest, KeptIsHonest,
                AnswersAreCurrent, Usage!NeverSomeoneElsesPlan,
                Usage!RefreshReadsAnew, Usage!AnswersAreRecent
<1>15. CASE Usage!Expire
  <2>1. /\ UNCHANGED <<usage_now, label, usage_cache, usage_request, answer>>
        /\ DOMAIN saved' = {"login", "state"} /\ saved'.login \in Emails
    BY <1>2, <1>15 DEF Usage!Expire, UsageTypes
  <2> QED
    BY <2>1 DEF UsageInv, UsageTypes, ChecksAreShort, ResultsAreHonest, KeptIsHonest,
                AnswersAreCurrent, Usage!NeverSomeoneElsesPlan,
                Usage!RefreshReadsAnew, Usage!AnswersAreRecent
<1>16. CASE Usage!Tick
  <2>1. /\ UNCHANGED <<label, saved, usage_cache, usage_request, answer>>
        /\ usage_now' = usage_now + 1
        /\ \A h \in Threads : usage_request[h].pc # "idle" =>
               usage_now < usage_request[h].since + LongestCheck
    BY <1>16 DEF Usage!Tick
  <2>2. UsageTypes' /\ AnswersAreCurrent'
    BY <1>2, <2>1 DEF UsageInv, UsageTypes, AnswersAreCurrent,
        Usage!NeverSomeoneElsesPlan, Usage!RefreshReadsAnew, Usage!AnswersAreRecent
  <2>3. ChecksAreShort'
    BY <1>2, <2>1 DEF UsageInv, UsageTypes, ChecksAreShort
  <2>4. ResultsAreHonest'
    BY <1>2, <2>1 DEF UsageInv, UsageTypes, ResultsAreHonest
  <2>5. KeptIsHonest'
    BY <1>2, <2>1 DEF UsageInv, UsageTypes, KeptIsHonest
  <2> QED
    BY <2>2, <2>3, <2>4, <2>5 DEF UsageInv
<1> QED
  BY <1>1, <1>6, <1>7, <1>8, <1>9, <1>10, <1>11, <1>12, <1>13, <1>14, <1>15, <1>16
  DEF Usage!Next

(* However requests for an account overlap, and whatever the label and the *)
(* sign-in become meanwhile: no answer shows the plan of a login the label *)
(* does not name, a refresh was read after it was asked for, and nothing   *)
(* is older than the cache's keeping time and one check (account_usage,    *)
(* _refresh_account_usage).                                                *)
THEOREM PlansAreOwnAndFresh == ServiceSpec => []AnswersAreCurrent
<1>1. ServiceInit => UsageInv
  <2> SUFFICES ASSUME ServiceInit PROVE UsageInv
    OBVIOUS
  <2>1. /\ usage_now = 1 /\ label \in Emails
        /\ saved \in [login : Emails, state : {"missing", "expired", "current"}]
        /\ usage_cache = [e \in Emails |-> None]
        /\ usage_request = [h \in Threads |-> Usage!Idle]
        /\ answer = None
    BY DEF ServiceInit, Usage!Init
  <2>2. \A h \in Threads : usage_request[h] = Usage!Idle
    BY <2>1
  <2>3. UsageTypes
    <3>1. DOMAIN Usage!Idle = {"pc", "label", "renew", "since", "token", "result"}
          /\ Usage!Idle.since \in Nat
      BY DEF Usage!Idle
    <3> QED
      BY <2>1, <2>2, <3>1 DEF UsageTypes
  <2>4. ChecksAreShort /\ ResultsAreHonest /\ KeptIsHonest
    <3>1. Usage!Idle.pc = "idle"
      BY DEF Usage!Idle
    <3> QED
      BY <2>1, <2>2, <3>1 DEF ChecksAreShort, ResultsAreHonest, KeptIsHonest
  <2> QED
    BY <2>1, <2>3, <2>4 DEF UsageInv, AnswersAreCurrent, Usage!NeverSomeoneElsesPlan,
                            Usage!RefreshReadsAnew, Usage!AnswersAreRecent
<1>2. UsageInv /\ [ServiceNext]_allVars => UsageInv'
  BY Parts, UsageInvNext
<1>3. UsageInv => AnswersAreCurrent
  BY DEF UsageInv
<1> QED
  BY <1>1, <1>2, <1>3, PTL DEF ServiceSpec

-----------------------------------------------------------------------------
(* Resume.                                                                 *)
InLock == {"locked", "unlaunched", "resumable", "clear"}

ResumeTypes ==
    /\ DOMAIN launch = Res!LaunchIds
    /\ \A n \in Res!LaunchIds : DOMAIN launch[n] = {"goal", "launcher", "router"}
    /\ DOMAIN active_launches = GoalIds
    /\ \A g \in GoalIds : active_launches[g] # None =>
           /\ active_launches[g] \in Res!LaunchIds
           /\ launch[active_launches[g]].goal = g
           /\ launch[active_launches[g]] # Res!NoLaunch
    /\ DOMAIN handler = Threads
    /\ \A h \in Threads : DOMAIN handler[h] = {"pc", "goal"}

LockIsHeld ==
    \A h \in Threads :
        /\ handler[h].pc # "idle" => handler[h].goal \in GoalIds
        /\ handler[h].pc \in InLock => lock = h
        /\ handler[h].pc \in InLock \ {"locked"} =>
               Res!LauncherOf(handler[h].goal) # "running"

(* The service remembers every launcher it started.                        *)
LaunchersRemembered ==
    ~foreign => \A n \in Res!LaunchIds :
        launch[n].launcher = "running" =>
            launch[n].goal \in GoalIds /\ active_launches[launch[n].goal] = n

(* Of the routers that are up or coming there is at most one, and none     *)
(* once a request has found the way clear.                                 *)
Coming == Res!Routers \cup Res!Starting

RoutersAreExclusive ==
    ~unseen /\ ~foreign =>
        /\ \A n, m \in Coming : n = m
        /\ \A h \in Threads : handler[h].pc = "clear" => Coming = {}

ResumeInv == ResumeTypes /\ LockIsHeld /\ LaunchersRemembered /\ RoutersAreExclusive

(* A handler gets on; the launches do not change.                          *)
LEMMA HandlerGoesOn ==
    ASSUME ResumeInv, NEW h \in Threads, NEW row, DOMAIN row = {"pc", "goal"},
           handler' = [handler EXCEPT ![h] = row],
           UNCHANGED <<launch, active_launches>>, foreign' = foreign,
           ~unseen' => ~unseen,
           row.pc # "idle" => row.goal \in GoalIds,
           row.pc \in InLock => lock' = h,
           row.pc \in InLock \ {"locked"} => Res!LauncherOf(row.goal) # "running",
           \A x \in Threads : x # h /\ handler[x].pc \in InLock => lock' = x,
           row.pc = "clear" /\ ~unseen' /\ ~foreign => Coming = {}
    PROVE  ResumeInv'
<1>1. /\ DOMAIN handler' = Threads /\ handler'[h] = row
      /\ \A x \in Threads : x # h => handler'[x] = handler[x]
  BY DEF ResumeInv, ResumeTypes
<1>2. \A g : Res!LauncherOf(g)' = Res!LauncherOf(g)
  BY DEF Res!LauncherOf
<1>3. Coming' = Coming
  BY DEF Coming, Res!Routers, Res!Starting
<1>4. ResumeTypes'
  BY <1>1 DEF ResumeInv, ResumeTypes
<1>5. LockIsHeld'
  <2> SUFFICES ASSUME NEW x \in Threads
               PROVE  /\ handler'[x].pc # "idle" => handler'[x].goal \in GoalIds
                      /\ handler'[x].pc \in InLock => lock' = x
                      /\ handler'[x].pc \in InLock \ {"locked"} =>
                             Res!LauncherOf(handler'[x].goal) # "running"
    BY <1>2 DEF LockIsHeld
  <2>1. CASE x = h
    BY <1>1, <2>1
  <2>2. CASE x # h
    BY <1>1, <2>2 DEF ResumeInv, LockIsHeld
  <2> QED
    BY <2>1, <2>2
<1>6. LaunchersRemembered'
  BY DEF ResumeInv, LaunchersRemembered
<1>7. RoutersAreExclusive'
  <2> SUFFICES ASSUME ~unseen', ~foreign'
               PROVE  /\ \A n, m \in Coming : n = m
                      /\ \A x \in Threads : handler'[x].pc = "clear" => Coming = {}
    BY <1>3 DEF RoutersAreExclusive
  <2>1. /\ \A n, m \in Coming : n = m
        /\ \A x \in Threads : handler[x].pc = "clear" => Coming = {}
    BY DEF ResumeInv, RoutersAreExclusive
  <2> QED
    BY <1>1, <2>1
<1> QED
  BY <1>4, <1>5, <1>6, <1>7 DEF ResumeInv

(* A launch gets on: its router comes up or goes down, its launcher ends.  *)
LEMMA LaunchGoesOn ==
    ASSUME ResumeInv, NEW n \in Res!LaunchIds, NEW row,
           DOMAIN row = {"goal", "launcher", "router"},
           launch' = [launch EXCEPT ![n] = row],
           row.goal = launch[n].goal, row # Res!NoLaunch,
           row.launcher = "running" => launch[n].launcher = "running",
           n \in Coming' => n \in Coming,
           UNCHANGED <<active_launches, lock, handler, unseen, foreign>>
    PROVE  ResumeInv'
<1>1. /\ DOMAIN launch' = Res!LaunchIds /\ launch'[n] = row
      /\ \A m \in Res!LaunchIds : m # n => launch'[m] = launch[m]
  BY DEF ResumeInv, ResumeTypes
<1>2. \A m \in Res!LaunchIds :
          /\ launch'[m].goal = launch[m].goal
          /\ launch'[m].launcher = "running" => launch[m].launcher = "running"
          /\ launch[m] # Res!NoLaunch => launch'[m] # Res!NoLaunch
  BY <1>1
<1>3. ResumeTypes'
  BY <1>1, <1>2 DEF ResumeInv, ResumeTypes, Res!NoLaunch, Res!LaunchIds
<1>4. Coming' \subseteq Coming
  BY <1>1 DEF Coming, Res!Routers, Res!Starting
<1>5. \A g \in GoalIds : Res!LauncherOf(g)' = "running" => Res!LauncherOf(g) = "running"
  BY <1>2 DEF Res!LauncherOf, ResumeInv, ResumeTypes
<1>6. LockIsHeld'
  BY <1>5 DEF ResumeInv, LockIsHeld, InLock
<1>7. LaunchersRemembered'
  BY <1>2 DEF ResumeInv, LaunchersRemembered, Res!LaunchIds
<1>8. RoutersAreExclusive'
  BY <1>4 DEF ResumeInv, RoutersAreExclusive
<1> QED
  BY <1>3, <1>6, <1>7, <1>8 DEF ResumeInv

LEMMA IdleIsIdle == DOMAIN Res!Idle = {"pc", "goal"} /\ Res!Idle.pc = "idle"
BY DEF Res!Idle

(* A check refuses: the holder of the lock is idle again and lets it go.   *)
LEMMA RejectKeeps ==
    ASSUME ResumeInv, NEW h \in Threads, handler[h].pc \in InLock, Res!Reject(h)
    PROVE  ResumeInv'
<1>1. /\ handler' = [handler EXCEPT ![h] = Res!Idle]
      /\ UNCHANGED <<launch, active_launches, unseen, foreign>>
  BY DEF Res!Reject
<1>2. \A x \in Threads : x # h => handler[x].pc \notin InLock
  BY DEF ResumeInv, LockIsHeld
<1>3. Res!Idle.pc \notin InLock /\ Res!Idle.pc # "clear"
  BY IdleIsIdle DEF InLock
<1> QED
  BY <1>1, <1>2, <1>3, IdleIsIdle, HandlerGoesOn

(* A check lets the holder of the lock on.                                 *)
LEMMA CheckKeeps ==
    ASSUME ResumeInv, NEW h \in Threads, handler[h].pc \in InLock,
           NEW pc \in InLock \ {"locked"}, Res!Goto(h, pc),
           UNCHANGED <<launch, active_launches, lock, foreign>>,
           ~unseen' => ~unseen,
           Res!LauncherOf(handler[h].goal) # "running",
           pc = "clear" /\ ~unseen' /\ ~foreign => Coming = {}
    PROVE  ResumeInv'
<1> DEFINE q == handler[h]
           row == [q EXCEPT !.pc = pc]
<1>1. DOMAIN q = {"pc", "goal"} /\ DOMAIN handler = Threads /\ q.goal \in GoalIds
      /\ lock = h
  BY DEF ResumeInv, ResumeTypes, LockIsHeld, InLock
<1>2. handler' = [handler EXCEPT ![h] = row]
  BY <1>1 DEF Res!Goto
<1> HIDE DEF q
<1>3. DOMAIN row = {"pc", "goal"} /\ row.pc = pc /\ row.goal = q.goal
  BY <1>1
<1> HIDE DEF row
<1>4. \A x \in Threads : handler[x].pc \in InLock => lock' = x
  BY DEF ResumeInv, LockIsHeld
<1>5. Res!LauncherOf(row.goal) # "running"
  BY <1>3 DEF q
<1> QED
  BY <1>1, <1>2, <1>3, <1>4, <1>5, HandlerGoesOn

(* A launcher is started by the holder of the lock, which found the goal   *)
(* without one.                                                            *)
LEMMA LaunchKeeps ==
    ASSUME ResumeInv, NEW h \in Threads, handler[h].pc = "clear",
           NEW n \in Res!LaunchIds, Res!StartedAs(n, handler[h].goal),
           active_launches' = [active_launches EXCEPT ![handler[h].goal] = n],
           handler' = [handler EXCEPT ![h] = Res!Idle], UNCHANGED <<unseen, foreign>>
    PROVE  ResumeInv'
<1> DEFINE g == handler[h].goal
           row == [goal |-> g, launcher |-> "running", router |-> "none"]
<1>1. /\ g \in GoalIds /\ Res!LauncherOf(g) # "running"
      /\ \A x \in Threads : x # h => handler[x].pc \notin InLock
  BY DEF ResumeInv, LockIsHeld, InLock
<1>2. /\ launch' = [launch EXCEPT ![n] = row] /\ launch[n] = Res!NoLaunch
  BY DEF Res!StartedAs
<1>3. /\ DOMAIN row = {"goal", "launcher", "router"} /\ row.goal = g
      /\ row.launcher = "running" /\ row.router = "none" /\ row # Res!NoLaunch
  BY DEF Res!NoLaunch
<1> HIDE DEF g, row
<1>4. /\ DOMAIN launch' = Res!LaunchIds /\ launch'[n] = row
      /\ \A m \in Res!LaunchIds : m # n => launch'[m] = launch[m]
  BY <1>2 DEF ResumeInv, ResumeTypes
<1>5. /\ DOMAIN active_launches' = GoalIds /\ active_launches'[g] = n
      /\ \A f \in GoalIds : f # g => active_launches'[f] = active_launches[f]
  BY <1>1 DEF ResumeInv, ResumeTypes, g
<1>6. /\ DOMAIN handler' = Threads /\ handler'[h] = Res!Idle
      /\ \A x \in Threads : x # h => handler'[x] = handler[x]
  BY DEF ResumeInv, ResumeTypes
<1>7. ResumeTypes'
  BY <1>2, <1>3, <1>4, <1>5, <1>6, IdleIsIdle
  DEF ResumeInv, ResumeTypes, Res!NoLaunch, Res!LaunchIds
<1>8. \A x \in Threads : handler'[x].pc \notin InLock
  BY <1>1, <1>6, IdleIsIdle DEF InLock
<1>9. LockIsHeld'
  BY <1>6, <1>8, IdleIsIdle DEF ResumeInv, LockIsHeld, InLock
<1>10. LaunchersRemembered'
  <2> SUFFICES ASSUME ~foreign, NEW m \in Res!LaunchIds, launch'[m].launcher = "running"
               PROVE  /\ launch'[m].goal \in GoalIds
                      /\ active_launches'[launch'[m].goal] = m
    BY DEF LaunchersRemembered, Res!LaunchIds
  <2>1. CASE m = n
    BY <1>1, <1>3, <1>4, <1>5, <2>1
  <2>2. CASE m # n
    <3>1. /\ launch[m].launcher = "running" /\ launch'[m] = launch[m]
          /\ launch[m].goal \in GoalIds /\ active_launches[launch[m].goal] = m
      BY <1>4, <2>2 DEF ResumeInv, LaunchersRemembered
    <3>2. m # None
      BY ServiceAssumption DEF Res!ResumeAssumption, Res!LaunchIds
    <3>3. launch[m].goal # g
      BY <1>1, <3>1, <3>2 DEF Res!LauncherOf
    <3> QED
      BY <1>5, <3>1, <3>3
  <2> QED
    BY <2>1, <2>2
<1>11. RoutersAreExclusive'
  <2> SUFFICES ASSUME ~unseen, ~foreign
               PROVE  /\ \A m, k \in Coming' : m = k
                      /\ \A x \in Threads : handler'[x].pc # "clear"
    BY DEF RoutersAreExclusive
  <2>1. Coming = {}
    BY DEF ResumeInv, RoutersAreExclusive
  <2>2. Coming' \subseteq {n}
    BY <1>4, <2>1 DEF Coming, Res!Routers, Res!Starting
  <2> QED
    BY <1>8, <2>2 DEF InLock
<1> QED
  BY <1>7, <1>9, <1>10, <1>11 DEF ResumeInv

LEMMA ResumeInvNext ==
    ASSUME ResumeInv, [Res!Next]_resumeVars
    PROVE  ResumeInv'
<1>1. ASSUME UNCHANGED <<launch, active_launches, lock, handler, unseen, foreign>>
      PROVE  ResumeInv'
  BY <1>1 DEF ResumeInv, ResumeTypes, LockIsHeld, Res!LauncherOf, LaunchersRemembered,
              RoutersAreExclusive, Coming, Res!Routers, Res!Starting
<1>2. CASE UNCHANGED resumeVars
  BY <1>1, <1>2 DEF resumeVars
<1>3. ASSUME NEW h \in Threads, NEW g \in GoalIds, Res!Decide(h, g)
      PROVE  ResumeInv'
  <2> DEFINE row == [pc |-> "decided", goal |-> g]
  <2>1. /\ DOMAIN row = {"pc", "goal"} /\ row.pc = "decided" /\ row.goal = g
        /\ row.pc \notin InLock
    BY DEF InLock
  <2>2. /\ handler' = [handler EXCEPT ![h] = row]
        /\ UNCHANGED <<launch, active_launches, lock, unseen, foreign>>
    BY <1>3 DEF Res!Decide
  <2> HIDE DEF row
  <2>3. \A x \in Threads : handler[x].pc \in InLock => lock' = x
    BY <2>2 DEF ResumeInv, LockIsHeld
  <2> QED
    BY <2>1, <2>2, <2>3, HandlerGoesOn
<1>4. ASSUME NEW h \in Threads, Res!Acquire(h)
      PROVE  ResumeInv'
  <2> DEFINE q == handler[h]
             row == [q EXCEPT !.pc = "locked"]
  <2>1. DOMAIN q = {"pc", "goal"} /\ DOMAIN handler = Threads /\ q.goal \in GoalIds
    BY <1>4 DEF Res!Acquire, ResumeInv, ResumeTypes, LockIsHeld
  <2>2. /\ handler' = [handler EXCEPT ![h] = row] /\ lock' = h /\ lock = None
        /\ UNCHANGED <<launch, active_launches, unseen, foreign>>
    BY <1>4, <2>1 DEF Res!Acquire, Res!Goto
  <2> HIDE DEF q
  <2>3. DOMAIN row = {"pc", "goal"} /\ row.pc = "locked" /\ row.goal = q.goal
    BY <2>1
  <2> HIDE DEF row
  <2>4. \A x \in Threads : handler[x].pc \notin InLock
    BY <2>2, ServiceAssumption DEF ResumeInv, LockIsHeld, Res!ResumeAssumption
  <2> QED
    BY <2>1, <2>2, <2>3, <2>4, HandlerGoesOn
<1>5. ASSUME NEW h \in Threads, Res!CheckLaunches(h)
      PROVE  ResumeInv'
  BY <1>5, RejectKeeps, CheckKeeps DEF Res!CheckLaunches, InLock
<1>6. ASSUME NEW h \in Threads, Res!CheckSession(h)
      PROVE  ResumeInv'
  <2>1. Res!LauncherOf(handler[h].goal) # "running" /\ handler[h].pc \in InLock
    BY <1>6 DEF Res!CheckSession, ResumeInv, LockIsHeld, InLock
  <2> QED
    BY <1>6, <2>1, RejectKeeps, CheckKeeps DEF Res!CheckSession, InLock
<1>7. ASSUME NEW h \in Threads, Res!CheckRouters(h)
      PROVE  ResumeInv'
  <2>1. Res!LauncherOf(handler[h].goal) # "running" /\ handler[h].pc \in InLock
    BY <1>7 DEF Res!CheckRouters, ResumeInv, LockIsHeld, InLock
  <2>2. CASE Res!Reject(h)
    BY <2>1, <2>2, RejectKeeps
  <2>3. CASE /\ Res!Routers = {} /\ Res!Goto(h, "clear")
             /\ unseen' = (unseen \/ Res!Starting # {})
             /\ UNCHANGED <<launch, active_launches, lock, foreign>>
    <3>1. ~unseen' => ~unseen /\ Coming = {}
      BY <2>3 DEF Coming
    <3> QED
      BY <2>1, <2>3, <3>1, CheckKeeps DEF InLock
  <2> QED
    BY <1>7, <2>2, <2>3 DEF Res!CheckRouters
<1>8. ASSUME NEW h \in Threads, Res!Launch(h)
      PROVE  ResumeInv'
  BY <1>8, RejectKeeps, LaunchKeeps DEF Res!Launch, InLock
<1>9. ASSUME NEW n \in Res!LaunchIds, NEW g \in GoalIds, Res!ShellLaunch(n, g)
      PROVE  ResumeInv'
  <2> DEFINE row == [goal |-> g, launcher |-> "running", router |-> "none"]
  <2>1. /\ DOMAIN row = {"goal", "launcher", "router"} /\ row # Res!NoLaunch
    BY DEF Res!NoLaunch
  <2>2. /\ launch' = [launch EXCEPT ![n] = row] /\ launch[n] = Res!NoLaunch /\ foreign'
        /\ UNCHANGED <<active_launches, lock, handler>>
    BY <1>9 DEF Res!ShellLaunch
  <2> HIDE DEF row
  <2>3. /\ DOMAIN launch' = Res!LaunchIds /\ launch'[n] = row
        /\ \A m \in Res!LaunchIds : m # n => launch'[m] = launch[m]
    BY <2>2 DEF ResumeInv, ResumeTypes
  <2>4. \A g1 \in GoalIds : active_launches[g1] # None =>
            /\ active_launches[g1] \in Res!LaunchIds
            /\ launch'[active_launches[g1]] = launch[active_launches[g1]]
    BY <2>2, <2>3 DEF ResumeInv, ResumeTypes
  <2>5. ResumeTypes'
    BY <2>1, <2>2, <2>3, <2>4 DEF ResumeInv, ResumeTypes, Res!NoLaunch, Res!LaunchIds
  <2>6. \A g1 \in GoalIds : Res!LauncherOf(g1)' = Res!LauncherOf(g1)
    BY <2>2, <2>4 DEF Res!LauncherOf
  <2>7. LockIsHeld'
    BY <2>2, <2>6 DEF ResumeInv, LockIsHeld, InLock
  <2> QED
    BY <2>2, <2>5, <2>7 DEF ResumeInv, LaunchersRemembered, RoutersAreExclusive
<1>10. ASSUME NEW n \in Res!LaunchIds, Res!RouterUp(n) \/ Res!RouterDown(n) \/ Res!LauncherExits(n)
       PROVE  ResumeInv'
  <2> DEFINE q == launch[n]
  <2>1. PICK row :
            /\ \/ n \in Res!Starting /\ row = [q EXCEPT !.router = "up"]
               \/ n \in Res!Routers /\ row = [q EXCEPT !.router = "down"]
               \/ q.launcher = "running" /\ row = [q EXCEPT !.launcher = "exited"]
               \/ q.launcher = "running" /\ row = [q EXCEPT !.launcher = "failed"]
            /\ launch' = [launch EXCEPT ![n] = row]
    BY <1>10 DEF Res!RouterUp, Res!RouterDown, Res!LauncherExits, ResumeInv, ResumeTypes
  <2>2. UNCHANGED <<active_launches, lock, handler, unseen, foreign>>
    BY <1>10 DEF Res!RouterUp, Res!RouterDown, Res!LauncherExits
  <2>3. DOMAIN q = {"goal", "launcher", "router"} /\ DOMAIN launch = Res!LaunchIds
    BY DEF ResumeInv, ResumeTypes
  <2>4. launch'[n] = row
    BY <2>1, <2>3
  <2>5. /\ n \in Res!Starting <=> q.launcher = "running" /\ q.router = "none"
        /\ n \in Res!Routers <=> q.router = "up"
        /\ n \in Coming <=> n \in Res!Starting \/ n \in Res!Routers
        /\ n \in Coming' <=> row.router = "up"
                             \/ (row.launcher = "running" /\ row.router = "none")
    BY <2>4 DEF Coming, Res!Routers, Res!Starting, Res!LaunchIds
  <2> HIDE DEF q
  <2>6. /\ DOMAIN row = {"goal", "launcher", "router"} /\ row.goal = q.goal
        /\ row # Res!NoLaunch
        /\ row.launcher = "running" => q.launcher = "running"
        /\ row.router = "up" => n \in Coming
        /\ row.launcher = "running" /\ row.router = "none" => n \in Coming
    BY <2>1, <2>3, <2>5 DEF Res!NoLaunch
  <2> QED
    BY <2>1, <2>2, <2>5, <2>6, LaunchGoesOn DEF q
<1>11. ASSUME NEW n \in Res!LaunchIds, Res!GoalFinishes(n)
       PROVE  ResumeInv'
  BY <1>1, <1>11 DEF Res!GoalFinishes
<1>12. ASSUME NEW g \in GoalIds, Res!EvidenceChanges(g)
       PROVE  ResumeInv'
  BY <1>1, <1>12 DEF Res!EvidenceChanges
<1>13. CASE Res!Restart
  <2>1. /\ active_launches' = [g \in GoalIds |-> None]
        /\ handler' = [h \in Threads |-> Res!Idle]
        /\ launch' = launch /\ unseen' = unseen
        /\ ~foreign' => ~foreign /\ \A n \in Res!LaunchIds : launch[n].launcher # "running"
    BY <1>13 DEF Res!Restart
  <2>2. ResumeTypes' /\ LockIsHeld'
    BY <2>1, IdleIsIdle DEF ResumeInv, ResumeTypes, LockIsHeld, InLock
  <2>3. LaunchersRemembered'
    BY <2>1 DEF LaunchersRemembered
  <2>4. RoutersAreExclusive'
    BY <2>1, IdleIsIdle
    DEF ResumeInv, RoutersAreExclusive, Coming, Res!Routers, Res!Starting
  <2> QED
    BY <2>2, <2>3, <2>4 DEF ResumeInv
<1> QED
  BY <1>2, <1>3, <1>4, <1>5, <1>6, <1>7, <1>8, <1>9, <1>10, <1>11, <1>12, <1>13
  DEF Res!Next, Res!Step

(* The parts count with the Cardinality of their own instance.             *)
LEMMA SameCount ==
    ASSUME NEW S
    PROVE  Res!Cardinality(S) = Cardinality(S) /\ Setup!Cardinality(S) = Cardinality(S)
BY DEF Res!Cardinality, Setup!Cardinality, Cardinality

LEMMA AtMostOne ==
    ASSUME NEW S, \A x, y \in S : x = y
    PROVE  Cardinality(S) <= 1
<1>1. S = {} \/ \E x : S = {x}
  OBVIOUS
<1>2. CASE S = {}
  BY <1>2, FS_EmptySet
<1>3. ASSUME NEW x, S = {x} PROVE Cardinality(S) = 1
  BY <1>3, FS_Singleton
<1> QED
  BY <1>1, <1>2, <1>3

(* However requests to resume race, checks refuse and launches end: the    *)
(* service starts one launcher for a goal, and one router unless another   *)
(* was still starting when it looked (RESUME_LOCK, ACTIVE_LAUNCHES).       *)
THEOREM ResumesAreExclusive == ServiceSpec => []LaunchesAreExclusive
<1>1. ServiceInit => ResumeInv
  <2> SUFFICES ASSUME ServiceInit PROVE ResumeInv
    OBVIOUS
  <2>1. /\ launch = [n \in Res!LaunchIds |-> Res!NoLaunch]
        /\ active_launches = [g \in GoalIds |-> None]
        /\ handler = [h \in Threads |-> Res!Idle]
    BY DEF ServiceInit, Res!Init
  <2>2. /\ DOMAIN Res!NoLaunch = {"goal", "launcher", "router"}
        /\ Res!NoLaunch.launcher = "none" /\ Res!NoLaunch.router = "none"
    BY DEF Res!NoLaunch
  <2>3. ResumeTypes /\ LockIsHeld
    BY <2>1, <2>2, IdleIsIdle DEF ResumeTypes, LockIsHeld, InLock
  <2>4. LaunchersRemembered /\ RoutersAreExclusive
    BY <2>1, <2>2 DEF LaunchersRemembered, RoutersAreExclusive, Coming, Res!Routers,
                      Res!Starting
  <2> QED
    BY <2>3, <2>4 DEF ResumeInv
<1>2. ResumeInv /\ [ServiceNext]_allVars => ResumeInv'
  BY Parts, ResumeInvNext
<1>3. ResumeInv => LaunchesAreExclusive
  <2> SUFFICES ASSUME ResumeInv PROVE LaunchesAreExclusive
    OBVIOUS
  <2>1. Res!OneLauncherPerGoal
    BY DEF ResumeInv, LaunchersRemembered, Res!OneLauncherPerGoal
  <2>2. Res!OneRouterInTheOpen
    <3> SUFFICES ASSUME ~unseen, ~foreign PROVE Cardinality(Res!Routers) <= 1
      BY SameCount DEF Res!OneRouterInTheOpen
    <3>1. \A n, m \in Res!Routers : n = m
      BY DEF ResumeInv, RoutersAreExclusive, Coming
    <3> QED
      BY <3>1, AtMostOne
  <2> QED
    BY <2>1, <2>2 DEF LaunchesAreExclusive
<1> QED
  BY <1>1, <1>2, <1>3, PTL DEF ServiceSpec

-----------------------------------------------------------------------------
(* AccountSetup.                                                           *)
Holding == {"locked", "launching", "launched", "leaving"}

SetupTypes ==
    /\ restarts \in Nat
    /\ DOMAIN terminal = Terminals
    /\ \A t \in Terminals :
           /\ DOMAIN terminal[t] = {"account", "kind", "state", "service"}
           /\ terminal[t].service \in 0..restarts
    /\ DOMAIN login_processes = Accounts
    /\ \A a \in Accounts : login_processes[a] \in Terminals \cup {None}
    /\ DOMAIN setup_request = Threads
    /\ \A h \in Threads :
           /\ DOMAIN setup_request[h] = {"pc", "kind", "account", "terminal"}
           /\ setup_request[h].pc # "idle" => setup_request[h].account \in Accounts

HolderHoldsLock ==
    \A h \in Threads : setup_request[h].pc \in Holding => login_lock = h

(* A terminal that is remembered was opened for its account by this run of *)
(* the service.                                                            *)
RememberedIsOwn ==
    \A a \in Accounts : login_processes[a] # None =>
        LET t == terminal[login_processes[a]]
        IN  t.account = a /\ t.service = restarts /\ t.state # "unused"

(* A terminal of this run of the service is remembered, or has been opened *)
(* by the request that holds the lock and will remember it.                *)
OpenIsRemembered ==
    \A t \in Terminals :
        Setup!Open(t) /\ terminal[t].service = restarts =>
            \/ terminal[t].account \in Accounts
                   /\ login_processes[terminal[t].account] = t
            \/ \E h \in Threads :
                   /\ setup_request[h].pc = "launched" /\ setup_request[h].terminal = t
                   /\ setup_request[h].account = terminal[t].account

LaunchesWhenNoneIsOpen ==
    \A h \in Threads :
        /\ setup_request[h].pc = "launching" =>
               ~Setup!Running(setup_request[h].account)
        /\ setup_request[h].pc = "launched" =>
               LET t == setup_request[h].terminal
               IN  /\ t \in Terminals
                   /\ terminal[t].account = setup_request[h].account
                   /\ terminal[t].service = restarts /\ terminal[t].state # "unused"
                   /\ ~Setup!Running(setup_request[h].account)

SetupInv ==
    /\ SetupTypes /\ HolderHoldsLock /\ RememberedIsOwn
    /\ OpenIsRemembered /\ LaunchesWhenNoneIsOpen

(* A request gets on without a terminal.                                   *)
LEMMA SetupGoesOn ==
    ASSUME SetupInv, NEW h \in Threads, NEW row,
           DOMAIN row = {"pc", "kind", "account", "terminal"},
           setup_request' = [setup_request EXCEPT ![h] = row],
           UNCHANGED <<terminal, login_processes, restarts>>,
           row.pc # "idle" => row.account \in Accounts,
           row.pc \in Holding => login_lock' = h,
           \A x \in Threads : x # h /\ setup_request[x].pc \in Holding => login_lock' = x,
           row.pc = "launching" => ~Setup!Running(row.account),
           row.pc # "launched", setup_request[h].pc # "launched"
    PROVE  SetupInv'
<1>1. /\ DOMAIN setup_request' = Threads /\ setup_request'[h] = row
      /\ \A x \in Threads : x # h => setup_request'[x] = setup_request[x]
  BY DEF SetupInv, SetupTypes
<1>2. /\ \A a : Setup!Running(a)' <=> Setup!Running(a)
      /\ \A t : Setup!Open(t)' <=> Setup!Open(t)
  BY DEF Setup!Running, Setup!Open
<1>3. SetupTypes'
  BY <1>1 DEF SetupInv, SetupTypes
<1>4. HolderHoldsLock'
  BY <1>1 DEF SetupInv, HolderHoldsLock
<1>5. RememberedIsOwn'
  BY DEF SetupInv, RememberedIsOwn
<1>6. OpenIsRemembered'
  BY <1>1, <1>2 DEF SetupInv, OpenIsRemembered
<1>7. LaunchesWhenNoneIsOpen'
  <2> SUFFICES ASSUME NEW x \in Threads
               PROVE  /\ setup_request'[x].pc = "launching" =>
                             ~Setup!Running(setup_request'[x].account)
                      /\ setup_request'[x].pc = "launched" =>
                             LET t == setup_request'[x].terminal
                             IN  /\ t \in Terminals
                                 /\ terminal[t].account = setup_request'[x].account
                                 /\ terminal[t].service = restarts
                                 /\ terminal[t].state # "unused"
                                 /\ ~Setup!Running(setup_request'[x].account)
    BY <1>2 DEF LaunchesWhenNoneIsOpen
  <2>1. CASE x = h
    BY <1>1, <2>1
  <2>2. CASE x # h
    BY <1>1, <2>2 DEF SetupInv, LaunchesWhenNoneIsOpen
  <2> QED
    BY <2>1, <2>2
<1> QED
  BY <1>3, <1>4, <1>5, <1>6, <1>7 DEF SetupInv

(* A step of the request h leads to pc, or answers it, and leaves the lock.*)
LEMMA SetupSteps ==
    ASSUME SetupInv, NEW h \in Threads, NEW pc,
           Setup!Goto(h, pc) \/ Setup!Answer(h),
           UNCHANGED <<terminal, login_processes, restarts, login_lock>>,
           setup_request[h].pc \notin {"idle", "launched"}, pc # "launched",
           pc \in Holding => setup_request[h].pc \in Holding,
           pc = "launching" => ~Setup!Running(setup_request[h].account)
    PROVE  SetupInv'
<1> DEFINE q == setup_request[h]
           row == [q EXCEPT !.pc = pc]
<1>1. DOMAIN q = {"pc", "kind", "account", "terminal"} /\ DOMAIN setup_request = Threads
      /\ q.account \in Accounts
  BY DEF SetupInv, SetupTypes
<1>2. \A x \in Threads : setup_request[x].pc \in Holding => login_lock' = x
  BY DEF SetupInv, HolderHoldsLock
<1>3. CASE Setup!Goto(h, pc)
  <2>1. setup_request' = [setup_request EXCEPT ![h] = row]
    BY <1>1, <1>3 DEF Setup!Goto
  <2> HIDE DEF q
  <2>2. DOMAIN row = DOMAIN q /\ row.pc = pc /\ row.account = q.account
    BY <1>1
  <2> HIDE DEF row
  <2> QED
    BY <1>1, <1>2, <2>1, <2>2, SetupGoesOn DEF q
<1>4. CASE Setup!Answer(h)
  <2>1. /\ DOMAIN Setup!Idle = {"pc", "kind", "account", "terminal"}
        /\ Setup!Idle.pc = "idle" /\ "idle" \notin Holding
    BY DEF Setup!Idle, Holding
  <2> QED
    BY <1>2, <1>4, <2>1, SetupGoesOn DEF Setup!Answer
<1> QED
  BY <1>3, <1>4

(* The holder of the lock is alone in the section.                         *)
LEMMA HolderIsAlone ==
    ASSUME SetupInv, NEW h \in Threads, setup_request[h].pc \in Holding,
           NEW x \in Threads, setup_request[x].pc \in Holding
    PROVE  x = h
BY DEF SetupInv, HolderHoldsLock

(* A terminal is opened where none of the service's was open.              *)
LEMMA OpeningKeeps ==
    ASSUME SetupInv, NEW h \in Threads, NEW t \in Terminals, Setup!Launch(h, t)
    PROVE  SetupInv'
<1> DEFINE q == setup_request[h]
           row == [q EXCEPT !.pc = "launched", !.terminal = t]
           new == [account |-> q.account, kind |-> q.kind, state |-> "open",
                   service |-> restarts]
<1>1. /\ q.pc = "launching" /\ terminal[t].state = "unused"
      /\ terminal' = [terminal EXCEPT ![t] = new]
      /\ UNCHANGED <<login_processes, login_lock, restarts>>
  BY DEF Setup!Launch
<1>2. SetupTypes /\ DOMAIN q = {"pc", "kind", "account", "terminal"}
      /\ q.account \in Accounts
  BY <1>1 DEF SetupInv, SetupTypes
<1>3. setup_request' = [setup_request EXCEPT ![h] = row]
  BY <1>2 DEF Setup!Launch, SetupTypes
<1>4. /\ DOMAIN new = {"account", "kind", "state", "service"} /\ new.account = q.account
      /\ new.state = "open" /\ new.service = restarts
  OBVIOUS
<1>5. q.pc \in Holding
  BY <1>1 DEF Holding
<1>6. ~Setup!Running(q.account)
  BY <1>1 DEF SetupInv, LaunchesWhenNoneIsOpen
<1> HIDE DEF q, new
<1>7. /\ DOMAIN row = DOMAIN q /\ row.pc = "launched" /\ row.account = q.account
      /\ row.terminal = t
  BY <1>2
<1> HIDE DEF row
<1>8. /\ setup_request'[h] = row
      /\ \A x \in Threads : x # h => setup_request'[x] = setup_request[x]
  BY <1>2, <1>3 DEF SetupTypes
<1>9. /\ terminal'[t] = new
      /\ \A u \in Terminals : u # t => terminal'[u] = terminal[u]
  BY <1>1, <1>2 DEF SetupTypes
<1>10. \A x \in Threads : x # h => setup_request[x].pc \notin Holding
  BY <1>5, HolderIsAlone DEF q
<1>11. \A a \in Accounts : login_processes[a] # None =>
           login_processes[a] \in Terminals /\ login_processes[a] # t
  BY <1>1, <1>2 DEF SetupInv, RememberedIsOwn, SetupTypes
<1>12. None \notin Terminals
  BY ServiceAssumption DEF Setup!SetupAssumption
<1>13. \A a \in Accounts : Setup!Running(a)' <=> Setup!Running(a)
  BY <1>1, <1>9, <1>11 DEF Setup!Running, Setup!Open
<1>14. SetupTypes'
  <2>1. \A u \in Terminals :
            /\ DOMAIN terminal'[u] = {"account", "kind", "state", "service"}
            /\ terminal'[u].service \in 0..restarts
    BY <1>2, <1>4, <1>9 DEF SetupTypes
  <2>2. \A x \in Threads :
            /\ DOMAIN setup_request'[x] = {"pc", "kind", "account", "terminal"}
            /\ setup_request'[x].pc # "idle" => setup_request'[x].account \in Accounts
    BY <1>2, <1>7, <1>8 DEF SetupTypes
  <2> QED
    BY <1>1, <1>2, <1>3, <2>1, <2>2 DEF SetupTypes
<1>15. HolderHoldsLock'
  BY <1>1, <1>5, <1>8 DEF SetupInv, HolderHoldsLock, q
<1>16. RememberedIsOwn'
  BY <1>1, <1>9, <1>11 DEF SetupInv, RememberedIsOwn
<1>17. OpenIsRemembered'
  <2> SUFFICES ASSUME NEW u \in Terminals, Setup!Open(u)', terminal'[u].service = restarts
               PROVE  \/ /\ terminal'[u].account \in Accounts
                         /\ login_processes[terminal'[u].account] = u
                      \/ /\ setup_request'[h].pc = "launched"
                         /\ setup_request'[h].terminal = u
                         /\ setup_request'[h].account = terminal'[u].account
    BY <1>1 DEF OpenIsRemembered
  <2>1. CASE u = t
    BY <1>4, <1>7, <1>8, <1>9, <2>1
  <2>2. CASE u # t
    <3>1. terminal'[u] = terminal[u] /\ Setup!Open(u)
      BY <1>9, <2>2 DEF Setup!Open
    <3>2. \A x \in Threads : setup_request[x].pc # "launched"
      BY <1>1, <1>10 DEF Holding, q
    <3> QED
      BY <3>1, <3>2 DEF SetupInv, OpenIsRemembered
  <2> QED
    BY <2>1, <2>2
<1>18. LaunchesWhenNoneIsOpen'
  <2>1. \A x \in Threads : x # h => setup_request'[x].pc \notin {"launching", "launched"}
    BY <1>8, <1>10 DEF Holding
  <2> QED
    BY <1>1, <1>2, <1>4, <1>6, <1>7, <1>8, <1>9, <1>13, <2>1 DEF LaunchesWhenNoneIsOpen
<1> QED
  BY <1>14, <1>15, <1>16, <1>17, <1>18 DEF SetupInv

(* Whoever opened a terminal remembers it.                                 *)
LEMMA RememberingKeeps ==
    ASSUME SetupInv, NEW h \in Threads, Setup!Remember(h)
    PROVE  SetupInv'
<1> DEFINE q == setup_request[h]
           row == [q EXCEPT !.pc = "leaving"]
<1>1. /\ q.pc = "launched"
      /\ login_processes' = [login_processes EXCEPT ![q.account] = q.terminal]
      /\ UNCHANGED <<terminal, login_lock, restarts>>
  BY DEF Setup!Remember
<1>2. SetupTypes /\ DOMAIN q = {"pc", "kind", "account", "terminal"}
      /\ q.account \in Accounts
  BY <1>1 DEF SetupInv, SetupTypes
<1>3. setup_request' = [setup_request EXCEPT ![h] = row]
  BY <1>2 DEF Setup!Remember, Setup!Goto, SetupTypes
<1>4. /\ q.terminal \in Terminals /\ terminal[q.terminal].account = q.account
      /\ terminal[q.terminal].service = restarts
      /\ terminal[q.terminal].state # "unused"
      /\ ~Setup!Running(q.account)
  BY <1>1 DEF SetupInv, LaunchesWhenNoneIsOpen
<1>5. q.pc \in Holding
  BY <1>1 DEF Holding
<1>6. \A x \in Threads : x # h => setup_request[x].pc \notin Holding
  BY <1>5, HolderIsAlone
<1>7. \A x \in Threads : setup_request[x].pc = "launched" => setup_request[x] = q
  BY <1>6 DEF Holding
<1> HIDE DEF q
<1>8. DOMAIN row = DOMAIN q /\ row.pc = "leaving" /\ row.account = q.account
  BY <1>2
<1> HIDE DEF row
<1>9. /\ setup_request'[h] = row
      /\ \A x \in Threads : x # h => setup_request'[x] = setup_request[x]
  BY <1>2, <1>3 DEF SetupTypes
<1>10. /\ login_processes'[q.account] = q.terminal
       /\ \A a \in Accounts : a # q.account => login_processes'[a] = login_processes[a]
  BY <1>1, <1>2 DEF SetupTypes
<1>11. SetupTypes'
  BY <1>1, <1>2, <1>3, <1>4, <1>8, <1>9, <1>10 DEF SetupTypes
<1>12. HolderHoldsLock'
  BY <1>1, <1>5, <1>9 DEF SetupInv, HolderHoldsLock, q
<1>13. RememberedIsOwn'
  BY <1>1, <1>4, <1>10 DEF SetupInv, RememberedIsOwn
<1>14. OpenIsRemembered'
  <2> SUFFICES ASSUME NEW u \in Terminals, Setup!Open(u), terminal[u].service = restarts
               PROVE  /\ terminal[u].account \in Accounts
                      /\ login_processes'[terminal[u].account] = u
    BY <1>1 DEF OpenIsRemembered, Setup!Open
  <2>1. CASE \E x \in Threads : /\ setup_request[x].pc = "launched"
                                /\ setup_request[x].terminal = u
                                /\ setup_request[x].account = terminal[u].account
    BY <1>2, <1>7, <1>10, <2>1
  <2>2. CASE terminal[u].account \in Accounts /\ login_processes[terminal[u].account] = u
    <3>1. u # None
      BY ServiceAssumption DEF Setup!SetupAssumption
    <3>2. Setup!Running(terminal[u].account)
      BY <2>2, <3>1 DEF Setup!Running
    <3> QED
      BY <1>4, <1>10, <2>2, <3>2
  <2> QED
    BY <2>1, <2>2 DEF SetupInv, OpenIsRemembered
<1>15. LaunchesWhenNoneIsOpen'
  <2>1. \A x \in Threads : setup_request'[x].pc \notin {"launching", "launched"}
    BY <1>6, <1>8, <1>9 DEF Holding
  <2> QED
    BY <2>1 DEF LaunchesWhenNoneIsOpen
<1> QED
  BY <1>11, <1>12, <1>13, <1>14, <1>15 DEF SetupInv

LEMMA SetupInvNext ==
    ASSUME SetupInv, [Setup!Next]_setupVars
    PROVE  SetupInv'
<1> USE DEF Setup!world
<1>1. ASSUME UNCHANGED <<terminal, login_processes, login_lock, setup_request, restarts>>
      PROVE  SetupInv'
  BY <1>1 DEF SetupInv, SetupTypes, HolderHoldsLock, RememberedIsOwn, OpenIsRemembered,
              LaunchesWhenNoneIsOpen, Setup!Running, Setup!Open
<1>2. CASE UNCHANGED setupVars
  BY <1>1, <1>2 DEF setupVars
<1>3. ASSUME NEW h \in Threads, NEW kind, NEW a \in Accounts, Setup!ReadPolicy(h, kind, a)
      PROVE  SetupInv'
  <2> DEFINE row == [Setup!Idle EXCEPT !.pc = "registered", !.kind = kind, !.account = a]
  <2>1. /\ DOMAIN row = {"pc", "kind", "account", "terminal"}
        /\ row.pc = "registered" /\ row.account = a
    BY DEF Setup!Idle
  <2>2. /\ setup_request' = [setup_request EXCEPT ![h] = row]
        /\ setup_request[h].pc = "idle"
        /\ UNCHANGED <<terminal, login_processes, login_lock, restarts>>
    BY <1>3 DEF Setup!ReadPolicy
  <2> HIDE DEF row
  <2>3. \A x \in Threads : setup_request[x].pc \in Holding => login_lock' = x
    BY <2>2 DEF SetupInv, HolderHoldsLock
  <2> QED
    BY <2>1, <2>2, <2>3, SetupGoesOn DEF Holding
<1>4. ASSUME NEW h \in Threads, Setup!ReadProfile(h) \/ Setup!CheckStage(h)
      PROVE  SetupInv'
  <2>1. \E pc \in {"checked", "copying"} : Setup!Goto(h, pc) \/ Setup!Answer(h)
    BY <1>4 DEF Setup!ReadProfile, Setup!CheckStage
  <2>2. /\ setup_request[h].pc = "registered"
        /\ UNCHANGED <<terminal, login_processes, restarts, login_lock>>
    BY <1>4 DEF Setup!ReadProfile, Setup!CheckStage
  <2> QED
    BY <2>1, <2>2, SetupSteps DEF Holding
<1>5. ASSUME NEW h \in Threads, Setup!Acquire(h)
      PROVE  SetupInv'
  <2> DEFINE q == setup_request[h]
             row == [q EXCEPT !.pc = "locked"]
  <2>1. /\ q.pc = "checked" /\ login_lock = None /\ login_lock' = h
        /\ UNCHANGED <<terminal, login_processes, restarts>>
    BY <1>5 DEF Setup!Acquire
  <2>2. DOMAIN q = {"pc", "kind", "account", "terminal"} /\ q.account \in Accounts
        /\ DOMAIN setup_request = Threads
    BY <2>1 DEF SetupInv, SetupTypes
  <2>3. setup_request' = [setup_request EXCEPT ![h] = row]
    BY <1>5, <2>2 DEF Setup!Acquire, Setup!Goto
  <2>4. \A x \in Threads : setup_request[x].pc \notin Holding
    BY <2>1, ServiceAssumption DEF SetupInv, HolderHoldsLock, Setup!SetupAssumption
  <2> HIDE DEF q
  <2>5. DOMAIN row = DOMAIN q /\ row.pc = "locked" /\ row.account = q.account
    BY <2>2
  <2> HIDE DEF row
  <2>6. q.pc # "launched"
    BY <2>1
  <2> QED
    BY <2>1, <2>2, <2>3, <2>4, <2>5, <2>6, SetupGoesOn DEF q
<1>6. ASSUME NEW h \in Threads, Setup!Poll(h)
      PROVE  SetupInv'
  <2>1. /\ setup_request[h].pc = "locked"
        /\ UNCHANGED <<terminal, login_processes, restarts, login_lock>>
    BY <1>6 DEF Setup!Poll
  <2>2. \/ Setup!Goto(h, "leaving")
        \/ Setup!Goto(h, "launching") /\ ~Setup!Running(setup_request[h].account)
    BY <1>6 DEF Setup!Poll
  <2> QED
    BY <2>1, <2>2, SetupSteps DEF Holding
<1>7. ASSUME NEW h \in Threads, Setup!LaunchFails(h)
      PROVE  SetupInv'
  <2>1. /\ setup_request[h].pc = "launching" /\ Setup!Goto(h, "leaving")
        /\ UNCHANGED <<terminal, login_processes, restarts, login_lock>>
    BY <1>7 DEF Setup!LaunchFails
  <2> QED
    BY <2>1, SetupSteps DEF Holding
<1>8. ASSUME NEW h \in Threads, Setup!Release(h)
      PROVE  SetupInv'
  <2>1. /\ setup_request[h].pc = "leaving"
        /\ setup_request' = [setup_request EXCEPT ![h] = Setup!Idle]
        /\ UNCHANGED <<terminal, login_processes, restarts>>
    BY <1>8 DEF Setup!Release, Setup!Answer
  <2>2. /\ DOMAIN Setup!Idle = {"pc", "kind", "account", "terminal"}
        /\ Setup!Idle.pc = "idle" /\ "idle" \notin Holding
    BY DEF Setup!Idle, Holding
  <2>3. setup_request[h].pc \in Holding
    BY <2>1 DEF Holding
  <2>4. \A x \in Threads : x # h => setup_request[x].pc \notin Holding
    BY <2>3, HolderIsAlone
  <2> QED
    BY <2>1, <2>2, <2>4, SetupGoesOn
<1>9. ASSUME NEW h \in Threads, Setup!Copy(h)
      PROVE  SetupInv'
  <2>1. /\ setup_request[h].pc = "copying" /\ Setup!Answer(h)
        /\ UNCHANGED <<terminal, login_processes, restarts, login_lock>>
    BY <1>9 DEF Setup!Copy
  <2>2. "copying" \notin Holding
    BY DEF Holding
  <2> QED
    BY <2>1, <2>2, SetupSteps
<1>10. ASSUME NEW t \in Terminals, Setup!Provision(t)
       PROVE  SetupInv'
  BY <1>1, <1>10 DEF Setup!Provision
<1>11. ASSUME NEW t \in Terminals, NEW kept, Setup!SaveSignin(t, kept)
       PROVE  SetupInv'
  BY <1>1, <1>11 DEF Setup!SaveSignin
<1>12. ASSUME NEW t \in Terminals, Setup!CloseTerminal(t)
       PROVE  SetupInv'
  <2>1. /\ terminal' = [terminal EXCEPT ![t] = [terminal[t] EXCEPT !.state = "closed"]]
        /\ UNCHANGED <<login_processes, login_lock, setup_request, restarts>>
    BY <1>12 DEF Setup!CloseTerminal, SetupInv, SetupTypes
  <2>2. /\ DOMAIN terminal' = Terminals
        /\ \A u \in Terminals :
               /\ DOMAIN terminal'[u] = {"account", "kind", "state", "service"}
               /\ terminal'[u].account = terminal[u].account
               /\ terminal'[u].service = terminal[u].service
               /\ terminal'[u].state # "unused" \/ terminal'[u].state = terminal[u].state
               /\ Setup!Open(u)' => Setup!Open(u)
    <3>1. \A u \in Terminals :
              terminal'[u] = IF u = t THEN [terminal[t] EXCEPT !.state = "closed"]
                             ELSE terminal[u]
      BY <2>1 DEF SetupInv, SetupTypes
    <3> DEFINE closed == [terminal[t] EXCEPT !.state = "closed"]
    <3>2. /\ DOMAIN closed = DOMAIN terminal[t] /\ closed.state = "closed"
          /\ closed.account = terminal[t].account /\ closed.service = terminal[t].service
      BY DEF SetupInv, SetupTypes
    <3> HIDE DEF closed
    <3>3. \A u \in Terminals : terminal'[u] = IF u = t THEN closed ELSE terminal[u]
      BY <3>1 DEF closed
    <3> QED
      BY <2>1, <3>2, <3>3 DEF SetupInv, SetupTypes, Setup!Open
  <2>3. \A a \in Accounts : Setup!Running(a)' => Setup!Running(a)
    BY <2>1, <2>2 DEF Setup!Running, SetupInv, SetupTypes
  <2>4. SetupTypes' /\ HolderHoldsLock'
    BY <2>1, <2>2 DEF SetupInv, SetupTypes, HolderHoldsLock
  <2>5. RememberedIsOwn'
    BY <2>1, <2>2 DEF SetupInv, SetupTypes, RememberedIsOwn
  <2>6. OpenIsRemembered'
    BY <2>1, <2>2 DEF SetupInv, OpenIsRemembered
  <2>7. LaunchesWhenNoneIsOpen'
    BY <2>1, <2>2, <2>3 DEF SetupInv, SetupTypes, LaunchesWhenNoneIsOpen
  <2> QED
    BY <2>4, <2>5, <2>6, <2>7 DEF SetupInv
<1>13. ASSUME NEW a \in Accounts, Setup!Toggle(a)
       PROVE  SetupInv'
  BY <1>1, <1>13 DEF Setup!Toggle
<1>14. CASE Setup!Restart
  <2>1. /\ restarts' = restarts + 1 /\ terminal' = terminal
        /\ login_processes' = [a \in Accounts |-> None]
        /\ setup_request' = [h \in Threads |-> Setup!Idle]
    BY <1>14 DEF Setup!Restart
  <2>2. /\ DOMAIN Setup!Idle = {"pc", "kind", "account", "terminal"}
        /\ Setup!Idle.pc = "idle" /\ "idle" \notin Holding
    BY DEF Setup!Idle, Holding
  <2>3. SetupTypes'
    BY <2>1, <2>2 DEF SetupInv, SetupTypes
  <2>4. HolderHoldsLock' /\ RememberedIsOwn' /\ LaunchesWhenNoneIsOpen'
    BY <2>1, <2>2 DEF HolderHoldsLock, RememberedIsOwn, LaunchesWhenNoneIsOpen
  <2>5. OpenIsRemembered'
    BY <2>1 DEF SetupInv, SetupTypes, OpenIsRemembered
  <2> QED
    BY <2>3, <2>4, <2>5 DEF SetupInv
<1> QED
  BY <1>2, <1>3, <1>4, <1>5, <1>6, <1>7, <1>8, <1>9, <1>10, <1>11, <1>12, <1>13, <1>14,
     OpeningKeeps, RememberingKeeps DEF Setup!Next, Setup!Step

(* However requests for an account overlap and terminals come and go: the  *)
(* service never has two of its own open for one account, and readiness    *)
(* tells of the one that is (_start_account_onboarding,                    *)
(* _start_account_signin, _simple_account_readiness).                      *)
THEOREM TerminalsStayKnown == ServiceSpec => []TerminalsAreKnown
<1>1. ServiceInit => SetupInv
  <2> SUFFICES ASSUME ServiceInit PROVE SetupInv
    OBVIOUS
  <2>1. /\ terminal = [t \in Terminals |-> Setup!Unused]
        /\ login_processes = [a \in Accounts |-> None]
        /\ setup_request = [h \in Threads |-> Setup!Idle] /\ restarts = 0
    BY DEF ServiceInit, Setup!Init
  <2>2. /\ DOMAIN Setup!Idle = {"pc", "kind", "account", "terminal"}
        /\ Setup!Idle.pc = "idle" /\ "idle" \notin Holding
        /\ DOMAIN Setup!Unused = {"account", "kind", "state", "service"}
        /\ Setup!Unused.service = 0 /\ Setup!Unused.state = "unused"
    BY DEF Setup!Idle, Holding, Setup!Unused
  <2>3. SetupTypes
    BY <2>1, <2>2 DEF SetupTypes
  <2> QED
    BY <2>1, <2>2, <2>3 DEF SetupInv, HolderHoldsLock, RememberedIsOwn, OpenIsRemembered,
                            LaunchesWhenNoneIsOpen, Setup!Open
<1>2. SetupInv /\ [ServiceNext]_allVars => SetupInv'
  BY Parts, SetupInvNext
<1>3. SetupInv => TerminalsAreKnown
  <2> SUFFICES ASSUME SetupInv PROVE TerminalsAreKnown
    OBVIOUS
  <2>1. None \notin Terminals /\ None \notin Threads
    BY ServiceAssumption DEF Setup!SetupAssumption
  <2>2. ASSUME NEW a \in Accounts, NEW t \in Setup!OpenFor(a)
        PROVE  \/ login_processes[a] = t /\ Setup!Running(a)
               \/ \E h \in Threads : /\ setup_request[h].pc = "launched"
                                     /\ setup_request[h].terminal = t
                                     /\ ~Setup!Running(a)
    <3>1. /\ t \in Terminals /\ Setup!Open(t) /\ terminal[t].account = a
          /\ terminal[t].service = restarts
      BY <2>2 DEF Setup!OpenFor
    <3> QED
      BY <2>1, <3>1 DEF SetupInv, OpenIsRemembered, LaunchesWhenNoneIsOpen, Setup!Running
  <2>3. ASSUME NEW a \in Accounts
        PROVE  Cardinality(Setup!OpenFor(a)) <= 1
    <3>1. ASSUME NEW t \in Setup!OpenFor(a), NEW u \in Setup!OpenFor(a)
          PROVE  t = u
      <4>1. \A h, x \in Threads :
                setup_request[h].pc = "launched" /\ setup_request[x].pc = "launched"
                    => h = x
        BY HolderIsAlone DEF Holding
      <4> QED
        BY <2>2, <4>1
    <3> QED
      BY <3>1, AtMostOne
  <2>4. Setup!OneTerminalPerAccount
    BY <2>3, SameCount DEF Setup!OneTerminalPerAccount
  <2>5. ASSUME login_lock = None, NEW a \in Accounts
        PROVE  Setup!Running(a) <=> Setup!OpenFor(a) # {}
    <3>1. \A h \in Threads : setup_request[h].pc # "launched"
      BY <2>1, <2>5 DEF SetupInv, HolderHoldsLock, Holding
    <3>2. Setup!Running(a) => login_processes[a] \in Setup!OpenFor(a)
      BY DEF SetupInv, SetupTypes, RememberedIsOwn, Setup!Running, Setup!OpenFor
    <3> QED
      BY <2>2, <3>1, <3>2
  <2> QED
    BY <2>4, <2>5 DEF TerminalsAreKnown, Setup!ReadinessKnowsOpenTerminals
<1> QED
  BY <1>1, <1>2, <1>3, PTL DEF ServiceSpec

-----------------------------------------------------------------------------
(* Catalog.                                                                *)
(* No row and no listing is newer than the last success, and a row is as   *)
(* new as it, so that the catalog's freshness is that of the last success. *)
RowsInv ==
    /\ catalog_models \in [Models -> 1..catalog_now \cup {None}]
    /\ catalog_last_success_at \in 1..catalog_now \cup {None}
    /\ \A m \in Models : catalog_models[m] # None =>
           /\ catalog_last_success_at # None
           /\ catalog_models[m] <= catalog_last_success_at
           /\ \E l \in listings : l.at = catalog_models[m] /\ m \in l.models
    /\ catalog_last_success_at # None =>
           \E m \in Models : catalog_models[m] = catalog_last_success_at
    /\ \A l \in listings :
           /\ l.models \subseteq Models /\ l.at \in Nat
           /\ catalog_last_success_at # None /\ l.at <= catalog_last_success_at
           /\ l.at = catalog_last_success_at =>
                  \A m \in l.models : catalog_models[m] = l.at

AnswersHold ==
    \A r \in Cat!Refreshers :
        /\ refresher[r].pc # "idle" => refresher[r].at \in 1..catalog_now
        /\ refresher[r].pc = "fetched" => refresher[r].listed # {}

CatalogInv == Cat!TypeOK /\ RowsInv /\ AnswersHold

(* A marker that is not late makes its refresh the last success.           *)
LEMMA MarkerLands ==
    ASSUME RowsInv, catalog_now \in Nat, NEW listed \in SUBSET Models, listed # {},
           NEW seen \in 1..catalog_now, ~Cat!Late(seen),
           Cat!Marker(Cat!Upserted(catalog_models, listed, seen), seen),
           listings' = listings \cup {[at |-> seen, models |-> listed]},
           catalog_now' = catalog_now
    PROVE  RowsInv'
<1>0. None \notin Nat
  BY ServiceAssumption DEF Cat!CatalogAssumption
<1>1. catalog_last_success_at' = seen
  BY DEF Cat!Marker
<1>2. /\ catalog_models' \in [Models -> 1..catalog_now \cup {None}]
      /\ \A m \in listed : catalog_models'[m] = seen
      /\ \A m \in Models : catalog_models'[m] # None =>
             /\ catalog_models'[m] = seen
             /\ m \in listed \/ catalog_models[m] = seen
  <2>1. \A m \in Models :
            Cat!Upserted(catalog_models, listed, seen)[m] =
                IF m \in listed THEN seen ELSE catalog_models[m]
    <3>1. \A m \in Models : catalog_models[m] # None => seen >= catalog_models[m]
      BY <1>0 DEF RowsInv, Cat!Late
    <3> QED
      BY <3>1 DEF Cat!Upserted
  <2>2. catalog_models' = Cat!Retired(Cat!Upserted(catalog_models, listed, seen), seen)
    BY DEF Cat!Marker
  <2>3. \A m \in Models : catalog_models[m] # None => catalog_models[m] <= seen
    BY <1>0 DEF RowsInv, Cat!Late
  <2>4. \A m \in Models : catalog_models'[m] =
            IF m \in listed THEN seen
            ELSE IF catalog_models[m] # None /\ catalog_models[m] < seen THEN None
            ELSE catalog_models[m]
    BY <1>0, <2>1, <2>2 DEF Cat!Retired
  <2>5. catalog_models' = [m \in Models |-> catalog_models'[m]]
    BY <2>2 DEF Cat!Retired
  <2>6. \A m \in Models : catalog_models[m] \in 1..catalog_now \cup {None}
    BY DEF RowsInv
  <2>7. \A m \in Models : /\ catalog_models'[m] \in 1..catalog_now \cup {None}
                          /\ catalog_models'[m] # None =>
                                 /\ catalog_models'[m] = seen
                                 /\ m \in listed \/ catalog_models[m] = seen
    BY <1>0, <2>3, <2>4, <2>6
  <2> QED
    BY <2>4, <2>5, <2>7
<1>3. \A m \in Models : catalog_models'[m] # None =>
          \E l \in listings' : l.at = catalog_models'[m] /\ m \in l.models
  <2> SUFFICES ASSUME NEW m \in Models, catalog_models'[m] # None
               PROVE  \E l \in listings' : l.at = catalog_models'[m] /\ m \in l.models
    OBVIOUS
  <2>1. CASE m \in listed
    <3>1. [at |-> seen, models |-> listed] \in listings'
      OBVIOUS
    <3> QED
      BY <1>2, <2>1, <3>1
  <2>2. CASE m \notin listed
    BY <1>0, <1>2, <2>2 DEF RowsInv
  <2> QED
    BY <2>1, <2>2
<1>4. \A l \in listings' :
          /\ l.models \subseteq Models /\ l.at \in Nat /\ l.at <= seen
          /\ l.at = seen => \A m \in l.models : catalog_models'[m] = l.at
  <2> SUFFICES ASSUME NEW l \in listings'
               PROVE  /\ l.models \subseteq Models /\ l.at \in Nat /\ l.at <= seen
                      /\ l.at = seen => \A m \in l.models : catalog_models'[m] = l.at
    OBVIOUS
  <2>1. CASE l = [at |-> seen, models |-> listed]
    BY <1>2, <2>1
  <2>2. CASE l \in listings
    <3>1. /\ l.models \subseteq Models /\ l.at \in Nat
          /\ catalog_last_success_at # None /\ l.at <= catalog_last_success_at
          /\ l.at = catalog_last_success_at =>
                 \A m \in l.models : catalog_models[m] = l.at
      BY <2>2 DEF RowsInv
    <3>2. catalog_last_success_at \in Nat /\ catalog_last_success_at <= seen
      BY <1>0, <3>1 DEF RowsInv, Cat!Late
    <3>3. l.at = seen => \A m \in l.models : catalog_models[m] = seen
      BY <3>1, <3>2
    <3>4. \A m \in Models : catalog_models[m] = seen => catalog_models'[m] = seen
      <4>1. \A m \in Models : catalog_models[m] = seen =>
                Cat!Upserted(catalog_models, listed, seen)[m] = seen
        BY DEF Cat!Upserted
      <4> QED
        BY <4>1 DEF Cat!Marker, Cat!Retired
    <3> QED
      BY <3>1, <3>2, <3>3, <3>4
  <2> QED
    BY <2>1, <2>2
<1>5. PICK m \in listed : TRUE
  OBVIOUS
<1>6. m \in Models /\ catalog_models'[m] = seen
  BY <1>2
<1> QED
  BY <1>0, <1>1, <1>2, <1>3, <1>4, <1>6 DEF RowsInv

(* A late batch fills gaps and refreshes older rows: none becomes as new   *)
(* as the last success, and none that is goes.                             *)
LEMMA LateBatchLands ==
    ASSUME RowsInv, catalog_now \in Nat, NEW listed \in SUBSET Models,
           NEW seen \in 1..catalog_now, Cat!Late(seen),
           Cat!Marker(Cat!Upserted(catalog_models, listed, seen), seen),
           listings' = listings \cup {[at |-> seen, models |-> listed]},
           catalog_now' = catalog_now
    PROVE  RowsInv'
<1> DEFINE last == catalog_last_success_at
<1>0. None \notin Nat
  BY ServiceAssumption DEF Cat!CatalogAssumption
<1>1. /\ catalog_models' = Cat!Upserted(catalog_models, listed, seen)
      /\ catalog_last_success_at' = last
  BY DEF Cat!Marker, Cat!metadata
<1>2. last \in Nat /\ last # None /\ seen < last
  BY <1>0 DEF RowsInv, Cat!Late
<1>3. \A m \in Models :
          \/ catalog_models'[m] = catalog_models[m]
          \/ /\ catalog_models'[m] = seen /\ m \in listed
             /\ catalog_models[m] = None \/ seen >= catalog_models[m]
  BY <1>1 DEF Cat!Upserted
<1>4. \A m \in Models : catalog_models[m] = last => catalog_models'[m] = last
  BY <1>2, <1>3
<1>5. catalog_models' \in [Models -> 1..catalog_now \cup {None}]
  BY <1>1 DEF RowsInv, Cat!Upserted
<1>6. \A m \in Models : catalog_models'[m] # None =>
          /\ catalog_models'[m] <= last
          /\ \E l \in listings' : l.at = catalog_models'[m] /\ m \in l.models
  <2> SUFFICES ASSUME NEW m \in Models, catalog_models'[m] # None
               PROVE  /\ catalog_models'[m] <= last
                      /\ \E l \in listings' :
                             l.at = catalog_models'[m] /\ m \in l.models
    OBVIOUS
  <2>1. CASE catalog_models'[m] = catalog_models[m]
    BY <2>1 DEF RowsInv
  <2>2. CASE catalog_models'[m] = seen /\ m \in listed
    <3> DEFINE l == [at |-> seen, models |-> listed]
    <3>1. l \in listings' /\ l.at = seen /\ l.models = listed
      OBVIOUS
    <3>2. catalog_models'[m] <= last
      BY <1>2, <2>2
    <3> HIDE DEF l
    <3> QED
      BY <2>2, <3>1, <3>2
  <2> QED
    BY <1>3, <2>1, <2>2
<1>7. \A l \in listings' :
          /\ l.models \subseteq Models /\ l.at \in Nat /\ l.at <= last
          /\ l.at = last => \A m \in l.models : catalog_models'[m] = l.at
  <2> SUFFICES ASSUME NEW l \in listings'
               PROVE  /\ l.models \subseteq Models /\ l.at \in Nat /\ l.at <= last
                      /\ l.at = last => \A m \in l.models : catalog_models'[m] = l.at
    OBVIOUS
  <2>1. CASE l = [at |-> seen, models |-> listed]
    BY <1>2, <2>1
  <2>2. CASE l \in listings
    <3>1. /\ l.models \subseteq Models /\ l.at \in Nat /\ l.at <= last
          /\ l.at = last => \A m \in l.models : catalog_models[m] = l.at
      BY <2>2 DEF RowsInv
    <3> QED
      BY <1>4, <3>1
  <2> QED
    BY <2>1, <2>2
<1>8. \E m \in Models : catalog_models'[m] = last
  BY <1>2, <1>4 DEF RowsInv
<1>9. catalog_last_success_at' \in 1..catalog_now' \cup {None}
  BY <1>1 DEF RowsInv
<1> QED
  BY <1>1, <1>2, <1>5, <1>6, <1>7, <1>8, <1>9 DEF RowsInv

(* What no commit touches.                                                 *)
LEMMA RowsRest ==
    ASSUME RowsInv, catalog_now \in Nat, catalog_now' \in {catalog_now, catalog_now + 1},
           UNCHANGED <<catalog_models, catalog_last_success_at, listings>>
    PROVE  RowsInv'
BY DEF RowsInv

LEMMA CatalogInvNext ==
    ASSUME CatalogInv, [Cat!Next]_catalogVars
    PROVE  /\ CatalogInv'
           /\ \/ catalog_models' = catalog_models
              \/ \E r \in Cat!Refreshers : /\ refresher[r].pc = "fetched"
                                           /\ refresher'[r].pc = "idle"
<1> DEFINE Asked == [pc : {"idle", "asking", "fetched", "failed"},
                     at : 0..LastRefresh, listed : SUBSET Models]
           Kept == catalog_models' = catalog_models
           Committed(r) == refresher[r].pc = "fetched" /\ refresher'[r].pc = "idle"
           AnswerHolds(row, t) ==
               /\ row.pc # "idle" => row.at \in 1..t
               /\ row.pc = "fetched" => row.listed # {}
<1>0. /\ None \notin Nat /\ LastRefresh \in Nat \ {0}
      /\ catalog_now \in 1..LastRefresh /\ catalog_now \in Nat
      /\ provider \subseteq Models
      /\ refresher \in [Cat!Refreshers -> Asked]
      /\ \A r \in Cat!Refreshers : AnswerHolds(refresher[r], catalog_now)
      /\ catalog_last_error_at \in 1..LastRefresh \cup {None}
  BY ServiceAssumption DEF Cat!CatalogAssumption, CatalogInv, Cat!TypeOK, AnswersHold
<1>1. ASSUME NEW r \in Cat!Refreshers, NEW row \in Asked,
             AnswerHolds(row, catalog_now), catalog_now' = catalog_now,
             refresher' = [refresher EXCEPT ![r] = row]
      PROVE  /\ refresher' \in [Cat!Refreshers -> Asked] /\ AnswersHold'
             /\ refresher'[r] = row
  <2> HIDE DEF Asked
  <2>1. /\ refresher' \in [Cat!Refreshers -> Asked] /\ refresher'[r] = row
        /\ \A x \in Cat!Refreshers : x # r => refresher'[x] = refresher[x]
    BY <1>0, <1>1
  <2>2. \A x \in Cat!Refreshers : AnswerHolds(refresher'[x], catalog_now')
    BY <1>0, <1>1, <2>1
  <2> QED
    BY <2>1, <2>2 DEF AnswersHold, Cat!Refreshers
<1>2. ASSUME RowsInv', catalog_now' \in 1..LastRefresh, provider' \subseteq Models,
             refresher' \in [Cat!Refreshers -> Asked], AnswersHold',
             catalog_last_error_at' \in 1..LastRefresh \cup {None}
      PROVE  CatalogInv'
  <2>1. /\ catalog_models' \in [Models -> 1..LastRefresh \cup {None}]
        /\ catalog_last_success_at' \in 1..LastRefresh \cup {None}
    BY <1>0, <1>2 DEF RowsInv
  <2> QED
    BY <1>2, <2>1 DEF CatalogInv, Cat!TypeOK, Cat!Refreshers
<1>3. Cat!Idle \in Asked /\ Cat!Idle.pc = "idle"
  BY <1>0 DEF Cat!Idle
<1>4. ASSUME NEW r \in Cat!Refreshers, NEW row \in Asked,
             AnswerHolds(row, catalog_now), refresher' = [refresher EXCEPT ![r] = row],
             UNCHANGED <<catalog_now, provider, catalog_models,
                         catalog_last_success_at, listings>>,
             catalog_last_error_at' \in 1..LastRefresh \cup {None}
      PROVE  CatalogInv' /\ Kept
  <2>1. RowsInv'
    BY <1>0, <1>4, RowsRest DEF CatalogInv
  <2>2. refresher' \in [Cat!Refreshers -> Asked] /\ AnswersHold'
    BY <1>1, <1>4
  <2> HIDE DEF Asked
  <2> QED
    BY <1>0, <1>2, <1>4, <2>1, <2>2
<1>5. ASSUME NEW r \in Cat!Refreshers, Cat!Start(r)
      PROVE  CatalogInv' /\ Kept
  <2> DEFINE row == [Cat!Idle EXCEPT !.pc = "asking", !.at = catalog_now]
  <2>0. /\ row \in Asked /\ row.pc = "asking" /\ row.at = catalog_now
    <3> DEFINE begun == [Cat!Idle EXCEPT !.pc = "asking"]
    <3>1. begun \in Asked /\ begun.pc = "asking"
      BY <1>3
    <3> HIDE DEF begun
    <3>2. /\ [begun EXCEPT !.at = catalog_now] \in Asked
          /\ [begun EXCEPT !.at = catalog_now].pc = "asking"
          /\ [begun EXCEPT !.at = catalog_now].at = catalog_now
      BY <1>0, <3>1
    <3> QED
      BY <3>2 DEF begun
  <2>1. row \in Asked /\ AnswerHolds(row, catalog_now)
    <3> HIDE DEF row
    <3> QED
      BY <1>0, <2>0
  <2> QED
    BY <1>0, <1>4, <1>5, <2>1 DEF Cat!Start, Cat!metadata
<1>6. ASSUME NEW r \in Cat!Refreshers, Cat!Fetch(r)
      PROVE  CatalogInv' /\ Kept
  <2> DEFINE row == [refresher[r] EXCEPT !.pc = "fetched", !.listed = provider]
  <2>1. row \in Asked /\ AnswerHolds(row, catalog_now)
    BY <1>0, <1>6 DEF Cat!Fetch
  <2>2. refresher' = [refresher EXCEPT ![r] = row]
    BY <1>0, <1>6 DEF Cat!Fetch
  <2> QED
    BY <1>0, <1>4, <1>6, <2>1, <2>2 DEF Cat!Fetch, Cat!metadata
<1>7. ASSUME NEW r \in Cat!Refreshers, Cat!FetchFails(r) \/ Cat!CommitFails(r)
      PROVE  CatalogInv' /\ Kept
  <2> DEFINE row == [refresher[r] EXCEPT !.pc = "failed"]
  <2>1. row \in Asked /\ AnswerHolds(row, catalog_now)
    BY <1>0, <1>7 DEF Cat!FetchFails, Cat!CommitFails
  <2>2. refresher' = [refresher EXCEPT ![r] = row]
    BY <1>0, <1>7 DEF Cat!FetchFails, Cat!CommitFails
  <2> QED
    BY <1>0, <1>4, <1>7, <2>1, <2>2 DEF Cat!FetchFails, Cat!CommitFails, Cat!metadata
<1>8. ASSUME NEW r \in Cat!Refreshers, Cat!TellFailure(r) \/ Cat!Die(r)
      PROVE  CatalogInv' /\ Kept
  <2>1. catalog_last_error_at' \in 1..LastRefresh \cup {None}
    BY <1>0, <1>8 DEF Cat!TellFailure, Cat!Die, Cat!metadata
  <2>2. UNCHANGED <<catalog_now, provider, catalog_models, catalog_last_success_at,
                    listings>>
    BY <1>8 DEF Cat!TellFailure, Cat!AfterFailure, Cat!Die, Cat!metadata
  <2>3. refresher' = [refresher EXCEPT ![r] = Cat!Idle]
    BY <1>8 DEF Cat!TellFailure, Cat!Die
  <2> QED
    BY <1>3, <1>4, <2>1, <2>2, <2>3
<1>9. ASSUME NEW r \in Cat!Refreshers, Cat!CommitBatch(r) \/ Cat!CommitList(r)
      PROVE  CatalogInv' /\ Committed(r)
  <2> DEFINE seen == refresher[r].at
             listed == refresher[r].listed
  <2>1. /\ seen \in 1..catalog_now /\ listed \in SUBSET Models /\ listed # {}
        /\ refresher[r].pc = "fetched"
    BY <1>0, <1>9 DEF Cat!CommitBatch, Cat!CommitList
  <2>2. /\ refresher' = [refresher EXCEPT ![r] = Cat!Idle]
        /\ UNCHANGED <<catalog_now, provider>>
    BY <1>9 DEF Cat!CommitBatch, Cat!CommitList
  <2>3. \/ /\ Cat!Marker(Cat!Upserted(catalog_models, listed, seen), seen)
           /\ listings' = listings \cup {[at |-> seen, models |-> listed]}
        \/ /\ Cat!Late(seen)
           /\ UNCHANGED <<catalog_models, catalog_last_success_at,
                          catalog_last_error_at, listings>>
    <3>1. CASE Cat!CommitBatch(r)
      BY <3>1 DEF Cat!CommitBatch
    <3>2. CASE Cat!CommitList(r) /\ Cat!Late(seen)
      BY <3>2 DEF Cat!CommitList, Cat!Marker, Cat!metadata
    <3>3. CASE Cat!CommitList(r) /\ ~Cat!Late(seen)
      BY <3>3 DEF Cat!CommitList
    <3> QED
      BY <1>9, <3>1, <3>2, <3>3
  <2>4. catalog_last_error_at' \in 1..LastRefresh \cup {None}
    BY <1>0, <2>3 DEF Cat!Marker, Cat!metadata
  <2>5. refresher' \in [Cat!Refreshers -> Asked] /\ AnswersHold'
        /\ refresher'[r] = Cat!Idle
    BY <1>1, <1>3, <2>2
  <2> HIDE DEF seen, listed, Asked
  <2>6. RowsInv'
    BY <1>0, <2>1, <2>2, <2>3, MarkerLands, LateBatchLands, RowsRest DEF CatalogInv
  <2> QED
    BY <1>0, <1>2, <1>3, <2>1, <2>2, <2>4, <2>5, <2>6
<1>10. ASSUME Cat!Tick \/ UNCHANGED catalogVars
              \/ \E offered \in SUBSET Models : Cat!ProviderChanges(offered)
       PROVE  CatalogInv' /\ Kept
  <2>1. /\ catalog_now' \in {catalog_now, catalog_now + 1}
        /\ catalog_now' \in 1..LastRefresh /\ provider' \subseteq Models
        /\ UNCHANGED <<catalog_models, catalog_last_success_at,
                       catalog_last_error_at, refresher, listings>>
    BY <1>0, <1>10 DEF Cat!Tick, Cat!ProviderChanges, Cat!metadata, catalogVars
  <2>2. RowsInv'
    BY <1>0, <2>1, RowsRest DEF CatalogInv
  <2> HIDE DEF Asked
  <2>3. AnswersHold'
    BY <1>0, <2>1 DEF AnswersHold, Cat!Refreshers
  <2> QED
    BY <1>0, <1>2, <2>1, <2>2, <2>3 DEF Cat!Refreshers
<1> HIDE DEF Asked, Kept, AnswerHolds
<1> QED
  BY <1>5, <1>6, <1>7, <1>8, <1>9, <1>10 DEF Cat!Next, Kept

(* The newest row dates from the last success.                             *)
LEMMA SeenIsLast ==
    ASSUME CatalogInv
    PROVE  Cat!SeenIsTheLastSuccess /\ Cat!RowsWereListed
<1>0. None \notin Nat /\ catalog_now \in Nat
  BY ServiceAssumption DEF Cat!CatalogAssumption, CatalogInv, Cat!TypeOK
<1>1. Cat!RowsWereListed
  BY DEF CatalogInv, RowsInv, Cat!RowsWereListed, Cat!Listed
<1>2. CASE catalog_last_success_at = None
  <2>1. Cat!Listed = {}
    BY <1>2 DEF CatalogInv, RowsInv, Cat!Listed
  <2> QED
    BY <1>1, <1>2, <2>1 DEF Cat!SeenIsTheLastSuccess, Cat!catalog_seen
<1>3. CASE catalog_last_success_at # None
  <2> DEFINE last == catalog_last_success_at
             dates == {catalog_models[m] : m \in Cat!Listed}
  <2>1. last \in Nat
    BY <1>0, <1>3 DEF CatalogInv, RowsInv
  <2>2. \A m \in Cat!Listed : catalog_models[m] \in Nat /\ catalog_models[m] <= last
    BY <1>0 DEF CatalogInv, RowsInv, Cat!Listed
  <2>3. PICK m \in Cat!Listed : catalog_models[m] = last
    BY <1>3 DEF CatalogInv, RowsInv, Cat!Listed
  <2>4. \A t \in dates : (\A x \in Cat!Listed : catalog_models[x] <= t) <=> t = last
    BY <2>1, <2>2, <2>3
  <2>5. last \in dates
    BY <2>3
  <2>6. (CHOOSE t \in dates : \A x \in Cat!Listed : catalog_models[x] <= t) = last
    BY <2>4, <2>5
  <2>7. Cat!catalog_seen = last
    BY <2>3, <2>6 DEF Cat!catalog_seen
  <2> QED
    BY <1>1, <1>3, <2>7 DEF Cat!SeenIsTheLastSuccess
<1> QED
  BY <1>2, <1>3

(* Whatever fails, dies or comes late, the rows are those of successful    *)
(* refreshes, look as old as the last of them, and move only when one      *)
(* commits (refresh_catalog, _apply_catalog_refreshed).                    *)
THEOREM CatalogStaysTrue == ServiceSpec => CatalogKeepsItsWord
<1>1. ServiceInit => CatalogInv
  <2> SUFFICES ASSUME ServiceInit PROVE CatalogInv
    OBVIOUS
  <2>1. /\ catalog_now = 1 /\ provider = Models
        /\ catalog_models = [m \in Models |-> None]
        /\ catalog_last_success_at = None /\ catalog_last_error_at = None
        /\ refresher = [r \in Cat!Refreshers |-> Cat!Idle] /\ listings = {}
    BY DEF ServiceInit, Cat!Init, Cat!Refreshers
  <2>2. LastRefresh \in Nat \ {0} /\ None \notin Nat
    BY ServiceAssumption DEF Cat!CatalogAssumption
  <2>3. Cat!TypeOK
    BY <2>1, <2>2 DEF Cat!TypeOK, Cat!Idle, Cat!Refreshers
  <2>4. RowsInv
    BY <2>1 DEF RowsInv
  <2>5. AnswersHold
    BY <2>1 DEF AnswersHold, Cat!Idle, Cat!Refreshers
  <2> QED
    BY <2>3, <2>4, <2>5 DEF CatalogInv
<1>2. CatalogInv /\ [ServiceNext]_allVars => CatalogInv'
  BY Parts, CatalogInvNext
<1>3. CatalogInv =>
          Cat!TypeOK /\ Cat!SeenIsTheLastSuccess /\ Cat!RowsWereListed
  BY SeenIsLast DEF CatalogInv
<1>4. CatalogInv /\ [ServiceNext]_allVars =>
          [catalog_models' # catalog_models =>
               \E r \in Cat!Refreshers : /\ refresher[r].pc = "fetched"
                                        /\ refresher'[r].pc = "idle"]_(Cat!vars)
  BY Parts, CatalogInvNext
<1> QED
  BY <1>1, <1>2, <1>3, <1>4, PTL
  DEF ServiceSpec, CatalogKeepsItsWord, Cat!OnlyListingsMoveRows

=============================================================================
