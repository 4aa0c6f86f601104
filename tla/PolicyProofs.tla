---------------------------- MODULE PolicyProofs ----------------------------
(***************************************************************************)
(* Theorems about the versions of the policy, for every set of editors and *)
(* requests: the last version saved is the active one, history is append-  *)
(* only, every version leaves an account to route to, accounts that share  *)
(* a profile were posted so, edits that pass on a digest are not lost to   *)
(* one another, and only an editor that dies leaves a version without its  *)
(* audit event.                                                            *)
(***************************************************************************)
EXTENDS PolicyVersions, FiniteSetTheorems, TLAPS

-----------------------------------------------------------------------------
(* The inductive invariant.                                                *)

(* The table is a sequence of rows.                                        *)
RowsShaped ==
    /\ versions \in Seq(ToSet(versions))
    /\ \A n \in DOMAIN versions :
           DOMAIN versions[n] = {"doc", "active", "base", "cas", "op"}

(* An editor that has saved holds the number of a version of its own.      *)
Saving == {e \in Editors : editor[e].pc = "saved"}

EditorsShaped ==
    /\ DOMAIN editor = Editors
    /\ \A e \in Saving :
           /\ editor[e] = [pc |-> "saved", version |-> editor[e].version,
                           audits |-> editor[e].audits]
           /\ editor[e].version \in DOMAIN versions

VersionsInv == RowsShaped /\ EditorsShaped /\ ActiveIsLatest

(* What a save does to the table: the rows it had keep all but their flag, *)
(* and one is added.                                                       *)
Appends(row) ==
    /\ Len(versions) \in Nat /\ Len(versions') = Len(versions) + 1
    /\ DOMAIN versions = 1..Len(versions)
    /\ DOMAIN versions' = 1..(Len(versions) + 1)
    /\ \A n \in DOMAIN versions :
           /\ versions'[n].doc = versions[n].doc
           /\ versions'[n].base = versions[n].base
           /\ versions'[n].cas = versions[n].cas
           /\ versions'[n].op = versions[n].op
           /\ versions'[n].active = FALSE
    /\ versions'[Len(versions) + 1] = row

LEMMA SaveAppends ==
    ASSUME RowsShaped, NEW e \in Editors, Save(e)
    PROVE  Appends(Row(editor[e])) /\ RowsShaped'
<1> DEFINE old == [n \in DOMAIN versions |-> [versions[n] EXCEPT !.active = FALSE]]
           row == Row(editor[e])
           T == ToSet(versions')
<1>1. versions' = Append(old, row)
  BY DEF Save, Activated
<1>2. Len(versions) \in Nat /\ DOMAIN versions = 1..Len(versions)
  BY DEF RowsShaped
<1>3. \A n \in DOMAIN versions :
          /\ DOMAIN old[n] = {"doc", "active", "base", "cas", "op"}
          /\ old[n].doc = versions[n].doc /\ old[n].base = versions[n].base
          /\ old[n].cas = versions[n].cas /\ old[n].op = versions[n].op
          /\ old[n].active = FALSE
  BY DEF RowsShaped
<1>4. DOMAIN row = {"doc", "active", "base", "cas", "op"}
  BY DEF Row
<1> DEFINE S == {old[n] : n \in DOMAIN versions} \cup {row}
<1>5. old \in Seq(S) /\ row \in S /\ Len(old) = Len(versions)
  <2>1. /\ DOMAIN old = 1..Len(versions) /\ old = [n \in DOMAIN old |-> old[n]]
        /\ \A n \in DOMAIN old : old[n] \in S
    BY <1>2
  <2> HIDE DEF old, row
  <2>2. old \in [1..Len(versions) -> S] /\ row \in S
    BY <2>1
  <2> HIDE DEF S
  <2> QED
    BY <1>2, <2>2
<1> HIDE DEF S, row
<1>6. /\ Append(old, row) \in Seq(S)
      /\ Len(Append(old, row)) = Len(versions) + 1
      /\ \A n \in DOMAIN versions : Append(old, row)[n] = old[n]
      /\ Append(old, row)[Len(versions) + 1] = row
  <2> HIDE DEF old
  <2> QED
    BY <1>2, <1>5
<1>7. /\ Len(versions') = Len(versions) + 1
      /\ DOMAIN versions' = 1..(Len(versions) + 1)
      /\ \A n \in DOMAIN versions : versions'[n] = old[n]
      /\ versions'[Len(versions) + 1] = row
  <2> HIDE DEF old
  <2> QED
    BY <1>1, <1>2, <1>6
<1>8. Appends(row)
  BY <1>2, <1>3, <1>7 DEF Appends
<1>9. versions' \in Seq(T)
  <2>1. versions' \in [1..Len(versions') -> T]
    <3>1. DOMAIN versions' = 1..Len(versions') /\ versions' \in Seq(S)
      BY <1>1, <1>2, <1>6, <1>7
    <3>2. \A n \in DOMAIN versions' : versions'[n] \in T
      BY DEF ToSet
    <3>3. versions' \in [1..Len(versions') -> S]
      BY <3>1
    <3> HIDE DEF T
    <3> QED
      BY <3>1, <3>2, <3>3
  <2> QED
    BY <1>2, <1>7, <2>1
<1>10. \A n \in DOMAIN versions' :
           DOMAIN versions'[n] = {"doc", "active", "base", "cas", "op"}
  <2> SUFFICES ASSUME NEW n \in DOMAIN versions'
               PROVE  DOMAIN versions'[n] = {"doc", "active", "base", "cas", "op"}
    OBVIOUS
  <2>1. n \in DOMAIN versions \/ n = Len(versions) + 1
    BY <1>2, <1>7
  <2>2. n \in DOMAIN versions => versions'[n] = old[n]
    BY <1>7
  <2> HIDE DEF old
  <2> QED
    BY <1>3, <1>4, <1>7, <2>1, <2>2
<1> QED
  BY <1>8, <1>9, <1>10 DEF RowsShaped, row

-----------------------------------------------------------------------------
(* What a step does: an editor gets on with its request, saves, ingests an *)
(* audit event or dies.                                                    *)

(* An edit that passes a digest on, the simple list apart, is based on the *)
(* document the digest is of.                                              *)
BasedOnItsDigest(state) ==
    state.pc = "holding" /\ state.expected # None /\ state.request.op # "simple"
        => state.base = state.expected

Edits(e) ==
    /\ editor[e].pc # "saved"
    /\ \E state : /\ editor' = [editor EXCEPT ![e] = state]
                  /\ state.pc # "saved" /\ BasedOnItsDigest(state)
    /\ UNCHANGED <<versions, log, crashes>>

LEMMA StepIs ==
    ASSUME [Next]_vars
    PROVE  \/ UNCHANGED vars
           \/ \E e \in Editors : Save(e) \/ Audit(e) \/ Crash(e) \/ Edits(e)
<1>1. ASSUME NEW e \in Editors, NEW q \in Requests, Look(e, q)
      PROVE  Edits(e)
  <2> DEFINE state == [pc |-> "looked", request |-> q, seen |-> ActiveDoc]
  <2>1. state.pc = "looked"
    OBVIOUS
  <2>2. editor' = [editor EXCEPT ![e] = state] /\ editor[e].pc = "idle"
        /\ UNCHANGED <<versions, log, crashes>>
    BY <1>1 DEF Look, Goto
  <2> HIDE DEF state
  <2> QED
    BY <2>1, <2>2 DEF Edits, BasedOnItsDigest
<1>2. Resting.pc = "idle"
  BY DEF Resting
<1>3. \A q, base, doc, expected, audits :
          LET state == Hold(q, base, doc, expected, audits)
          IN  /\ state.pc = "holding" /\ state.request = q
              /\ state.base = base /\ state.expected = expected
  BY DEF Hold
<1>4. ASSUME NEW e \in Editors, NEW d \in BOOLEAN, BeginSave(e, d)
      PROVE  Edits(e)
  <2> DEFINE q == editor[e].request
             doc == Candidate(editor[e].seen, q)
             state == Hold(q, editor[e].seen, doc,
                           IF d THEN editor[e].seen ELSE None,
                           _policy_diff(ActiveDoc, doc))
  <2>1. /\ editor[e].pc = "looked" /\ UNCHANGED <<versions, log, crashes>>
        /\ Goto(e, Resting) \/ Goto(e, state)
    BY <1>4 DEF BeginSave
  <2>2. state.pc = "holding" /\ BasedOnItsDigest(state)
    BY <1>3 DEF BasedOnItsDigest
  <2> HIDE DEF state
  <2> QED
    BY <1>2, <2>1, <2>2 DEF Edits, Goto, BasedOnItsDigest
<1>8. ASSUME NEW e \in Editors, BeginCliSave(e)
      PROVE  Edits(e)
  <2> DEFINE q == editor[e].request
             state == Hold(q, editor[e].seen, Candidate(editor[e].seen, q), None, {})
  <2>1. /\ editor[e].pc = "looked" /\ UNCHANGED <<versions, log, crashes>>
        /\ Goto(e, Resting) \/ Goto(e, state)
    BY <1>8 DEF BeginCliSave
  <2>2. state.pc = "holding" /\ BasedOnItsDigest(state)
    BY <1>3 DEF BasedOnItsDigest
  <2> HIDE DEF state
  <2> QED
    BY <1>2, <2>1, <2>2 DEF Edits, Goto, BasedOnItsDigest
<1>5. ASSUME NEW e \in Editors, NEW d \in BOOLEAN, BeginMutation(e, d)
      PROVE  Edits(e)
  <2> DEFINE q == editor[e].request
             seen == editor[e].seen
             doc == Candidate(ActiveDoc, q)
             expected == IF d /\ q.op \in {"simple", "remove"} THEN seen ELSE None
  <2>1. /\ editor[e].pc = "looked" /\ UNCHANGED <<versions, log, crashes>>
        /\ \/ Goto(e, Resting)
           \/ /\ ~(q.op = "remove" /\ d /\ seen # ActiveDoc)
              /\ \E audits : Goto(e, Hold(q, ActiveDoc, doc, expected, audits))
    BY <1>5 DEF BeginMutation
  <2>2. ASSUME NEW audits, ~(q.op = "remove" /\ d /\ seen # ActiveDoc)
        PROVE  /\ Hold(q, ActiveDoc, doc, expected, audits).pc = "holding"
               /\ BasedOnItsDigest(Hold(q, ActiveDoc, doc, expected, audits))
    BY <1>3, <2>2 DEF BasedOnItsDigest
  <2> HIDE DEF expected, doc
  <2> QED
    BY <1>2, <2>1, <2>2 DEF Edits, Goto, BasedOnItsDigest
<1>6. ASSUME NEW e \in Editors, NEW n \in DOMAIN versions, BeginRollback(e, n)
      PROVE  Edits(e)
  <2> DEFINE state == Hold([op |-> "rollback"], versions[n].doc, versions[n].doc, None,
                           {[type |-> "policy.rolled_back", account |-> None]})
  <2>1. /\ editor[e].pc = "idle" /\ UNCHANGED <<versions, log, crashes>>
        /\ editor' = [editor EXCEPT ![e] = state]
    BY <1>6 DEF BeginRollback, Goto
  <2>2. state.pc = "holding" /\ BasedOnItsDigest(state)
    BY <1>3 DEF BasedOnItsDigest
  <2> HIDE DEF state
  <2> QED
    BY <2>1, <2>2 DEF Edits
<1>7. ASSUME NEW e \in Editors, Refuse(e)
      PROVE  Edits(e)
  BY <1>2, <1>7 DEF Refuse, Edits, Goto, BasedOnItsDigest
<1> QED
  BY <1>1, <1>4, <1>5, <1>6, <1>7, <1>8 DEF Next, Step

(* A new editor's state is the only one that changes.                      *)
LEMMA EditorMoves ==
    ASSUME EditorsShaped, NEW e \in Editors, NEW state,
           editor' = [editor EXCEPT ![e] = state]
    PROVE  /\ DOMAIN editor' = Editors /\ editor'[e] = state
           /\ \A x \in Editors : x # e => editor'[x] = editor[x]
BY DEF EditorsShaped

-----------------------------------------------------------------------------
(* VersionsInv is inductive.                                               *)
LEMMA VersionsInvInit == Init => VersionsInv
<1> SUFFICES ASSUME Init PROVE VersionsInv
  OBVIOUS
<1>1. versions = <<>> /\ DOMAIN versions = {} /\ Len(versions) = 0
  BY DEF Init
<1>2. RowsShaped
  BY <1>1 DEF RowsShaped
<1>3. DOMAIN editor = Editors /\ Saving = {}
  BY DEF Init, Saving, Resting
<1> QED
  BY <1>1, <1>2, <1>3 DEF VersionsInv, EditorsShaped, ActiveIsLatest

LEMMA VersionsInvNext ==
    ASSUME VersionsInv, [Next]_vars
    PROVE  VersionsInv'
<1>1. RowsShaped /\ EditorsShaped /\ ActiveIsLatest
  BY DEF VersionsInv
<1>2. CASE UNCHANGED vars
  BY <1>1, <1>2 DEF vars, VersionsInv, RowsShaped, EditorsShaped, Saving, ActiveIsLatest
<1>3. ASSUME NEW e \in Editors, Save(e)
      PROVE  VersionsInv'
  <2>1. Appends(Row(editor[e])) /\ RowsShaped'
    BY <1>1, <1>3, SaveAppends
  <2>2. ActiveIsLatest'
    <3>1. Row(editor[e]).active = TRUE
      BY DEF Row
    <3>2. versions'[Len(versions) + 1].active = TRUE
      BY <2>1, <3>1 DEF Appends
    <3> QED
      BY <2>1, <3>2 DEF Appends, ActiveIsLatest
  <2> DEFINE state == [pc |-> "saved", version |-> Len(versions) + 1,
                       audits |-> AuditsOf(editor[e])]
  <2>3. editor' = [editor EXCEPT ![e] = state]
    BY <1>3 DEF Save, Goto
  <2>4. /\ state.version = Len(versions) + 1
        /\ state = [pc |-> "saved", version |-> state.version, audits |-> state.audits]
    OBVIOUS
  <2> HIDE DEF state
  <2>5. EditorsShaped'
    BY <1>1, <2>1, <2>3, <2>4, EditorMoves DEF EditorsShaped, Saving, Appends
  <2> QED
    BY <2>1, <2>2, <2>5 DEF VersionsInv
<1>4. ASSUME NEW e \in Editors, NEW state, editor' = [editor EXCEPT ![e] = state],
             UNCHANGED versions,
             state.pc = "saved" =>
                 /\ editor[e].pc = "saved" /\ state.version = editor[e].version
                 /\ state = [pc |-> "saved", version |-> state.version,
                             audits |-> state.audits]
      PROVE  VersionsInv'
  <2>1. EditorsShaped'
    BY <1>1, <1>4, EditorMoves DEF EditorsShaped, Saving
  <2> QED
    BY <1>1, <1>4, <2>1 DEF VersionsInv, RowsShaped, ActiveIsLatest
<1>5. Resting.pc = "idle"
  BY DEF Resting
<1>6. ASSUME NEW e \in Editors, Audit(e)
      PROVE  VersionsInv'
  <2>1. UNCHANGED versions /\ editor[e].pc = "saved" /\ e \in Saving
    BY <1>6 DEF Audit, Saving
  <2>2. PICK state :
            /\ editor' = [editor EXCEPT ![e] = state]
            /\ \/ state = Resting
               \/ \E next : state = [editor[e] EXCEPT !.audits = @ \ {next}]
    BY <1>6 DEF Audit, Goto
  <2>3. PICK v, a : editor[e] = [pc |-> "saved", version |-> v, audits |-> a]
    BY <1>1, <2>1 DEF EditorsShaped
  <2>4. \/ state = Resting
        \/ \E b : state = [pc |-> "saved", version |-> v, audits |-> b]
    BY <2>2, <2>3
  <2> QED
    BY <1>4, <1>5, <2>1, <2>2, <2>3, <2>4
<1>7. ASSUME NEW e \in Editors, Crash(e)
      PROVE  VersionsInv'
  BY <1>4, <1>5, <1>7 DEF Crash, Goto
<1>8. ASSUME NEW e \in Editors, Edits(e)
      PROVE  VersionsInv'
  BY <1>4, <1>8 DEF Edits
<1> QED
  BY <1>2, <1>3, <1>6, <1>7, <1>8, StepIs

LEMMA VersionsInvariant == Spec => []VersionsInv
BY VersionsInvInit, VersionsInvNext, PTL DEF Spec

-----------------------------------------------------------------------------
(* Rows keep their documents in every step.                                *)
LEMMA HistoryKept ==
    ASSUME VersionsInv, [Next]_vars
    PROVE  [\A n \in DOMAIN versions :
               n \in DOMAIN versions' /\ versions'[n].doc = versions[n].doc]_versions
<1>1. ASSUME NEW e \in Editors, Save(e)
      PROVE  \A n \in DOMAIN versions :
                 n \in DOMAIN versions' /\ versions'[n].doc = versions[n].doc
  <2>1. RowsShaped
    BY DEF VersionsInv
  <2>2. Appends(Row(editor[e]))
    BY <1>1, <2>1, SaveAppends
  <2> QED
    BY <2>2 DEF Appends
<1>2. (\E e \in Editors : Audit(e) \/ Crash(e) \/ Edits(e)) \/ UNCHANGED vars
          => UNCHANGED versions
  BY DEF Audit, Crash, Edits, vars
<1> QED
  BY <1>1, <1>2, StepIs

(* Whatever edits, rollbacks and crashes there are, what was saved once    *)
(* stays as it was (save_policy_version).                                  *)
THEOREM VersionsAreAppended == Spec => HistoryIsAppendOnly
<1>1. VersionsInv /\ [Next]_vars =>
          [\A n \in DOMAIN versions :
               n \in DOMAIN versions' /\ versions'[n].doc = versions[n].doc]_versions
  BY HistoryKept
<1> QED
  BY <1>1, VersionsInvariant, PTL DEF Spec, HistoryIsAppendOnly

-----------------------------------------------------------------------------
(* Digests.                                                                *)
DigestsHeld == \A e \in Editors : BasedOnItsDigest(editor[e])

DigestsInv == VersionsInv /\ DigestsHeld /\ DigestHistoryIsLinear

(* The document readers take is that of the last row.                      *)
LEMMA ActiveDocIsLast ==
    ASSUME VersionsInv
    PROVE  ActiveDoc = IF versions = <<>> THEN canonical_policy_document
                       ELSE versions[Len(versions)].doc
<1>1. Len(versions) \in Nat /\ DOMAIN versions = 1..Len(versions)
  BY DEF VersionsInv, RowsShaped
<1>2. versions = <<>> <=> Len(versions) = 0
  BY DEF VersionsInv, RowsShaped
<1>3. ActiveRows = IF versions = <<>> THEN {} ELSE {Len(versions)}
  BY <1>1, <1>2 DEF VersionsInv, ActiveIsLatest, ActiveRows
<1> QED
  BY <1>1, <1>3 DEF ActiveDoc

LEMMA DigestsInvNext ==
    ASSUME DigestsInv, [Next]_vars
    PROVE  DigestsInv'
<1>1. VersionsInv /\ EditorsShaped /\ RowsShaped
  BY DEF DigestsInv, VersionsInv
<1>2. VersionsInv'
  BY <1>1, VersionsInvNext
<1>3. ASSUME NEW e \in Editors, NEW state, editor' = [editor EXCEPT ![e] = state],
             BasedOnItsDigest(state)
      PROVE  DigestsHeld'
  BY <1>1, <1>3, EditorMoves DEF DigestsInv, DigestsHeld, BasedOnItsDigest
<1>4. CASE UNCHANGED vars
  BY <1>2, <1>4 DEF vars, DigestsInv, DigestsHeld, BasedOnItsDigest,
                    DigestHistoryIsLinear, DocBefore
<1>5. ASSUME NEW e \in Editors, NEW state, editor' = [editor EXCEPT ![e] = state],
             state.pc # "holding", UNCHANGED versions
      PROVE  DigestsInv'
  BY <1>2, <1>3, <1>5 DEF DigestsInv, DigestHistoryIsLinear, DocBefore, BasedOnItsDigest
<1>6. ASSUME NEW e \in Editors, Save(e)
      PROVE  DigestsInv'
  <2> DEFINE h == editor[e]
             last == Len(versions) + 1
  <2>1. Appends(Row(h))
    BY <1>1, <1>6, SaveAppends
  <2>2. /\ Row(h).base = h.base /\ Row(h).op = h.request.op
        /\ Row(h).cas <=> h.expected # None
    BY DEF Row
  <2>3. h.pc = "holding" /\ (h.expected # None => h.expected = ActiveDoc)
        /\ BasedOnItsDigest(h)
    BY <1>6 DEF Save, Conflict, DigestsInv, DigestsHeld
  <2>4. ASSUME NEW n \in DOMAIN versions'
        PROVE  DocBefore(n)' = IF n = last THEN ActiveDoc ELSE DocBefore(n)
    <3>1. n = 1 => DocBefore(n)' = canonical_policy_document
      BY DEF DocBefore
    <3>2. n # 1 => n - 1 \in DOMAIN versions /\ DocBefore(n)' = versions[n - 1].doc
      BY <2>1, <2>4 DEF Appends, DocBefore
    <3>3. n = last => ActiveDoc = DocBefore(n)'
      <4>1. versions = <<>> <=> last = 1
        BY <1>1 DEF RowsShaped
      <4>2. last - 1 = Len(versions)
        BY <2>1 DEF Appends
      <4> QED
        BY <1>1, <3>1, <3>2, <4>1, <4>2, ActiveDocIsLast
    <3> QED
      BY <3>1, <3>2, <3>3 DEF DocBefore
  <2>5. ASSUME NEW n \in DOMAIN versions', versions'[n].cas, versions'[n].op # "simple"
        PROVE  versions'[n].base = DocBefore(n)'
    <3>1. CASE n = last
      <4>1. versions'[n] = Row(h)
        BY <2>1, <3>1 DEF Appends
      <4> QED
        BY <2>2, <2>3, <2>4, <2>5, <3>1, <4>1 DEF BasedOnItsDigest
    <3>2. CASE n # last
      <4>1. n \in DOMAIN versions
        BY <2>1, <2>5, <3>2 DEF Appends
      <4> QED
        BY <2>1, <2>4, <2>5, <3>2, <4>1 DEF Appends, DigestsInv, DigestHistoryIsLinear
    <3> QED
      BY <3>1, <3>2
  <2>6. DigestHistoryIsLinear'
    BY <2>5 DEF DigestHistoryIsLinear
  <2>7. DigestsHeld'
    <3> DEFINE state == [pc |-> "saved", version |-> last, audits |-> AuditsOf(h)]
    <3>1. editor' = [editor EXCEPT ![e] = state] /\ state.pc = "saved"
      BY <1>6 DEF Save, Goto
    <3> HIDE DEF state
    <3> QED
      BY <1>3, <3>1 DEF BasedOnItsDigest
  <2> QED
    BY <1>2, <2>6, <2>7 DEF DigestsInv
<1>7. ASSUME NEW e \in Editors, Audit(e)
      PROVE  DigestsInv'
  <2>1. UNCHANGED versions /\ editor[e].pc = "saved" /\ e \in Saving
    BY <1>7 DEF Audit, Saving
  <2>2. PICK state :
            /\ editor' = [editor EXCEPT ![e] = state]
            /\ \/ state = Resting
               \/ \E next : state = [editor[e] EXCEPT !.audits = @ \ {next}]
    BY <1>7 DEF Audit, Goto
  <2>3. PICK v, a : editor[e] = [pc |-> "saved", version |-> v, audits |-> a]
    BY <1>1, <2>1 DEF EditorsShaped
  <2>4. state.pc # "holding"
    BY <2>2, <2>3 DEF Resting
  <2> QED
    BY <1>5, <2>1, <2>2, <2>4
<1>8. ASSUME NEW e \in Editors, Crash(e)
      PROVE  DigestsInv'
  <2>1. editor' = [editor EXCEPT ![e] = Resting] /\ UNCHANGED versions
    BY <1>8 DEF Crash, Goto
  <2>2. Resting.pc # "holding"
    BY DEF Resting
  <2> QED
    BY <1>5, <2>1, <2>2
<1>9. ASSUME NEW e \in Editors, Edits(e)
      PROVE  DigestsInv'
  BY <1>2, <1>3, <1>9 DEF Edits, DigestsInv, DigestHistoryIsLinear, DocBefore
<1> QED
  BY <1>4, <1>6, <1>7, <1>8, <1>9, StepIs

(* A document posted with a digest, and a removal, continues the version   *)
(* just before it, however requests overlap (save_policy_version compares  *)
(* the digest in the transaction that saves).                              *)
THEOREM DigestsPreventLostEdits == Spec => []DigestHistoryIsLinear
<1>1. Init => DigestsInv
  <2> SUFFICES ASSUME Init PROVE DigestsInv
    OBVIOUS
  <2>1. DOMAIN versions = {} /\ \A e \in Editors : editor[e].pc = "idle"
    BY DEF Init, Resting
  <2> QED
    BY <2>1, VersionsInvInit DEF DigestsInv, DigestsHeld, BasedOnItsDigest,
                                DigestHistoryIsLinear
<1>2. DigestsInv => DigestHistoryIsLinear
  BY DEF DigestsInv
<1> QED
  BY <1>1, <1>2, DigestsInvNext, PTL DEF Spec

-----------------------------------------------------------------------------
(* Every version was validated by the transaction that saved it.           *)
Validated == VersionsInv /\ \A n \in DOMAIN versions : validate_policy(versions[n].doc)

LEMMA ValidatedNext ==
    ASSUME Validated, [Next]_vars
    PROVE  Validated'
<1>1. VersionsInv /\ RowsShaped /\ VersionsInv'
  BY VersionsInvNext DEF Validated, VersionsInv
<1>2. ASSUME NEW e \in Editors, Save(e)
      PROVE  Validated'
  <2>1. Appends(Row(editor[e]))
    BY <1>1, <1>2, SaveAppends
  <2>2. Row(editor[e]).doc = editor[e].doc /\ validate_policy(editor[e].doc)
    BY <1>2 DEF Save, Row
  <2>3. ASSUME NEW n \in DOMAIN versions'
        PROVE  validate_policy(versions'[n].doc)
    <3>1. \/ n \in DOMAIN versions /\ versions'[n].doc = versions[n].doc
          \/ versions'[n].doc = editor[e].doc
      BY <2>1, <2>2, <2>3 DEF Appends
    <3> QED
      BY <2>2, <3>1 DEF Validated
  <2> QED
    BY <1>1, <2>3 DEF Validated
<1>3. (\E e \in Editors : Audit(e) \/ Crash(e) \/ Edits(e)) \/ UNCHANGED vars
          => UNCHANGED versions
  BY DEF Audit, Crash, Edits, vars
<1>4. UNCHANGED versions => Validated'
  BY <1>1 DEF Validated
<1> QED
  BY <1>2, <1>3, <1>4, StepIs

(* Whatever requests, rollbacks and posted documents there are, the policy *)
(* readers take names registered accounts only and has one to route to     *)
(* (save_policy_version validates, _save_simple_models and _mutate_account *)
(* before it).                                                             *)
THEOREM PoliciesAreRoutable == Spec => [](ActiveIsLatest /\ VersionsRoutable)
<1>1. Init => Validated
  BY VersionsInvInit DEF Init, Validated
<1>2. Validated => ActiveIsLatest /\ VersionsRoutable
  <2> SUFFICES ASSUME Validated, NEW n \in DOMAIN versions
               PROVE  LET doc == versions[n].doc
                      IN  /\ \E a \in ToSet(doc.accounts) : Usable(a)
                          /\ \A r \in ToSet(doc.routes) :
                                 r.accounts # <<>> /\ ToSet(r.accounts) \subseteq Ids(doc)
    BY DEF Validated, VersionsInv, VersionsRoutable
  <2> QED
    BY DEF Validated, validate_policy, ValidRoute, Ids
<1> QED
  BY <1>1, <1>2, ValidatedNext, PTL DEF Spec

-----------------------------------------------------------------------------
(* Profiles.  An addition and an update look at the siblings in the        *)
(* document they change, other requests leave the profiles alone: whatever *)
(* two accounts share a profile afterwards did so before.                  *)
Listed(doc) == "accounts" \in DOMAIN doc /\ AccountsListed(doc.accounts)

SharesNoMore(new, old) ==
    /\ Listed(new)
    /\ \A i, j : ShareProfile(new.accounts, i, j) => ShareProfile(old.accounts, i, j)

LEMMA OfItsOwn ==
    ASSUME NEW S, NEW s \in Seq(S)
    PROVE  s \in Seq(ToSet(s)) /\ ToSet(s) \subseteq S
<1>1. Len(s) \in Nat /\ DOMAIN s = 1..Len(s) /\ \A i \in DOMAIN s : s[i] \in S
  OBVIOUS
<1>2. s \in [1..Len(s) -> S] /\ \A i \in DOMAIN s : s[i] \in ToSet(s)
  BY DEF ToSet
<1> DEFINE T == ToSet(s)
<1>3. s \in [1..Len(s) -> T]
  <2> HIDE DEF T
  <2> QED
    BY <1>1, <1>2 DEF T
<1> QED
  BY <1>1, <1>3 DEF ToSet

(* A registry of some accounts and one that shares no profile with another *)
(* of them, or only where the one of its id did.                           *)
LEMMA OneOtherShares ==
    ASSUME NEW doc, Listed(doc), NEW account, DOMAIN account = AccountKeys,
           NEW rest \in SUBSET ToSet(doc.accounts),
           \A a \in rest : a.id # account.id /\ a.profile = account.profile =>
               ShareProfile(doc.accounts, a.id, account.id),
           NEW new, "accounts" \in DOMAIN new, new.accounts \in Seq(rest \cup {account})
    PROVE  SharesNoMore(new, doc)
<1> DEFINE S == rest \cup {account}
           list == new.accounts
<1>1. list \in Seq(ToSet(list)) /\ ToSet(list) \subseteq S
  BY OfItsOwn
<1>2. \A a \in S : DOMAIN a = AccountKeys
  BY DEF Listed, AccountsListed
<1> HIDE DEF list
<1>3. AccountsListed(list)
  BY <1>1, <1>2 DEF AccountsListed
<1>4. ASSUME NEW i, NEW j, ShareProfile(list, i, j)
      PROVE  ShareProfile(doc.accounts, i, j)
  <2>1. PICK a, b \in S : a.id = i /\ b.id = j /\ i # j /\ a.profile = b.profile
    BY <1>1, <1>4 DEF ShareProfile
  <2>2. CASE a \in rest /\ b \in rest
    BY <2>1, <2>2 DEF ShareProfile
  <2>3. CASE a \in rest /\ b = account
    BY <2>1, <2>3
  <2>4. CASE b \in rest /\ a = account
    <3>1. ShareProfile(doc.accounts, j, i)
      BY <2>1, <2>4
    <3> QED
      BY <3>1 DEF ShareProfile
  <2> QED
    BY <2>1, <2>2, <2>3, <2>4
<1> QED
  BY <1>3, <1>4 DEF SharesNoMore, Listed, list

(* An account takes the place of that of its id.                           *)
LEMMA WithAccountShares ==
    ASSUME NEW doc, Listed(doc), NEW account, DOMAIN account = AccountKeys,
           \/ account.profile \notin Siblings(doc, account.id)
           \/ \E a \in ToSet(doc.accounts) :
                  a.id = account.id /\ a.profile = account.profile
    PROVE  SharesNoMore(WithAccount(doc, account), doc)
<1> DEFINE old == doc.accounts
           new == [i \in DOMAIN old |-> IF old[i].id = account.id THEN account ELSE old[i]]
           rest == {a \in ToSet(old) : a.id # account.id}
           S == rest \cup {account}
<1>1. /\ "accounts" \in DOMAIN WithAccount(doc, account)
      /\ WithAccount(doc, account).accounts = new
  BY DEF WithAccount, Listed
<1>2. Len(old) \in Nat /\ DOMAIN old = 1..Len(old)
  BY DEF Listed, AccountsListed
<1>3. \A i \in DOMAIN old : old[i] \in ToSet(old)
  BY DEF ToSet
<1>4. new \in [1..Len(old) -> S]
  <2>1. \A i \in DOMAIN old : new[i] \in S
    BY <1>3
  <2>2. DOMAIN new = DOMAIN old /\ new = [i \in DOMAIN old |-> new[i]]
    OBVIOUS
  <2> HIDE DEF new, S
  <2> QED
    BY <1>2, <2>1, <2>2
<1>5. new \in Seq(S)
  <2> HIDE DEF new, S
  <2> QED
    BY <1>2, <1>4
<1>6. \A a \in rest : a.id # account.id /\ a.profile = account.profile =>
          ShareProfile(old, a.id, account.id)
  BY DEF Siblings, ShareProfile
<1> HIDE DEF new
<1> QED
  BY <1>1, <1>5, <1>6, OneOtherShares

(* Routes are edited without the registry.                                 *)
LEMMA OnRoutesShares ==
    ASSUME NEW doc, NEW new, SharesNoMore(new, doc), NEW edited
    PROVE  SharesNoMore(OnRoutes(new, edited), doc)
BY DEF SharesNoMore, Listed, OnRoutes

LEMMA AccountIsThere ==
    ASSUME NEW doc, Listed(doc), NEW id \in Ids(doc)
    PROVE  /\ AccountOf(doc, id) \in ToSet(doc.accounts)
           /\ AccountOf(doc, id).id = id
           /\ DOMAIN AccountOf(doc, id) = AccountKeys
BY DEF Ids, AccountOf, Listed, AccountsListed

(* An edit is refused or brings no accounts to one profile.                *)
Brings(new, old) == new # Refused => SharesNoMore(new, old)

LEMMA CheckedShares ==
    ASSUME NEW doc, NEW new, SharesNoMore(new, doc)
    PROVE  Brings(Checked(new), doc)
BY DEF Brings, Checked

LEMMA AddShares ==
    ASSUME NEW doc, Listed(doc), NEW id, NEW profile, NEW models, NEW enabled,
           NEW priority
    PROVE  Brings(AddAccount(doc, id, profile, models, enabled, priority), doc)
<1> DEFINE next == 1 + Max({a.priority : a \in ToSet(doc.accounts)})
           attach == [r \in ToSet(doc.routes) |->
                         IF r.model \in models /\ ~Contains(r.accounts, id)
                           THEN [r EXCEPT !.accounts = Append(@, id)] ELSE r]
           account == [id |-> id, enabled |-> enabled, status |-> "tracked",
                       priority |-> IF priority = None THEN next ELSE priority,
                       profile |-> profile]
           added == [doc EXCEPT !.accounts = Append(@, account)]
           result == AddAccount(doc, id, profile, models, enabled, priority)
<1>1. \/ result = Refused
      \/ /\ id \notin Ids(doc) /\ profile \notin Siblings(doc, id)
         /\ result = Checked(OnRoutes(added, attach))
  BY DEF AddAccount
<1> HIDE DEF attach, next
<1>2. DOMAIN account = AccountKeys /\ account.profile = profile /\ account.id = id
  BY DEF AccountKeys
<1>3. "accounts" \in DOMAIN added /\ added.accounts = Append(doc.accounts, account)
  BY DEF Listed
<1> HIDE DEF account, added, result
<1>4. CASE id \notin Ids(doc) /\ profile \notin Siblings(doc, id)
  <2> DEFINE rest == ToSet(doc.accounts)
  <2>1. \A a \in rest : a.profile # account.profile
    BY <1>2, <1>4 DEF Ids, Siblings
  <2>2. doc.accounts \in Seq(rest \cup {account})
    <3>1. doc.accounts \in Seq(rest)
      BY DEF Listed, AccountsListed
    <3> HIDE DEF rest
    <3> QED
      BY <3>1
  <2>3. added.accounts \in Seq(rest \cup {account})
    <3> HIDE DEF rest
    <3> QED
      BY <1>3, <2>2
  <2>4. SharesNoMore(added, doc)
    BY <1>2, <1>3, <2>1, <2>3, OneOtherShares
  <2> QED
    BY <1>1, <2>4, OnRoutesShares, CheckedShares DEF Brings, result
<1> QED
  BY <1>1, <1>4 DEF Brings, result

LEMMA UpdateShares ==
    ASSUME NEW doc, Listed(doc), NEW id, NEW profile, NEW status, NEW enabled,
           NEW priority
    PROVE  Brings(UpdateAccount(doc, id, profile, status, enabled, priority), doc)
<1> DEFINE new(value, old) == IF value = None THEN old ELSE value
           before == AccountOf(doc, id)
           after == [before EXCEPT !.profile = new(profile, @),
                                   !.status = new(status, @),
                                   !.enabled = new(enabled, @),
                                   !.priority = new(priority, @)]
           result == UpdateAccount(doc, id, profile, status, enabled, priority)
<1>1. \/ result = Refused
      \/ /\ id \in Ids(doc) /\ after.profile \notin Siblings(doc, id)
         /\ result = Checked(WithAccount(doc, after))
  BY DEF UpdateAccount
<1>2. CASE id \in Ids(doc) /\ after.profile \notin Siblings(doc, id)
  <2>1. before.id = id /\ DOMAIN before = AccountKeys
    BY <1>2, AccountIsThere
  <2> HIDE DEF before
  <2>2. after.id = id /\ DOMAIN after = AccountKeys
    BY <2>1 DEF AccountKeys
  <2> HIDE DEF after, result
  <2> QED
    BY <1>1, <1>2, <2>2, WithAccountShares, CheckedShares DEF Brings, result
<1> QED
  BY <1>1, <1>2 DEF Brings

(* A change of an account that leaves its profile alone.                   *)
LEMMA SameProfileShares ==
    ASSUME NEW doc, Listed(doc), NEW id \in Ids(doc), NEW account,
           DOMAIN account = AccountKeys, account.id = id,
           account.profile = AccountOf(doc, id).profile
    PROVE  SharesNoMore(WithAccount(doc, account), doc)
BY AccountIsThere, WithAccountShares

LEMMA MoveShares ==
    ASSUME NEW doc, Listed(doc), NEW id, NEW priority
    PROVE  Brings(MoveAccount(doc, id, priority), doc)
<1> DEFINE before == AccountOf(doc, id)
           after == [before EXCEPT !.priority = priority]
<1>1. CASE id \in Ids(doc)
  <2>1. before.id = id /\ DOMAIN before = AccountKeys
    BY <1>1, AccountIsThere
  <2>2. after.id = id /\ after.profile = before.profile /\ DOMAIN after = AccountKeys
    <3> HIDE DEF before
    <3> QED
      BY <2>1 DEF AccountKeys
  <2>3. SharesNoMore(WithAccount(doc, after), doc)
    <3> HIDE DEF after
    <3> QED
      BY <1>1, <2>2, SameProfileShares
  <2>4. MoveAccount(doc, id, priority) = Checked(WithAccount(doc, after))
    BY <1>1 DEF MoveAccount
  <2> QED
    BY <2>3, <2>4, CheckedShares
<1> QED
  BY <1>1 DEF MoveAccount, Brings

LEMMA VerifyShares ==
    ASSUME NEW doc, Listed(doc), NEW id, NEW found
    PROVE  Brings(VerifyAccount(doc, id, found), doc)
<1> DEFINE before == AccountOf(doc, id)
           after == [before EXCEPT !.status = found]
<1>1. CASE id \in Ids(doc)
  <2>1. before.id = id /\ DOMAIN before = AccountKeys
    BY <1>1, AccountIsThere
  <2>2. after.id = id /\ after.profile = before.profile /\ DOMAIN after = AccountKeys
    <3> HIDE DEF before
    <3> QED
      BY <2>1 DEF AccountKeys
  <2>3. SharesNoMore(WithAccount(doc, after), doc)
    <3> HIDE DEF after
    <3> QED
      BY <1>1, <2>2, SameProfileShares
  <2>4. \/ VerifyAccount(doc, id, found) = Refused
        \/ VerifyAccount(doc, id, found) = Checked(WithAccount(doc, after))
    BY <1>1 DEF VerifyAccount
  <2> QED
    BY <2>3, <2>4, CheckedShares DEF Brings
<1> QED
  BY <1>1 DEF VerifyAccount, Brings

(* A document whose registry is of the accounts of another.                *)
LEMMA FewerShare ==
    ASSUME NEW doc, Listed(doc), NEW new, "accounts" \in DOMAIN new,
           new.accounts \in Seq(ToSet(doc.accounts))
    PROVE  SharesNoMore(new, doc)
<1> DEFINE list == new.accounts
           S == ToSet(doc.accounts)
<1>1. list \in Seq(ToSet(list)) /\ ToSet(list) \subseteq S
  BY OfItsOwn
<1> HIDE DEF list
<1> QED
  BY <1>1 DEF SharesNoMore, Listed, AccountsListed, ShareProfile, list

LEMMA RemoveShares ==
    ASSUME NEW doc, Listed(doc), NEW id, NEW detach
    PROVE  Brings(RemoveAccount(doc, id, detach), doc)
<1> DEFINE place == CHOOSE i \in DOMAIN doc.accounts : doc.accounts[i].id = id
           removed == [doc EXCEPT !.accounts = RemoveAt(@, place)]
           result == RemoveAccount(doc, id, detach)
<1>1. CASE id \in Ids(doc)
  <2>1. place \in DOMAIN doc.accounts
    BY <1>1 DEF Ids, ToSet
  <2>2. /\ "accounts" \in DOMAIN removed
        /\ removed.accounts = RemoveAt(doc.accounts, place)
    BY DEF Listed
  <2>3. result = Refused \/ \E edited : result = Checked(OnRoutes(removed, edited))
    BY DEF RemoveAccount
  <2> HIDE DEF place, removed, result
  <2>4. RemoveAt(doc.accounts, place) \in Seq(ToSet(doc.accounts))
    <3> DEFINE S == ToSet(doc.accounts)
    <3>1. doc.accounts \in Seq(S)
      BY DEF Listed, AccountsListed
    <3> HIDE DEF S
    <3> QED
      BY <2>1, <3>1 DEF RemoveAt, S
  <2>5. SharesNoMore(removed, doc)
    BY <2>2, <2>4, FewerShare
  <2> QED
    BY <2>3, <2>5, OnRoutesShares, CheckedShares DEF Brings, result
<1> QED
  BY <1>1 DEF RemoveAccount, Brings

LEMMA SimpleShares ==
    ASSUME NEW doc, Listed(doc), NEW models, NEW offered
    PROVE  Brings(SimpleModels(doc, models, offered), doc)
<1> DEFINE defaults == ("max_enabled_free_models" :> SIMPLE_CAP) @@ doc.defaults
           new == SimpleRoutes(doc, models)
           listed == [doc EXCEPT !.routes = new]
           edited == [listed EXCEPT !.defaults = defaults]
           result == SimpleModels(doc, models, offered)
<1>1. result = Refused \/ result = Checked(edited)
  BY DEF SimpleModels
<1> HIDE DEF defaults, new, result
<1>2. /\ "accounts" \in DOMAIN edited
      /\ edited.accounts = doc.accounts
  BY DEF Listed
<1> HIDE DEF edited
<1>3. SharesNoMore(edited, doc)
  BY <1>2 DEF SharesNoMore, Listed
<1> QED
  BY <1>1, <1>3, CheckedShares DEF Brings, result

LEMMA CandidateShares ==
    ASSUME NEW doc, Listed(doc), NEW q \in Requests, q.op # "post"
    PROVE  Brings(Candidate(doc, q), doc)
<1>1. q.op \in Operations
  BY VersionsAssumption
<1> QED
  BY <1>1, AddShares, UpdateShares, MoveShares, RemoveShares, VerifyShares,
     SimpleShares
  DEF Candidate, Operations

-----------------------------------------------------------------------------
(* What an editor looks at and what it holds: accounts that share a        *)
(* profile do so in a posted version, or in the document it is to post.    *)
Posted(i, j) ==
    \E m \in DOMAIN versions :
        versions[m].op = "post" /\ ShareProfile(versions[m].doc.accounts, i, j)

Known(doc) ==
    Listed(doc) /\ \A i, j : ShareProfile(doc.accounts, i, j) => Posted(i, j)

StateKnown(state) ==
    /\ state.pc = "looked" => state.request \in Requests /\ Known(state.seen)
    /\ state.pc = "holding" =>
           Listed(state.doc) /\ (state.request.op # "post" => Known(state.doc))

EditorsKnown == \A e \in Editors : StateKnown(editor[e])

RowsKnown ==
    \A n \in DOMAIN versions :
        /\ Listed(versions[n].doc)
        /\ \A i, j : ShareProfile(versions[n].doc.accounts, i, j) =>
               \E m \in 1..n : /\ versions[m].op = "post"
                               /\ ShareProfile(versions[m].doc.accounts, i, j)

PostedInv == VersionsInv /\ RowsKnown /\ EditorsKnown

LEMMA RowIsKnown ==
    ASSUME PostedInv, NEW n \in DOMAIN versions
    PROVE  Known(versions[n].doc)
<1>1. DOMAIN versions = 1..Len(versions) /\ Len(versions) \in Nat
  BY DEF PostedInv, VersionsInv, RowsShaped
<1> QED
  BY <1>1 DEF PostedInv, RowsKnown, Known, Posted

LEMMA ActiveIsKnown ==
    ASSUME PostedInv
    PROVE  Known(ActiveDoc)
<1>1. Known(canonical_policy_document)
  <2>1. /\ "accounts" \in DOMAIN canonical_policy_document
        /\ canonical_policy_document.accounts = CanonicalAccounts
    BY DEF canonical_policy_document
  <2>2. AccountsListed(CanonicalAccounts)
        /\ \A i, j : ~ShareProfile(CanonicalAccounts, i, j)
    BY VersionsAssumption DEF ShareProfile
  <2> QED
    BY <2>1, <2>2 DEF Known, Listed
<1>2. versions # <<>> => Len(versions) \in DOMAIN versions
  BY DEF PostedInv, VersionsInv, RowsShaped
<1> QED
  BY <1>1, <1>2, ActiveDocIsLast, RowIsKnown DEF PostedInv

LEMMA KnownEdits ==
    ASSUME NEW doc, Known(doc), NEW q \in Requests, Candidate(doc, q) # Refused
    PROVE  /\ Listed(Candidate(doc, q))
           /\ q.op # "post" => Known(Candidate(doc, q))
<1>1. CASE q.op = "post"
  <2>1. Candidate(doc, q) = q.doc
    BY <1>1 DEF Candidate
  <2> QED
    BY <1>1, <2>1, VersionsAssumption DEF Listed
<1>2. CASE q.op # "post"
  BY <1>2, CandidateShares DEF Brings, SharesNoMore, Known
<1> QED
  BY <1>1, <1>2

(* What a request's first steps do.                                        *)
LEMMA RequestsKeepKnown ==
    ASSUME PostedInv, NEW e \in Editors,
           \/ \E q \in Requests : Look(e, q)
           \/ \E n \in DOMAIN versions : BeginRollback(e, n)
           \/ \E d \in BOOLEAN : BeginSave(e, d) \/ BeginMutation(e, d)
           \/ BeginCliSave(e)
    PROVE  \E state : Goto(e, state) /\ StateKnown(state) /\ UNCHANGED versions
<1>1. Known(ActiveDoc)
  BY ActiveIsKnown
<1>2. Resting.pc = "idle" /\ StateKnown(Resting)
  BY DEF Resting, StateKnown
<1>3. \A q, base, doc, expected, audits :
          Listed(doc) /\ (q.op # "post" => Known(doc)) =>
              StateKnown(Hold(q, base, doc, expected, audits))
  BY DEF Hold, StateKnown
<1>4. ASSUME NEW q \in Requests, Look(e, q)
      PROVE  \E state : Goto(e, state) /\ StateKnown(state) /\ UNCHANGED versions
  <2> DEFINE state == [pc |-> "looked", request |-> q, seen |-> ActiveDoc]
  <2>1. StateKnown(state)
    BY <1>1 DEF StateKnown
  <2>2. Goto(e, state) /\ UNCHANGED versions
    BY <1>4 DEF Look
  <2> HIDE DEF state
  <2> QED
    BY <2>1, <2>2
<1>5. ASSUME NEW n \in DOMAIN versions, BeginRollback(e, n)
      PROVE  \E state : Goto(e, state) /\ StateKnown(state) /\ UNCHANGED versions
  <2>1. Known(versions[n].doc) /\ Listed(versions[n].doc)
    BY RowIsKnown DEF Known
  <2>2. /\ UNCHANGED versions
        /\ \E q, base, expected, audits :
               Goto(e, Hold(q, base, versions[n].doc, expected, audits))
    BY <1>5 DEF BeginRollback
  <2> QED
    BY <1>3, <2>1, <2>2
<1>6. ASSUME \/ \E d \in BOOLEAN : BeginSave(e, d) \/ BeginMutation(e, d)
             \/ BeginCliSave(e)
      PROVE  \E state : Goto(e, state) /\ StateKnown(state) /\ UNCHANGED versions
  <2> DEFINE q == editor[e].request
             began(doc) == \/ Goto(e, Resting)
                           \/ /\ doc # Refused
                              /\ \E base, expected, audits :
                                     Goto(e, Hold(q, base, doc, expected, audits))
  <2>1. q \in Requests /\ Known(editor[e].seen)
    BY <1>6 DEF BeginSave, BeginMutation, BeginCliSave, PostedInv, EditorsKnown,
                StateKnown
  <2>2. /\ UNCHANGED versions
        /\ began(Candidate(editor[e].seen, q)) \/ began(Candidate(ActiveDoc, q))
    BY <1>6 DEF BeginSave, BeginMutation, BeginCliSave
  <2>3. ASSUME NEW doc, Known(doc), began(Candidate(doc, q))
        PROVE  \E state : Goto(e, state) /\ StateKnown(state)
    <3>1. CASE Goto(e, Resting)
      BY <1>2, <3>1
    <3>2. CASE Candidate(doc, q) # Refused /\ ~Goto(e, Resting)
      BY <1>3, <2>1, <2>3, <3>2, KnownEdits
    <3> QED
      BY <2>3, <3>1, <3>2
  <2> HIDE DEF began
  <2> QED
    BY <1>1, <2>1, <2>2, <2>3
<1> QED
  BY <1>4, <1>5, <1>6

(* Saved rows stay, so what is known stays known.                          *)
LEMMA KnownStays ==
    ASSUME VersionsInv, [Next]_vars, NEW doc, Known(doc)
    PROVE  Known(doc)'
<1>1. ASSUME NEW e \in Editors, Save(e)
      PROVE  \A m \in DOMAIN versions :
                 /\ m \in DOMAIN versions' /\ versions'[m].op = versions[m].op
                 /\ versions'[m].doc = versions[m].doc
  <2>1. Appends(Row(editor[e]))
    BY <1>1, SaveAppends DEF VersionsInv
  <2> QED
    BY <2>1 DEF Appends
<1>2. (\E e \in Editors : Audit(e) \/ Crash(e) \/ Edits(e)) \/ UNCHANGED vars
          => UNCHANGED versions
  BY DEF Audit, Crash, Edits, vars
<1>3. \A m \in DOMAIN versions :
          /\ m \in DOMAIN versions' /\ versions'[m].op = versions[m].op
          /\ versions'[m].doc = versions[m].doc
  BY <1>1, <1>2, StepIs
<1> QED
  BY <1>3 DEF Known, Posted

LEMMA PostedInvNext ==
    ASSUME PostedInv, [Next]_vars
    PROVE  PostedInv'
<1>1. VersionsInv /\ RowsShaped /\ EditorsShaped /\ VersionsInv'
  BY VersionsInvNext DEF PostedInv, VersionsInv
<1>2. \A doc : Known(doc) => Known(doc)'
  BY <1>1, KnownStays
<1>3. ASSUME NEW state, StateKnown(state)
      PROVE  StateKnown(state)'
  BY <1>2, <1>3 DEF StateKnown
<1>4. CASE UNCHANGED vars
  <2>1. EditorsKnown'
    BY <1>3, <1>4 DEF EditorsKnown, PostedInv, vars
  <2> QED
    BY <1>1, <1>4, <2>1 DEF PostedInv, RowsKnown, vars
<1>5. ASSUME NEW e \in Editors, NEW state, Goto(e, state), StateKnown(state)
      PROVE  EditorsKnown'
  <2>1. editor'[e] = state /\ \A x \in Editors : x # e => editor'[x] = editor[x]
    BY <1>1, <1>5, EditorMoves DEF Goto
  <2> QED
    BY <1>3, <1>5, <2>1 DEF EditorsKnown, PostedInv
<1>6. ASSUME NEW e \in Editors, Save(e)
      PROVE  PostedInv'
  <2> DEFINE h == editor[e]
             last == Len(versions) + 1
  <2>1. /\ Row(h).doc = h.doc /\ Row(h).op = h.request.op
        /\ Listed(h.doc) /\ (h.request.op # "post" => Known(h.doc))
    BY <1>6 DEF PostedInv, EditorsKnown, StateKnown, Save, Row
  <2>2. Appends(Row(h))
    BY <1>1, <1>6, SaveAppends
  <2> HIDE DEF h
  <2>3. ASSUME NEW n \in DOMAIN versions'
        PROVE  /\ Listed(versions'[n].doc)
               /\ \A i, j : ShareProfile(versions'[n].doc.accounts, i, j) =>
                      \E m \in 1..n : /\ versions'[m].op = "post"
                                      /\ ShareProfile(versions'[m].doc.accounts, i, j)
    <3>1. CASE n \in DOMAIN versions
      <4>1. \A m \in 1..n : /\ m \in DOMAIN versions
                            /\ versions'[m].op = versions[m].op
                            /\ versions'[m].doc = versions[m].doc
        BY <2>2, <3>1 DEF Appends
      <4>2. n \in 1..n
        BY <2>2, <3>1 DEF Appends
      <4> QED
        BY <3>1, <4>1, <4>2 DEF PostedInv, RowsKnown
    <3>2. CASE n = last
      <4>1. versions'[n].doc = h.doc /\ versions'[n].op = h.request.op
        BY <2>1, <2>2, <3>2 DEF Appends
      <4>2. CASE h.request.op = "post"
        BY <2>1, <2>2, <3>2, <4>1, <4>2 DEF Appends
      <4>3. CASE h.request.op # "post"
        <5>1. \A m \in DOMAIN versions : /\ m \in 1..n
                                         /\ versions'[m].op = versions[m].op
                                         /\ versions'[m].doc = versions[m].doc
          BY <2>2, <3>2 DEF Appends
        <5> QED
          BY <2>1, <4>1, <4>3, <5>1 DEF Known, Posted
      <4> QED
        BY <4>2, <4>3
    <3> QED
      BY <2>2, <3>1, <3>2 DEF Appends
  <2>4. RowsKnown'
    BY <2>3 DEF RowsKnown, Listed
  <2> DEFINE state == [pc |-> "saved", version |-> Len(versions) + 1,
                       audits |-> AuditsOf(editor[e])]
  <2>5. Goto(e, state) /\ StateKnown(state)
    BY <1>6 DEF Save, StateKnown
  <2> HIDE DEF state
  <2> QED
    BY <1>1, <1>5, <2>4, <2>5 DEF PostedInv
<1>7. ASSUME NEW e \in Editors, NEW state, Goto(e, state), StateKnown(state),
             UNCHANGED versions
      PROVE  PostedInv'
  BY <1>1, <1>5, <1>7 DEF PostedInv, RowsKnown
<1>8. StateKnown(Resting)
  BY DEF StateKnown, Resting
<1>9. ASSUME NEW e \in Editors, Refuse(e) \/ Crash(e)
      PROVE  PostedInv'
  BY <1>7, <1>8, <1>9 DEF Refuse, Crash
<1>10. ASSUME NEW e \in Editors, Audit(e)
      PROVE  PostedInv'
  <2>1. /\ editor[e].pc = "saved" /\ UNCHANGED versions
        /\ \/ Goto(e, Resting)
           \/ \E next : Goto(e, [editor[e] EXCEPT !.audits = @ \ {next}])
    BY <1>10 DEF Audit
  <2>2. \A next : [editor[e] EXCEPT !.audits = @ \ {next}].pc = "saved"
    <3>1. DOMAIN editor[e] = {"pc", "version", "audits"}
      BY <1>1, <2>1 DEF EditorsShaped, Saving
    <3> QED
      BY <2>1, <3>1
  <2>3. \A next : StateKnown([editor[e] EXCEPT !.audits = @ \ {next}])
    BY <2>2 DEF StateKnown
  <2> QED
    BY <1>7, <1>8, <2>1, <2>3
<1> QED
  BY <1>4, <1>6, <1>7, <1>9, <1>10, RequestsKeepKnown DEF Next, Step

(* Through additions, updates, removals, posted documents, rollbacks and   *)
(* crashes in any order, two accounts of a saved policy share a profile    *)
(* only if they did so in a posted document (_mutate_account refuses a     *)
(* profile a sibling maps, validate_policy does not look).                 *)
THEOREM SharedProfilesArePosted == Spec => []SharedProfilesWerePosted
<1>1. Init => PostedInv
  <2> SUFFICES ASSUME Init PROVE PostedInv
    OBVIOUS
  <2>1. DOMAIN versions = {} /\ \A e \in Editors : editor[e].pc = "idle"
    BY DEF Init, Resting
  <2> QED
    BY <2>1, VersionsInvInit DEF PostedInv, RowsKnown, EditorsKnown, StateKnown
<1>2. PostedInv => SharedProfilesWerePosted
  BY DEF PostedInv, RowsKnown, SharedProfilesWerePosted
<1> QED
  BY <1>1, <1>2, PostedInvNext, PTL DEF Spec

-----------------------------------------------------------------------------
(* Audit events.  A version without its policy.saved event is paid for by  *)
(* an editor that has not told of it yet, or by one that died.             *)
Note == [type |-> "policy.saved", account |-> None]

Untold == {e \in Saving : Note \in editor[e].audits}
Unlogged == {n \in DOMAIN versions : Saved(n) \notin log}

OwnVersions ==
    /\ \A x, y \in Saving : editor[x].version = editor[y].version => x = y
    /\ \A e \in Untold : Saved(editor[e].version) \notin log
    /\ \A x \in log : x.version \in DOMAIN versions

AuditsCounted ==
    /\ IsFiniteSet(Saving)
    /\ crashes \in Nat
    /\ Cardinality(Unlogged) <= crashes + Cardinality(Untold)

AuditsInv == VersionsInv /\ OwnVersions /\ AuditsCounted

(* The sets that are counted are finite.                                   *)
LEMMA CountedAreFinite ==
    ASSUME VersionsInv, IsFiniteSet(Saving)
    PROVE  /\ IsFiniteSet(Unlogged) /\ Cardinality(Unlogged) \in Nat
           /\ IsFiniteSet(Untold) /\ Cardinality(Untold) \in Nat
           /\ Cardinality(Untold) <= Cardinality(Saving)
           /\ Cardinality(Saving) \in Nat
<1>1. Len(versions) \in Nat /\ DOMAIN versions = 1..Len(versions)
  BY DEF VersionsInv, RowsShaped
<1>2. IsFiniteSet(DOMAIN versions)
  BY <1>1, FS_Interval
<1>3. Unlogged \subseteq DOMAIN versions /\ Untold \subseteq Saving
  BY DEF Unlogged, Untold
<1>4. IsFiniteSet(Unlogged) /\ IsFiniteSet(Untold)
      /\ Cardinality(Untold) <= Cardinality(Saving)
  BY <1>2, <1>3, FS_Subset
<1> QED
  BY <1>4, FS_CardinalityType

LEMMA SaveCounts ==
    ASSUME AuditsInv, NEW e \in Editors, Save(e), VersionsInv'
    PROVE  AuditsInv'
<1> DEFINE last == Len(versions) + 1
           state == [pc |-> "saved", version |-> last, audits |-> AuditsOf(editor[e])]
<1>1. VersionsInv /\ OwnVersions /\ AuditsCounted /\ RowsShaped /\ EditorsShaped
  BY DEF AuditsInv, VersionsInv
<1>2. Appends(Row(editor[e]))
  BY <1>1, SaveAppends
<1>3. DOMAIN versions' = DOMAIN versions \cup {last} /\ last \notin DOMAIN versions
  BY <1>2 DEF Appends
<1>4. /\ editor' = [editor EXCEPT ![e] = state] /\ log' = log /\ crashes' = crashes
      /\ editor[e].pc = "holding"
  BY DEF Save, Goto
<1>5. state.pc = "saved" /\ state.version = last /\ Note \in state.audits
  BY DEF AuditsOf, Note
<1> HIDE DEF state
<1>6. editor'[e] = state /\ \A x \in Editors : x # e => editor'[x] = editor[x]
  BY <1>1, <1>4, EditorMoves
<1>7. e \notin Saving /\ Saving' = Saving \cup {e}
  BY <1>4, <1>5, <1>6 DEF Saving
<1>8. Untold' = Untold \cup {e} /\ e \notin Untold
  BY <1>5, <1>6, <1>7 DEF Untold, Saving
<1>9. \A n : Saved(n).version = n
  BY DEF Saved
<1>10. Saved(last) \notin log
  BY <1>1, <1>3, <1>9 DEF OwnVersions
<1>11. Unlogged' = Unlogged \cup {last} /\ last \notin Unlogged
  BY <1>3, <1>4, <1>10 DEF Unlogged
<1>12. OwnVersions'
  <2>1. \A x \in Saving : editor[x].version \in DOMAIN versions
    BY <1>1 DEF EditorsShaped
  <2>2. \A x, y \in Saving' : editor'[x].version = editor'[y].version => x = y
    BY <1>1, <1>3, <1>5, <1>6, <1>7, <2>1 DEF OwnVersions, Saving
  <2>3. \A x \in Untold' : Saved(editor'[x].version) \notin log'
    BY <1>1, <1>4, <1>5, <1>6, <1>8, <1>10 DEF OwnVersions, Untold, Saving
  <2>4. \A x \in log' : x.version \in DOMAIN versions'
    BY <1>1, <1>3, <1>4 DEF OwnVersions
  <2> QED
    BY <2>2, <2>3, <2>4 DEF OwnVersions
<1>13. AuditsCounted'
  <2>1. IsFiniteSet(Saving')
    BY <1>1, <1>7, FS_AddElement DEF AuditsCounted
  <2>2. /\ Cardinality(Unlogged') = Cardinality(Unlogged) + 1
        /\ Cardinality(Untold') = Cardinality(Untold) + 1
    BY <1>1, <1>8, <1>11, CountedAreFinite, FS_AddElement DEF AuditsCounted
  <2>3. Cardinality(Unlogged) \in Nat /\ Cardinality(Untold) \in Nat
    BY <1>1, CountedAreFinite DEF AuditsCounted
  <2> QED
    BY <1>1, <1>4, <2>1, <2>2, <2>3 DEF AuditsCounted
<1> QED
  BY <1>12, <1>13 DEF AuditsInv

(* An editor leaves, having told of its version or as one that died.       *)
LEMMA LeavingCounts ==
    ASSUME AuditsInv, NEW e \in Editors, VersionsInv',
           editor' = [editor EXCEPT ![e] = Resting],
           UNCHANGED <<versions, log>>, crashes' \in Nat,
           crashes' = crashes + 1 \/ (crashes' = crashes /\ e \notin Untold)
    PROVE  AuditsInv'
<1>1. VersionsInv /\ OwnVersions /\ AuditsCounted /\ EditorsShaped
  BY DEF AuditsInv, VersionsInv
<1>2. editor'[e] = Resting /\ \A x \in Editors : x # e => editor'[x] = editor[x]
  BY <1>1, EditorMoves
<1>3. Resting.pc # "saved"
  BY DEF Resting
<1>4. Saving' = Saving \ {e}
  BY <1>2, <1>3 DEF Saving
<1>5. Untold' = Untold \ {e}
  BY <1>2, <1>4 DEF Untold, Saving
<1>6. OwnVersions'
  BY <1>1, <1>2, <1>4, <1>5 DEF OwnVersions, Saving, Untold
<1>7. Unlogged' = Unlogged
  BY DEF Unlogged
<1>8. AuditsCounted'
  <2>1. IsFiniteSet(Saving')
    BY <1>1, <1>4, FS_RemoveElement DEF AuditsCounted
  <2>2. Cardinality(Untold') = IF e \in Untold THEN Cardinality(Untold) - 1
                               ELSE Cardinality(Untold)
    BY <1>1, <1>5, CountedAreFinite, FS_RemoveElement DEF AuditsCounted
  <2>3. Cardinality(Unlogged) \in Nat /\ Cardinality(Untold) \in Nat
    BY <1>1, CountedAreFinite DEF AuditsCounted
  <2> QED
    BY <1>1, <1>7, <2>1, <2>2, <2>3 DEF AuditsCounted
<1> QED
  BY <1>6, <1>8 DEF AuditsInv

LEMMA AuditCounts ==
    ASSUME AuditsInv, NEW e \in Editors, Audit(e), editor[e].audits # {}, VersionsInv'
    PROVE  AuditsInv'
<1> DEFINE h == editor[e]
           next == IF Note \in h.audits THEN Note ELSE CHOOSE a \in h.audits : TRUE
           event == [type |-> next.type, account |-> next.account, version |-> h.version]
<1>1. VersionsInv /\ OwnVersions /\ AuditsCounted /\ EditorsShaped
  BY DEF AuditsInv, VersionsInv
<1>2. /\ h.pc = "saved" /\ log' = log \cup {event}
      /\ editor' = [editor EXCEPT ![e] = [h EXCEPT !.audits = @ \ {next}]]
      /\ versions' = versions /\ crashes' = crashes
  BY DEF Audit, Goto, Note
<1>3. e \in Saving
  BY <1>2 DEF Saving
<1>4. h = [pc |-> "saved", version |-> h.version, audits |-> h.audits]
      /\ h.version \in DOMAIN versions
  BY <1>1, <1>3 DEF EditorsShaped
<1>5. event.version = h.version
      /\ (next = Note => event = Saved(h.version))
  BY DEF Note, Saved
<1>6. Note \in h.audits => next = Note
  OBVIOUS
<1> HIDE DEF next
<1> DEFINE state == [h EXCEPT !.audits = @ \ {next}]
<1>7. state.pc = "saved" /\ state.version = h.version /\ state.audits = h.audits \ {next}
  <2>1. DOMAIN h = {"pc", "version", "audits"} /\ h.pc = "saved"
    BY <1>4
  <2> HIDE DEF h
  <2> QED
    BY <2>1
<1> HIDE DEF state, event
<1>8. editor' = [editor EXCEPT ![e] = state]
  BY <1>2 DEF state
<1>9. editor'[e] = state /\ \A x \in Editors : x # e => editor'[x] = editor[x]
  BY <1>1, <1>8, EditorMoves
<1>10. Saving' = Saving /\ \A x \in Saving : editor'[x].version = editor[x].version
  BY <1>3, <1>7, <1>9 DEF Saving
<1>11. Untold' = Untold \ {e}
  BY <1>3, <1>6, <1>7, <1>9, <1>10 DEF Untold, Saving
<1>12. \A n : Saved(n) = event => n = h.version
  BY <1>5 DEF Saved
<1>13. OwnVersions'
  <2>1. \A x \in Untold' : Saved(editor'[x].version) \notin log'
    BY <1>1, <1>2, <1>3, <1>10, <1>11, <1>12 DEF OwnVersions, Untold
  <2>2. \A x \in log' : x.version \in DOMAIN versions'
    BY <1>1, <1>2, <1>4, <1>5 DEF OwnVersions
  <2> QED
    BY <1>1, <1>10, <2>1, <2>2 DEF OwnVersions
<1>14. IF e \in Untold THEN Unlogged' = Unlogged \ {h.version} /\ h.version \in Unlogged
       ELSE Untold' = Untold /\ Unlogged' \subseteq Unlogged
  <2>1. e \in Untold => next = Note /\ event = Saved(h.version)
    BY <1>5, <1>6 DEF Untold
  <2>2. e \in Untold => Saved(h.version) \notin log
    BY <1>1 DEF OwnVersions
  <2> QED
    BY <1>2, <1>4, <1>11, <1>12, <2>1, <2>2 DEF Unlogged
<1>15. /\ Cardinality(Unlogged) \in Nat /\ Cardinality(Untold) \in Nat
       /\ IsFiniteSet(Unlogged) /\ IsFiniteSet(Untold)
  BY <1>1, CountedAreFinite DEF AuditsCounted
<1>16. AuditsCounted'
  <2>1. CASE e \in Untold
    <3>1. /\ Cardinality(Unlogged') = Cardinality(Unlogged) - 1
          /\ Cardinality(Untold') = Cardinality(Untold) - 1
      BY <1>11, <1>14, <1>15, <2>1, FS_RemoveElement
    <3> QED
      BY <1>1, <1>2, <1>10, <1>15, <3>1 DEF AuditsCounted
  <2>2. CASE e \notin Untold
    <3>1. Cardinality(Unlogged') <= Cardinality(Unlogged) /\ IsFiniteSet(Unlogged')
      BY <1>14, <1>15, <2>2, FS_Subset
    <3>2. Cardinality(Unlogged') \in Nat
      BY <3>1, FS_CardinalityType
    <3> QED
      BY <1>1, <1>2, <1>10, <1>14, <1>15, <2>2, <3>1, <3>2 DEF AuditsCounted
  <2> QED
    BY <2>1, <2>2
<1> QED
  BY <1>13, <1>16 DEF AuditsInv

LEMMA AuditsInvNext ==
    ASSUME AuditsInv, [Next]_vars
    PROVE  AuditsInv'
<1>1. VersionsInv /\ EditorsShaped /\ OwnVersions /\ AuditsCounted
  BY DEF AuditsInv, VersionsInv
<1>2. VersionsInv'
  BY <1>1, VersionsInvNext
<1>3. ASSUME UNCHANGED <<versions, log, crashes>>, Saving' = Saving,
             \A e \in Saving : editor'[e] = editor[e]
      PROVE  AuditsInv'
  <2>1. Untold' = Untold /\ Unlogged' = Unlogged
    BY <1>3 DEF Untold, Unlogged
  <2>2. Untold \subseteq Saving
    BY DEF Untold
  <2>3. OwnVersions'
    BY <1>1, <1>3, <2>1, <2>2 DEF OwnVersions
  <2>4. AuditsCounted'
    BY <1>1, <1>3, <2>1 DEF AuditsCounted
  <2> QED
    BY <1>2, <2>3, <2>4 DEF AuditsInv
<1>4. CASE UNCHANGED vars
  BY <1>3, <1>4 DEF vars, Saving
<1>5. ASSUME NEW e \in Editors, Audit(e)
      PROVE  AuditsInv'
  <2>1. CASE editor[e].audits # {}
    BY <1>2, <1>5, <2>1, AuditCounts
  <2>2. CASE editor[e].audits = {}
    <3>1. /\ editor' = [editor EXCEPT ![e] = Resting] /\ UNCHANGED <<versions, log>>
          /\ crashes' = crashes
      BY <1>5, <2>2 DEF Audit, Goto
    <3>2. crashes' \in Nat /\ e \notin Untold
      BY <1>1, <2>2, <3>1 DEF AuditsCounted, Untold
    <3> QED
      BY <1>2, <3>1, <3>2, LeavingCounts
  <2> QED
    BY <2>1, <2>2
<1>6. ASSUME NEW e \in Editors, Crash(e)
      PROVE  AuditsInv'
  <2>1. /\ editor' = [editor EXCEPT ![e] = Resting] /\ UNCHANGED <<versions, log>>
        /\ crashes' = crashes + 1
    BY <1>6 DEF Crash, Goto
  <2>2. crashes' \in Nat
    BY <1>1, <2>1 DEF AuditsCounted
  <2> QED
    BY <1>2, <2>1, <2>2, LeavingCounts
<1>7. ASSUME NEW e \in Editors, Edits(e)
      PROVE  AuditsInv'
  <2>1. PICK state : editor' = [editor EXCEPT ![e] = state] /\ state.pc # "saved"
    BY <1>7 DEF Edits
  <2>2. editor'[e] = state /\ \A x \in Editors : x # e => editor'[x] = editor[x]
    BY <1>1, <2>1, EditorMoves
  <2> QED
    BY <1>3, <1>7, <2>1, <2>2 DEF Edits, Saving
<1> QED
  BY <1>2, <1>4, <1>5, <1>6, <1>7, SaveCounts, StepIs

(* Whatever editors do and in whatever order, at most one version per      *)
(* crash has lost its audit event for good (save_policy ingests it after   *)
(* the transaction that saved the version).                                *)
THEOREM AuditsFollowSaves == Spec => []OnlyCrashesLoseAudits
<1>1. Init => AuditsInv
  <2> SUFFICES ASSUME Init PROVE AuditsInv
    OBVIOUS
  <2>1. Saving = {} /\ Untold = {} /\ Unlogged = {} /\ log = {} /\ crashes = 0
    BY DEF Init, Saving, Untold, Unlogged, Resting
  <2> QED
    BY <2>1, VersionsInvInit, FS_EmptySet DEF AuditsInv, OwnVersions, AuditsCounted
<1>2. AuditsInv => OnlyCrashesLoseAudits
  <2> SUFFICES ASSUME AuditsInv PROVE OnlyCrashesLoseAudits
    OBVIOUS
  <2>1. VersionsInv /\ AuditsCounted
    BY DEF AuditsInv
  <2>2. /\ Cardinality(Unlogged) \in Nat /\ Cardinality(Untold) \in Nat
        /\ Cardinality(Saving) \in Nat /\ Cardinality(Untold) <= Cardinality(Saving)
    BY <2>1, CountedAreFinite DEF AuditsCounted
  <2>3. Cardinality(Unlogged) <= crashes + Cardinality(Saving)
    BY <2>1, <2>2 DEF AuditsCounted
  <2> QED
    BY <2>3 DEF OnlyCrashesLoseAudits, Unlogged, Saving
<1> QED
  BY <1>1, <1>2, AuditsInvNext, PTL DEF Spec
=============================================================================
