--------------------------- MODULE PolicyVersions ---------------------------
(***************************************************************************)
(* The versioned policy: an append-only table of documents of which the    *)
(* last is active, and the editors that append to it.                      *)
(*                                                                         *)
(* An editor is one request, from the dashboard or the command line.  The  *)
(* author looks at a policy (Look), the handler reads the active one       *)
(* (Begin), saves its candidate in one transaction (Save) and ingests the  *)
(* audit events one by one (Audit).  Editors interleave at every step and  *)
(* die at any of them.                                                     *)
(***************************************************************************)
EXTENDS AccountEdits

CONSTANTS
    Editors,            \* requests in flight
    Requests,           \* what they may ask: see Candidate
    OfferedModels,      \* the free models the provider offers
    ProfileFiles,       \* profile -> [dirs, auth]: what is on the disk
    MaxVersions,        \* bound: versions saved
    MaxCrashes          \* bound: editors that die

Operations == {"add", "update", "move", "remove", "verify", "simple", "post"}

AccountKeys == {"id", "enabled", "status", "priority", "profile"}

(* The registry of a document.  An account without a profile maps the one  *)
(* of its own name, and is written with it here.                           *)
AccountsListed(accounts) ==
    /\ accounts \in Seq(ToSet(accounts))
    /\ \A a \in ToSet(accounts) : DOMAIN a = AccountKeys

(* Two accounts map one profile.                                           *)
ShareProfile(accounts, i, j) ==
    /\ i # j
    /\ \E a, b \in ToSet(accounts) : a.id = i /\ b.id = j /\ a.profile = b.profile

ASSUME VersionsAssumption ==
    /\ validate_policy(canonical_policy_document)
    /\ AccountsListed(CanonicalAccounts)
    /\ \A a, b \in ToSet(CanonicalAccounts) : ~ShareProfile(CanonicalAccounts, a.id, b.id)
    /\ \A q \in Requests :
           /\ q.op \in Operations
           /\ q.op = "post" => "accounts" \in DOMAIN q.doc /\ AccountsListed(q.doc.accounts)
    /\ {MaxVersions, MaxCrashes} \subseteq Nat

VARIABLES
    versions,           \* rows of policy_versions: doc, active; and, for the
                        \* properties, the request's op, the document it was
                        \* based on and whether a digest came with it
    log,                \* audit events: [type, version] and account events
    checked,            \* profiles verified: [account, profile]
    editor,             \* editor -> its step and what it holds
    crashes

vars == <<versions, log, checked, editor, crashes>>

Resting == [pc |-> "idle"]

Init ==
    /\ versions = <<>>
    /\ log = {}
    /\ checked = {}
    /\ editor = [e \in Editors |-> Resting]
    /\ crashes = 0

-----------------------------------------------------------------------------
(* active_policy_doc: the active row, or the canonical document.           *)
ActiveRows == {n \in DOMAIN versions : versions[n].active}

ActiveDoc ==
    IF ActiveRows = {} THEN canonical_policy_document
    ELSE versions[CHOOSE n \in ActiveRows : \A m \in ActiveRows : m <= n].doc

Goto(e, state) == editor' = [editor EXCEPT ![e] = state]

(* What a request makes of the policy it starts from.                      *)
Candidate(doc, q) ==
    CASE q.op = "add"    -> AddAccount(doc, q.id, q.profile, q.models, q.enabled,
                                       q.priority)
      [] q.op = "update" -> UpdateAccount(doc, q.id, q.profile, q.status,
                                          q.enabled, None)
      [] q.op = "move"   -> MoveAccount(doc, q.id, q.priority)
      [] q.op = "remove" -> RemoveAccount(doc, q.id, q.detach)
      [] q.op = "verify" -> VerifyAccount(doc, q.id,
             LET files == ProfileFiles[AccountOf(doc, q.id).profile]
             IN  _profile_check(files.dirs, files.auth))
      [] q.op = "simple" -> SimpleModels(doc, q.models, OfferedModels)
      [] q.op = "post"   -> q.doc

(* The dashboard shows the active policy and its digest.                   *)
Look(e, q) ==
    /\ editor[e].pc = "idle"
    /\ Len(versions) < MaxVersions
    /\ Goto(e, [pc |-> "looked", request |-> q, seen |-> ActiveDoc])
    /\ UNCHANGED <<versions, log, checked, crashes>>

Hold(q, base, doc, expected, audits) ==
    [pc |-> "holding", request |-> q, base |-> base, doc |-> doc,
     expected |-> expected, audits |-> audits]

(* POST /api/policy: a document of the author's making, be it an edit of   *)
(* the one it was shown or any other, and the digest of that one or not.   *)
(* A dry run ends here.                                                    *)
BeginSave(e, withDigest) ==
    LET q == editor[e].request
        doc == Candidate(editor[e].seen, q)
    IN  /\ editor[e].pc = "looked"
        /\ q.op \in {"move", "post"}
        /\ IF doc = Refused \/ ~validate_policy(doc)
              \/ ~_catalog_gate(doc, ActiveDoc, OfferedModels)
             THEN Goto(e, Resting)
             ELSE Goto(e, Hold(q, editor[e].seen, doc,
                               IF withDigest THEN editor[e].seen ELSE None,
                               _policy_diff(ActiveDoc, doc)))
        /\ UNCHANGED <<versions, log, checked, crashes>>

(* cmo policy save: a document from a file, without a digest, a look at    *)
(* the catalog or account events.                                          *)
BeginCliSave(e) ==
    LET q == editor[e].request
        doc == Candidate(editor[e].seen, q)
    IN  /\ editor[e].pc = "looked"
        /\ q.op \in {"move", "post"}
        /\ IF doc = Refused \/ ~validate_policy(doc)
             THEN Goto(e, Resting)
             ELSE Goto(e, Hold(q, editor[e].seen, doc, None, {}))
        /\ UNCHANGED <<versions, log, checked, crashes>>

(* POST /api/account and the simple model list: the edit is applied to the *)
(* policy that is active now.  Only the simple list and a removal pass a   *)
(* digest on, and a removal compares it here as well.                      *)
BeginMutation(e, withDigest) ==
    LET q == editor[e].request
        seen == editor[e].seen
        doc == Candidate(ActiveDoc, q)
        stale == q.op = "remove" /\ withDigest /\ seen # ActiveDoc
        audits == CASE q.op = "verify" -> {[type |-> "account.verified",
                                            account |-> q.id]}
                    [] q.op = "simple" -> {}
                    [] OTHER           -> _policy_diff(ActiveDoc, doc)
    IN  /\ editor[e].pc = "looked"
        /\ q.op # "post"
        /\ IF doc = Refused \/ stale
             THEN Goto(e, Resting)
             ELSE Goto(e, Hold(q, ActiveDoc, doc,
                               IF withDigest /\ q.op \in {"simple", "remove"}
                                 THEN seen ELSE None, audits))
        /\ UNCHANGED <<versions, log, checked, crashes>>

(* rollback_policy reads an old version and saves its document again.      *)
BeginRollback(e, n) ==
    /\ editor[e].pc = "idle"
    /\ Len(versions) < MaxVersions
    /\ n \in DOMAIN versions
    /\ Goto(e, Hold([op |-> "rollback"], versions[n].doc, versions[n].doc, None,
                    {[type |-> "policy.rolled_back", account |-> None]}))
    /\ UNCHANGED <<versions, log, checked, crashes>>

-----------------------------------------------------------------------------
Row(h) == [doc |-> h.doc, active |-> TRUE, base |-> h.base,
           cas |-> h.expected # None, op |-> h.request.op]

(* Slip: the row that was active is left so.                               *)
Activated_KeepingOld(rows, row) == Append(rows, row)

(* Slip: a save replaces the row of the active version.                    *)
Activated_Replacing(rows, row) ==
    IF rows = <<>> THEN <<row>> ELSE [rows EXCEPT ![Len(rows)] = row]

(* UPDATE ... SET active=0, then INSERT with active=1.                     *)
Activated(rows, row) ==
    Append([n \in DOMAIN rows |-> [rows[n] EXCEPT !.active = FALSE]], row)

(* Slip: the expected digest is compared before the transaction only.      *)
Conflict_Never(e) == FALSE

Conflict(e) == editor[e].expected # None /\ editor[e].expected # ActiveDoc

(* Slip: the account events stand for the save itself.                     *)
AuditsOf_EditOnly(h) == h.audits

AuditsOf(h) == {[type |-> "policy.saved", account |-> None]} \cup h.audits

(* save_policy_version: one transaction.  The table's rows are appended,   *)
(* even for a document equal to an earlier one.                            *)
Save(e) ==
    LET h == editor[e]
    IN  /\ h.pc = "holding"
        /\ Len(versions) < MaxVersions
        /\ validate_policy(h.doc)
        /\ ~Conflict(e)
        /\ versions' = Activated(versions, Row(h))
        /\ checked' = IF h.request.op = "verify"
                        THEN checked \cup {[account |-> h.request.id, profile |->
                                            AccountOf(h.doc, h.request.id).profile]}
                        ELSE checked
        /\ Goto(e, [pc |-> "saved", version |-> Len(versions) + 1,
                    audits |-> AuditsOf(h)])
        /\ UNCHANGED <<log, crashes>>

(* PolicyError or EventConflictError: nothing is written.                  *)
Refuse(e) ==
    /\ editor[e].pc = "holding"
    /\ Conflict(e) \/ ~validate_policy(editor[e].doc) \/ Len(versions) = MaxVersions
    /\ Goto(e, Resting)
    /\ UNCHANGED <<versions, log, checked, crashes>>

(* The audit events follow, each an ingest of its own: policy.saved first. *)
Audit(e) ==
    LET h == editor[e]
        saved == [type |-> "policy.saved", account |-> None]
        next == IF saved \in h.audits THEN saved ELSE CHOOSE a \in h.audits : TRUE
    IN  /\ h.pc = "saved"
        /\ IF h.audits = {}
             THEN Goto(e, Resting) /\ UNCHANGED log
             ELSE /\ log' = log \cup {[type |-> next.type, account |-> next.account,
                                       version |-> h.version]}
                  /\ Goto(e, [h EXCEPT !.audits = @ \ {next}])
        /\ UNCHANGED <<versions, checked, crashes>>

(* The process dies, or an ingest raises TransactionBusy.                  *)
Crash(e) ==
    /\ editor[e].pc # "idle"
    /\ crashes < MaxCrashes
    /\ crashes' = crashes + 1
    /\ Goto(e, Resting)
    /\ UNCHANGED <<versions, log, checked>>

Step(e) ==
    \/ \E d \in BOOLEAN : BeginSave(e, d) \/ BeginMutation(e, d)
    \/ BeginCliSave(e)
    \/ Save(e)
    \/ Refuse(e)
    \/ Audit(e)

Next ==
    \E e \in Editors :
        \/ \E q \in Requests : Look(e, q)
        \/ \E n \in DOMAIN versions : BeginRollback(e, n)
        \/ Step(e)
        \/ Crash(e)

Spec == Init /\ [][Next]_vars

-----------------------------------------------------------------------------
(* The row that was saved last is active, and no other: readers, who take  *)
(* the highest active version, never see an edit undone by a save that     *)
(* came before it.                                                         *)
ActiveIsLatest == \A n \in DOMAIN versions : versions[n].active <=> n = Len(versions)

(* Whatever the requests and their interleaving, no version refers to an   *)
(* account that is not registered, and every version leaves an account to  *)
(* route to.                                                               *)
VersionsRoutable ==
    \A n \in DOMAIN versions :
        LET doc == versions[n].doc
        IN  /\ \E a \in ToSet(doc.accounts) : Usable(a)
            /\ \A r \in ToSet(doc.routes) :
                   r.accounts # <<>> /\ ToSet(r.accounts) \subseteq Ids(doc)

(* Additions, updates, simple lists and rollbacks, however they overlap,   *)
(* never bring two accounts to one profile: two that map one were posted   *)
(* so in a document at some time, as validate_policy does not look.        *)
SharedProfilesWerePosted ==
    \A n \in DOMAIN versions : \A i, j \in Ids(versions[n].doc) :
        ShareProfile(versions[n].doc.accounts, i, j) =>
            \E m \in 1..n : /\ versions[m].op = "post"
                            /\ ShareProfile(versions[m].doc.accounts, i, j)

DocBefore(n) == IF n = 1 THEN canonical_policy_document ELSE versions[n - 1].doc

(* A document posted with a digest, and a removal, was made from the       *)
(* version just before it: such edits are never lost to one another.       *)
DigestHistoryIsLinear ==
    \A n \in DOMAIN versions :
        versions[n].cas /\ versions[n].op # "simple" => versions[n].base = DocBefore(n)

Saved(n) == [type |-> "policy.saved", account |-> None, version |-> n]

(* A version without its audit event is one whose editor is about to       *)
(* ingest it, or died before it could.                                     *)
OnlyCrashesLoseAudits ==
    Cardinality({n \in DOMAIN versions : Saved(n) \notin log}) <=
        crashes + Cardinality({e \in Editors : editor[e].pc = "saved"})

(* Saved rows never change but for the active flag (rollbacks included).   *)
HistoryIsAppendOnly ==
    [][\A n \in DOMAIN versions :
          n \in DOMAIN versions' /\ versions'[n].doc = versions[n].doc]_versions

-----------------------------------------------------------------------------
(* Promises of the repository that the code breaks: TLC finds each of      *)
(* these violated (README, Divergences).                                   *)

(* "concurrent edits get an explicit conflict instead of lost updates"     *)
(* (docstring of save_policy_version): every version continues the one     *)
(* before it, rollbacks apart.                                             *)
NoLostUpdates ==
    \A n \in DOMAIN versions :
        \/ versions[n].base = DocBefore(n)
        \/ versions[n].base = versions[n].doc

(* "each alias maps to a distinct profile" (_mutate_account): no saved     *)
(* policy maps two accounts to one profile.                                *)
ProfilesAreDistinct ==
    \A n \in DOMAIN versions : \A i, j \in Ids(versions[n].doc) :
        ~ShareProfile(versions[n].doc.accounts, i, j)

(* The claim of NoLostUpdates for the simple model list, which edits the   *)
(* policy its handler read but passes on the digest its author saw.        *)
SimpleListContinues ==
    \A n \in DOMAIN versions :
        versions[n].cas /\ versions[n].op = "simple" => versions[n].base = DocBefore(n)

(* "status 'verified' is only granted by the verify op" (_mutate_account): *)
(* a verified account is one whose profile was checked.                    *)
VerifiedMeansChecked ==
    \A a \in ToSet(ActiveDoc.accounts) :
        a.status = "verified" => [account |-> a.id, profile |-> a.profile] \in checked

(* "The save is recorded as a policy.saved audit event plus a receipt"     *)
(* (docstring of save_policy_version).                                     *)
SavesAreRecorded ==
    \A n \in DOMAIN versions :
        \/ Saved(n) \in log
        \/ \E e \in Editors : editor[e].pc = "saved" /\ editor[e].version = n

(* What build_snapshot subscripts in the active policy.                    *)
SnapshotKeys == {"schema", "policyVersion", "owner", "neverPayg", "routes",
                 "strategies", "defaults", "failureTaxonomy"}

(* GET /api/snapshot "returns cmo.snapshot/v2" (docs/cmo-v2-interface.md), *)
(* whichever policy was accepted.                                          *)
ActivePolicyIsServable == SnapshotKeys \subseteq ActiveDoc.keys
=============================================================================
