---------------------------- MODULE ExportFiles -----------------------------
(***************************************************************************)
(* write_compatibility_exports as a process: the reads it makes, the files *)
(* it replaces one after the other and the manifest that vouches for them. *)
(*                                                                         *)
(* Every read is a transaction of its own and every replacement is atomic, *)
(* under a temporary name of the process's own.  Nothing keeps two writers *)
(* (two runs of cmo exports write) apart, and a writer may be killed       *)
(* between any two steps.  A payload is known by the write it belongs to   *)
(* and by what that write read; what the files say of the legs is the      *)
(* matter of Exports.                                                      *)
(***************************************************************************)
EXTENDS Integers, Sequences

CONSTANTS
    Writers,            \* processes that write exports
    Payloads,           \* the files, in the order of the code, manifest apart
    None,
    MaxWrites, MaxIngests, MaxSaves, MaxKills, MaxFailures      \* bounds

(* What a file holds, as far as it is told apart (Payload).                *)
Contents == [write : Nat, GeneratedRevision : Nat, judged : Nat, evidence : Nat,
             policyDigest : {"document", "copy"} \X Nat]

ExportFilesAssumption ==
    /\ Payloads \in Seq(STRING) /\ Payloads # <<>>
    /\ None \notin Nat \cup Contents
    /\ {MaxWrites, MaxIngests, MaxSaves, MaxKills, MaxFailures} \subseteq Nat

VARIABLES
    store,              \* [revision, evidence, policy]: stamps of the state
    unaudited,          \* policy saves whose audit event is to come
    writer,             \* writer -> [pc, next, write, what it read]
    files,              \* file -> the payload in place
    manifest,           \* the manifest in place
    writes,             \* writes started so far
    overlapped,         \* history: two writes have been under way at once
    spent

vars == <<store, unaudited, writer, files, manifest, writes, overlapped, spent>>

Names == {Payloads[i] : i \in DOMAIN Payloads}

Idle == [pc |-> "idle", next |-> 1, write |-> 0, policy |-> 0, evidence |-> 0,
         revision |-> 0, full_policy |-> None]

Init ==
    /\ store = [revision |-> 0, evidence |-> 0, policy |-> 0]
    /\ unaudited = 0
    /\ writer = [w \in Writers |-> Idle]
    /\ files = [n \in Names |-> None]
    /\ manifest = None
    /\ writes = 0
    /\ overlapped = FALSE
    /\ spent = [ingests |-> 0, saves |-> 0, kills |-> 0, failures |-> 0]

Busy(w) == writer[w].pc # "idle"

-----------------------------------------------------------------------------
(* The store moves on meanwhile.                                           *)

Ingest ==
    /\ spent.ingests < MaxIngests
    /\ spent' = [spent EXCEPT !.ingests = @ + 1]
    /\ store' = [store EXCEPT !.evidence = @ + 1, !.revision = @ + 1]
    /\ UNCHANGED <<unaudited, writer, files, manifest, writes, overlapped>>

(* The policy is activated in one transaction and audited in the next,     *)
(* which is the one that bumps the revision.                               *)
ActivatePolicy ==
    /\ spent.saves < MaxSaves
    /\ spent' = [spent EXCEPT !.saves = @ + 1]
    /\ store' = [store EXCEPT !.policy = @ + 1]
    /\ unaudited' = unaudited + 1
    /\ UNCHANGED <<writer, files, manifest, writes, overlapped>>

AuditPolicy ==
    /\ unaudited > 0
    /\ unaudited' = unaudited - 1
    /\ store' = [store EXCEPT !.revision = @ + 1]
    /\ UNCHANGED <<writer, files, manifest, writes, overlapped, spent>>

-----------------------------------------------------------------------------
(* A write.                                                                *)

MovesOn(w, read) ==
    /\ writer' = [writer EXCEPT ![w] = read]
    /\ UNCHANGED <<store, unaudited, files, manifest>>

(* build_snapshot begins with the policy ...                               *)
Start(w) ==
    /\ ~Busy(w)
    /\ writes < MaxWrites
    /\ MovesOn(w, [Idle EXCEPT !.pc = "evidence", !.write = writes + 1,
                               !.policy = store.policy])
    /\ writes' = writes + 1
    /\ overlapped' = (overlapped \/ \E v \in Writers : Busy(v))
    /\ UNCHANGED spent

(* ... goes on to the tables ...                                           *)
ReadEvidence(w) ==
    /\ writer[w].pc = "evidence"
    /\ MovesOn(w, [writer[w] EXCEPT !.pc = "revision", !.evidence = store.evidence])
    /\ UNCHANGED <<writes, overlapped, spent>>

(* ... and ends with the revision.                                         *)
ReadRevision(w) ==
    /\ writer[w].pc = "revision"
    /\ MovesOn(w, [writer[w] EXCEPT !.pc = "policy", !.revision = store.revision])
    /\ UNCHANGED <<writes, overlapped, spent>>

(* The full policy document is read again, after the snapshot.             *)
ReadFullPolicy(w) ==
    /\ writer[w].pc = "policy"
    /\ MovesOn(w, [writer[w] EXCEPT !.pc = "files", !.full_policy = store.policy])
    /\ UNCHANGED <<writes, overlapped, spent>>

(* When that read raises, the snapshot's display copy stands in.           *)
ReadFullPolicyFails(w) ==
    /\ writer[w].pc = "policy"
    /\ spent.failures < MaxFailures
    /\ spent' = [spent EXCEPT !.failures = @ + 1]
    /\ MovesOn(w, [writer[w] EXCEPT !.pc = "files"])
    /\ UNCHANGED <<writes, overlapped>>

(* A digest of the document, or of its display copy: the copy has members  *)
(* of its own, so it never digests alike.                                  *)
Document(version) == <<"document", version>>
DisplayCopy(version) == <<"copy", version>>

(* _snapshot_policy: what the queue is built from and its digest taken of. *)
_snapshot_policy(r) ==
    IF r.full_policy # None THEN Document(r.full_policy) ELSE DisplayCopy(r.policy)

Payload(r) ==
    [write |-> r.write, GeneratedRevision |-> r.revision, judged |-> r.policy,
     evidence |-> r.evidence, policyDigest |-> _snapshot_policy(r)]

ManifestOf(r) ==
    [write |-> r.write, stateRevision |-> r.revision,
     policyDigest |-> Document(IF r.full_policy # None THEN r.full_policy
                               ELSE r.policy),
     files |-> [n \in Names |-> Payload(r)]]

(* Slip: the manifest is replaced before the files are.                    *)
Replace_ManifestFirst(w) ==
    LET r == writer[w]
        last == r.next = Len(Payloads)
    IN  /\ r.pc = "files"
        /\ files' = [files EXCEPT ![Payloads[r.next]] = Payload(r)]
        /\ manifest' = ManifestOf(r)
        /\ writer' = [writer EXCEPT ![w] =
               IF last THEN [r EXCEPT !.pc = "manifest"] ELSE [r EXCEPT !.next = @ + 1]]
        /\ UNCHANGED <<store, unaudited, writes, overlapped, spent>>

(* Slip: the last file of the list is not written.                         *)
Replace_OneShort(w) ==
    LET r == writer[w]
    IN  /\ r.pc = "files"
        /\ files' = IF r.next = Len(Payloads) THEN files
                    ELSE [files EXCEPT ![Payloads[r.next]] = Payload(r)]
        /\ writer' = [writer EXCEPT ![w] =
               IF r.next = Len(Payloads) THEN [r EXCEPT !.pc = "manifest"]
               ELSE [r EXCEPT !.next = @ + 1]]
        /\ UNCHANGED <<store, unaudited, manifest, writes, overlapped, spent>>

Replace(w) ==
    LET r == writer[w]
        last == r.next = Len(Payloads)
    IN  /\ r.pc = "files"
        /\ files' = [files EXCEPT ![Payloads[r.next]] = Payload(r)]
        /\ writer' = [writer EXCEPT ![w] =
               IF last THEN [r EXCEPT !.pc = "manifest"] ELSE [r EXCEPT !.next = @ + 1]]
        /\ UNCHANGED <<store, unaudited, manifest, writes, overlapped, spent>>

ReplaceManifest(w) ==
    /\ writer[w].pc = "manifest"
    /\ manifest' = ManifestOf(writer[w])
    /\ writer' = [writer EXCEPT ![w] = Idle]
    /\ UNCHANGED <<store, unaudited, files, writes, overlapped, spent>>

Kill(w) ==
    /\ Busy(w)
    /\ spent.kills < MaxKills
    /\ spent' = [spent EXCEPT !.kills = @ + 1]
    /\ writer' = [writer EXCEPT ![w] = Idle]
    /\ UNCHANGED <<store, unaudited, files, manifest, writes, overlapped>>

Next ==
    \/ Ingest \/ ActivatePolicy \/ AuditPolicy
    \/ \E w \in Writers :
          \/ Start(w) \/ ReadEvidence(w) \/ ReadRevision(w)
          \/ ReadFullPolicy(w) \/ ReadFullPolicyFails(w)
          \/ Replace(w) \/ ReplaceManifest(w) \/ Kill(w)

Spec == Init /\ [][Next]_vars

-----------------------------------------------------------------------------
(* Wherever a writer is killed, the manifest is no newer than any file: it *)
(* is replaced last (writes one after the other).                          *)
ManifestFollowsItsFiles ==
    manifest # None /\ ~overlapped =>
        \A n \in Names : files[n] # None /\ files[n].write >= manifest.write

(* Writes one after the other, none of them killed, leave the directory    *)
(* whole: every file is the one the manifest names.                        *)
UndisturbedSetIsWhole ==
    /\ manifest # None /\ ~overlapped /\ spent.kills = 0
    /\ \A w \in Writers : ~Busy(w)
    => files = manifest.files

-----------------------------------------------------------------------------
(* Promises of the repository that the code breaks: TLC finds each of      *)
(* these violated (README, Divergences).                                   *)

(* "writes, atomically and at one revision" (docs/cmo-v2-interface.md):    *)
(* when nobody is writing, the files are those of one write.               *)
ExportsAtOneRevision ==
    (\A w \in Writers : ~Busy(w)) =>
        \A m, n \in Names : files[m] = files[n]

(* "Generated from one snapshot + revision so every consumer sees the same *)
(* evidence" (docstring of compat.py): the queue is built from the policy  *)
(* its legs were judged under.                                             *)
OnePolicyPerExport ==
    \A n \in Names : files[n] # None =>
        files[n].policyDigest \in {Document(files[n].judged), DisplayCopy(files[n].judged)}

(* The route policy's policyDigest is the manifest's                       *)
(* (tests/test_cmo_compat.py), when both are of one write.                 *)
DigestsAgree ==
    manifest # None => \A n \in Names :
        files[n].write = manifest.write => files[n].policyDigest = manifest.policyDigest
=============================================================================
