------------------------------ MODULE Renewal -------------------------------
(***************************************************************************)
(* renew_cline: the service renews the free credential in one profile's    *)
(* auth.json, which Pi reads and writes too.  Both hold the directory      *)
(* auth.json.lock while they do.  The provider may replace the refresh     *)
(* token it is shown, so an answer that is not saved leaves a spent token  *)
(* in the file.                                                            *)
(*                                                                         *)
(* The service never takes a lock it did not make; a service that dies     *)
(* inside leaves the directory behind until Pi clears it.  Pi takes over   *)
(* no lock whose maker is at work: a renewal is over in eight seconds.     *)
(***************************************************************************)
EXTENDS Integers

CONSTANTS
    Renewers,           \* request threads of the service
    Pi,                 \* the Pi process that uses the profile
    None,               \* no lock directory
    Orphan,             \* a lock directory whose maker has died
    MaxToken,           \* bound: refresh tokens the provider hands out
    MaxOther            \* bound: writes to the other providers' entries

Users == Renewers \cup {Pi}

ASSUME RenewalAssumption ==
    /\ Pi \notin Renewers
    /\ None \notin Users
    /\ Orphan \notin Users
    /\ None # Orphan
    /\ MaxToken \in Nat
    /\ MaxOther \in Nat

VARIABLES
    lock,               \* None, Orphan or the user that made the directory
    token,              \* auth.json: the saved refresh token of "cline"
    expired,            \* auth.json: the saved access token has expired
    other,              \* auth.json: version of the other providers' entries
    valid,              \* provider: the refresh token it accepts
    pc,                 \* Users -> where the user stands
    seenToken, seenOther, \* Users -> what it read
    answer,             \* Users -> the token the provider answered with
    forfeited           \* for the properties: a rotated token went unsaved

file == <<token, expired, other>>
read == <<seenToken, seenOther>>
vars == <<lock, file, valid, pc, read, answer, forfeited>>

Init ==
    /\ lock = None
    /\ token = 0
    /\ expired = TRUE
    /\ other = 0
    /\ valid = 0
    /\ pc = [u \in Users |-> "idle"]
    /\ seenToken = [u \in Users |-> 0]
    /\ seenOther = [u \in Users |-> 0]
    /\ answer = [u \in Users |-> 0]
    /\ forfeited = FALSE

-----------------------------------------------------------------------------
(* Slip: after three seconds of waiting the lock is taken over.            *)
Lock_Stealing(u) ==
    /\ pc[u] = "idle"
    /\ lock' = u
    /\ pc' = [pc EXCEPT ![u] = "locked"]
    /\ UNCHANGED <<file, valid, read, answer, forfeited>>

(* os.mkdir succeeds; else 'profile-busy' once the deadline has passed.    *)
Lock(u) ==
    /\ pc[u] = "idle"
    /\ lock = None
    /\ lock' = u
    /\ pc' = [pc EXCEPT ![u] = "locked"]
    /\ UNCHANGED <<file, valid, read, answer, forfeited>>

(* An access token that has not expired is left alone.                     *)
ReadAuth(u) ==
    /\ pc[u] = "locked"
    /\ seenToken' = [seenToken EXCEPT ![u] = token]
    /\ seenOther' = [seenOther EXCEPT ![u] = other]
    /\ pc' = [pc EXCEPT ![u] = IF u = Pi \/ expired THEN "asking" ELSE "leaving"]
    /\ UNCHANGED <<lock, file, valid, answer, forfeited>>

(* The provider accepts its current token and keeps or replaces it.        *)
ProviderAnswers(u) ==
    /\ u \in Renewers
    /\ pc[u] = "asking"
    /\ seenToken[u] = valid
    /\ \E t \in {valid, valid + 1} :
          /\ t <= MaxToken
          /\ valid' = t
          /\ answer' = [answer EXCEPT ![u] = t]
    /\ pc' = [pc EXCEPT ![u] = "answered"]
    /\ UNCHANGED <<lock, file, read, forfeited>>

(* 'renewal-unavailable': a spent token, no connection, or an answer that  *)
(* is lost or makes no sense after the provider has replaced the token.    *)
ProviderFails(u) ==
    /\ u \in Renewers
    /\ pc[u] = "asking"
    /\ pc' = [pc EXCEPT ![u] = "leaving"]
    /\ \/ UNCHANGED <<valid, forfeited>>
       \/ /\ seenToken[u] = valid
          /\ valid < MaxToken
          /\ valid' = valid + 1
          /\ forfeited' = TRUE
    /\ UNCHANGED <<lock, file, read, answer>>

(* Slip: the refresh token of the answer is not saved.                     *)
Replace_KeepingToken(u) ==
    /\ pc[u] = "answered"
    /\ token' = seenToken[u]
    /\ expired' = FALSE
    /\ other' = seenOther[u]
    /\ pc' = [pc EXCEPT ![u] = "leaving"]
    /\ UNCHANGED <<lock, valid, read, answer, forfeited>>

(* _replace_locked: the whole document as read, with "cline" renewed.      *)
Replace(u) ==
    /\ pc[u] = "answered"
    /\ token' = answer[u]
    /\ expired' = FALSE
    /\ other' = seenOther[u]
    /\ pc' = [pc EXCEPT ![u] = "leaving"]
    /\ UNCHANGED <<lock, valid, read, answer, forfeited>>

(* The temporary file cannot be written or moved: auth.json stays.         *)
ReplaceFails(u) ==
    /\ pc[u] = "answered"
    /\ pc' = [pc EXCEPT ![u] = "leaving"]
    /\ forfeited' = (forfeited \/ answer[u] # token)
    /\ UNCHANGED <<lock, file, valid, read, answer>>

(* Slip: the directory is removed only after a renewal.                    *)
Unlock_WhenRenewed(u) ==
    /\ pc[u] = "leaving"
    /\ lock' = IF expired THEN lock ELSE None
    /\ pc' = [pc EXCEPT ![u] = "idle"]
    /\ UNCHANGED <<file, valid, read, answer, forfeited>>

(* finally: os.rmdir.                                                      *)
Unlock(u) ==
    /\ pc[u] = "leaving"
    /\ lock' = None
    /\ pc' = [pc EXCEPT ![u] = "idle"]
    /\ UNCHANGED <<file, valid, read, answer, forfeited>>

-----------------------------------------------------------------------------
(* Pi, under the same lock: it changes another provider's entry, or signs  *)
(* in anew, which makes the token it saves the valid one.                  *)
PiWritesOther ==
    /\ pc[Pi] = "asking"
    /\ other < MaxOther
    /\ other' = seenOther[Pi] + 1
    /\ pc' = [pc EXCEPT ![Pi] = "leaving"]
    /\ UNCHANGED <<lock, token, expired, valid, read, answer, forfeited>>

PiSignsIn ==
    /\ pc[Pi] = "asking"
    /\ valid < MaxToken
    /\ valid' = valid + 1
    /\ token' = valid + 1
    /\ expired' = FALSE
    /\ forfeited' = FALSE
    /\ pc' = [pc EXCEPT ![Pi] = "leaving"]
    /\ UNCHANGED <<lock, other, read, answer>>

PiLeaves ==
    /\ pc[Pi] = "asking"
    /\ pc' = [pc EXCEPT ![Pi] = "leaving"]
    /\ UNCHANGED <<lock, file, valid, read, answer, forfeited>>

PiClearsOrphan ==
    /\ lock = Orphan
    /\ lock' = None
    /\ UNCHANGED <<file, valid, pc, read, answer, forfeited>>

Expire ==
    /\ ~expired
    /\ expired' = TRUE
    /\ UNCHANGED <<lock, token, other, valid, pc, read, answer, forfeited>>

(* The service dies, and with it every renewal; finally does not run.      *)
ServiceDies ==
    /\ pc' = [u \in Users |-> IF u = Pi THEN pc[u] ELSE "idle"]
    /\ lock' = IF lock \in Renewers THEN Orphan ELSE lock
    /\ forfeited' = (forfeited \/ \E u \in Renewers : pc[u] = "answered" /\ answer[u] # token)
    /\ UNCHANGED <<file, valid, read, answer>>

Step(u) ==
    \/ ReadAuth(u) \/ ProviderAnswers(u) \/ ProviderFails(u)
    \/ Replace(u) \/ ReplaceFails(u) \/ Unlock(u)

Next ==
    \/ \E u \in Users : Lock(u) \/ Step(u)
    \/ PiWritesOther \/ PiSignsIn \/ PiLeaves \/ PiClearsOrphan
    \/ Expire \/ ServiceDies

Spec == Init /\ [][Next]_vars

(* Every step inside the lock has a timeout; Pi clears what nobody holds.  *)
FairSpec ==
    /\ Spec
    /\ \A u \in Users : WF_vars(Step(u))
    /\ WF_vars(PiLeaves) /\ WF_vars(PiClearsOrphan)

-----------------------------------------------------------------------------
Inside(u) == pc[u] # "idle"

Places == {"idle", "locked", "asking", "answered", "leaving"}

TypeOK ==
    /\ lock \in Users \cup {None, Orphan}
    /\ token \in Nat /\ valid \in Nat /\ other \in Nat
    /\ expired \in BOOLEAN
    /\ pc \in [Users -> Places]
    /\ seenToken \in [Users -> Nat]
    /\ seenOther \in [Users -> Nat]
    /\ answer \in [Users -> Nat]
    /\ forfeited \in BOOLEAN

(* Whoever works on auth.json made the lock directory, so two renewals, or *)
(* a renewal and Pi, never do at once, whatever dies when (_lock_file).    *)
MutualExclusion == \A u \in Users : Inside(u) => lock = u

(* "preserve other providers" (_replace_locked): a renewal writes back     *)
(* entries nobody has changed since it read them.                          *)
OthersPreserved == [][other' >= other]_other

(* Unless a rotated token was lost with its answer, the token in the file  *)
(* is the one the provider takes whenever nobody is at work on it.         *)
SavedTokenIsValid == lock = None /\ ~forfeited => token = valid

(* The lock comes free again and again, whatever fails and whoever dies.   *)
LockIsReleased == []<>(lock = None)
=============================================================================
