--------------------------- MODULE RenewalProofs ----------------------------
(***************************************************************************)
(* Proofs about Renewal, for any number of request threads, tokens and     *)
(* writes: mutual exclusion, and what it gives the file that is renewed.   *)
(***************************************************************************)
EXTENDS Renewal, TLAPS

(* What the user inside read is what the file says, and what the provider  *)
(* answered is what it will accept: nobody else moves them meanwhile.      *)
ReadIsCurrent ==
    \A u \in Users : pc[u] \in {"asking", "answered"} => seenOther[u] = other

AnswerIsValid == \A u \in Users : pc[u] = "answered" => answer[u] = valid

(* A token that is neither saved nor lost is in the hands of a renewal.    *)
TokenIsKept ==
    ~forfeited => token = valid \/ \E u \in Renewers : pc[u] = "answered"

IInv == TypeOK /\ MutualExclusion /\ ReadIsCurrent /\ AnswerIsValid /\ TokenIsKept

-----------------------------------------------------------------------------
LEMMA InitIInv == Init => IInv
  <1> SUFFICES ASSUME Init PROVE IInv
    OBVIOUS
  <1>1. TypeOK
    BY DEF Init, TypeOK, Places
  <1>2. MutualExclusion /\ ReadIsCurrent /\ AnswerIsValid
    BY DEF Init, MutualExclusion, Inside, ReadIsCurrent, AnswerIsValid
  <1>3. TokenIsKept
    BY DEF Init, TokenIsKept
  <1> QED
    BY <1>1, <1>2, <1>3 DEF IInv

(* Whoever is inside is alone there.                                       *)
LEMMA Alone ==
    ASSUME MutualExclusion, NEW u \in Users, NEW w \in Users, Inside(u), Inside(w)
    PROVE  u = w
  BY DEF MutualExclusion

(* Nobody is inside while the lock is free or orphaned.                    *)
LEMMA Nobody ==
    ASSUME MutualExclusion, lock \in {None, Orphan}, NEW u \in Users
    PROVE  pc[u] = "idle"
  BY RenewalAssumption DEF MutualExclusion, Inside

(* Every step keeps the inductive invariant.                               *)
LEMMA NextIInv == IInv /\ [Next]_vars => IInv'
  <1> SUFFICES ASSUME IInv, [Next]_vars PROVE IInv'
    OBVIOUS
  <1> USE RenewalAssumption
  <1> USE DEF IInv
  <1>1. ASSUME NEW u \in Users, Lock(u) PROVE IInv'
    <2>1. \A w \in Users : pc[w] = "idle"
      BY <1>1, Nobody DEF Lock
    <2> QED
      BY <1>1, <2>1 DEF Lock, file, read, TypeOK, Places, MutualExclusion, Inside,
             ReadIsCurrent, AnswerIsValid, TokenIsKept
  <1>2. ASSUME NEW u \in Users, Step(u) PROVE IInv'
    <2>0. Inside(u) /\ lock = u /\ \A w \in Users : w # u => pc[w] = "idle"
      BY <1>2 DEF Step, ReadAuth, ProviderAnswers, ProviderFails, Replace,
             ReplaceFails, Unlock, MutualExclusion, Inside
    <2>1. CASE ReadAuth(u)
      BY <2>0, <2>1 DEF ReadAuth, file, TypeOK, Places, MutualExclusion, Inside,
             ReadIsCurrent, AnswerIsValid, TokenIsKept
    <2>2. CASE ProviderAnswers(u)
      BY <2>0, <2>2 DEF ProviderAnswers, file, read, TypeOK, Places, MutualExclusion,
             Inside, ReadIsCurrent, AnswerIsValid, TokenIsKept
    <2>3. CASE ProviderFails(u)
      <3>1. TypeOK'
        <4>1. valid \in Nat /\ valid' \in {valid, valid + 1}
          BY <2>3 DEF ProviderFails, TypeOK
        <4>2. valid' \in Nat
          BY <4>1
        <4>3. pc' \in [Users -> Places]
          BY <2>3 DEF ProviderFails, TypeOK, Places
        <4>4. forfeited' \in BOOLEAN
          BY <2>3 DEF ProviderFails, TypeOK
        <4> QED
          BY <4>2, <4>3, <4>4, <2>3 DEF ProviderFails, file, read, TypeOK
      <3>2. MutualExclusion'
        BY <2>0, <2>3 DEF ProviderFails, MutualExclusion, Inside, TypeOK
      <3>3. ReadIsCurrent' /\ AnswerIsValid'
        BY <2>0, <2>3 DEF ProviderFails, file, read, TypeOK, ReadIsCurrent, AnswerIsValid
      <3>4. TokenIsKept'
        BY <2>0, <2>3 DEF ProviderFails, file, read, TypeOK, TokenIsKept
      <3> QED
        BY <3>1, <3>2, <3>3, <3>4
    <2>4. CASE Replace(u)
      BY <2>0, <2>4 DEF Replace, read, TypeOK, Places, MutualExclusion,
             Inside, ReadIsCurrent, AnswerIsValid, TokenIsKept
    <2>5. CASE ReplaceFails(u)
      BY <2>0, <2>5 DEF ReplaceFails, file, read, TypeOK, Places, MutualExclusion,
             Inside, ReadIsCurrent, AnswerIsValid, TokenIsKept
    <2>6. CASE Unlock(u)
      BY <2>0, <2>6 DEF Unlock, file, read, TypeOK, Places, MutualExclusion,
             Inside, ReadIsCurrent, AnswerIsValid, TokenIsKept
    <2> QED
      BY <1>2, <2>1, <2>2, <2>3, <2>4, <2>5, <2>6 DEF Step
  <1>3. ASSUME PiWritesOther \/ PiSignsIn \/ PiLeaves PROVE IInv'
    <2>0. Pi \in Users /\ lock = Pi /\ \A w \in Users : w # Pi => pc[w] = "idle"
      BY <1>3 DEF Users, PiWritesOther, PiSignsIn, PiLeaves, MutualExclusion, Inside
    <2>1. CASE PiWritesOther
      BY <2>0, <2>1 DEF PiWritesOther, read, TypeOK, Places, MutualExclusion, Inside,
             ReadIsCurrent, AnswerIsValid, TokenIsKept
    <2>2. CASE PiSignsIn
      <3>1. TypeOK'
        <4>1. valid \in Nat /\ valid' = valid + 1 /\ token' = valid + 1
          BY <2>2 DEF PiSignsIn, TypeOK
        <4>2. valid' \in Nat /\ token' \in Nat
          BY <4>1
        <4>3. pc' \in [Users -> Places]
          BY <2>2 DEF PiSignsIn, TypeOK, Places
        <4> QED
          BY <4>2, <4>3, <2>2 DEF PiSignsIn, read, TypeOK
      <3>2. MutualExclusion'
        BY <2>0, <2>2 DEF PiSignsIn, MutualExclusion, Inside, TypeOK
      <3>3. ReadIsCurrent' /\ AnswerIsValid'
        BY <2>0, <2>2 DEF PiSignsIn, read, TypeOK, ReadIsCurrent, AnswerIsValid
      <3>4. TokenIsKept'
        BY <2>0, <2>2 DEF PiSignsIn, read, TypeOK, TokenIsKept
      <3> QED
        BY <3>1, <3>2, <3>3, <3>4
    <2>3. CASE PiLeaves
      BY <2>0, <2>3 DEF PiLeaves, file, read, TypeOK, Places, MutualExclusion, Inside,
             ReadIsCurrent, AnswerIsValid, TokenIsKept
    <2> QED
      BY <1>3, <2>1, <2>2, <2>3
  <1>4. ASSUME PiClearsOrphan PROVE IInv'
    <2>1. \A w \in Users : pc[w] = "idle"
      BY <1>4, Nobody DEF PiClearsOrphan
    <2> QED
      BY <1>4, <2>1 DEF PiClearsOrphan, file, read, TypeOK, MutualExclusion, Inside,
             ReadIsCurrent, AnswerIsValid, TokenIsKept
  <1>5. ASSUME Expire PROVE IInv'
    BY <1>5 DEF Expire, read, TypeOK, MutualExclusion, Inside, ReadIsCurrent,
           AnswerIsValid, TokenIsKept
  <1>6. ASSUME ServiceDies PROVE IInv'
    <2>1. TypeOK'
      BY <1>6 DEF ServiceDies, file, read, TypeOK, Places, Users
    <2>2. MutualExclusion'
      BY <1>6 DEF ServiceDies, MutualExclusion, Inside, Users
    <2>3. ReadIsCurrent' /\ AnswerIsValid'
      BY <1>6 DEF ServiceDies, file, read, ReadIsCurrent, AnswerIsValid
    <2>4. TokenIsKept'
      BY <1>6 DEF ServiceDies, file, read, TokenIsKept, AnswerIsValid, TypeOK, Users
    <2> QED
      BY <2>1, <2>2, <2>3, <2>4
  <1>7. CASE UNCHANGED vars
    BY <1>7 DEF vars, file, read, TypeOK, MutualExclusion, Inside, ReadIsCurrent,
           AnswerIsValid, TokenIsKept
  <1> QED
    BY <1>1, <1>2, <1>3, <1>4, <1>5, <1>6, <1>7 DEF Next

LEMMA Inductive == Spec => []IInv
  BY InitIInv, NextIInv, PTL DEF Spec

(* The lock, the file, the provider and every user keep their shapes.      *)
THEOREM TypeCorrect == Spec => []TypeOK
  <1>1. IInv => TypeOK
    BY DEF IInv
  <1> QED
    BY <1>1, Inductive, PTL

(* Whoever is at work on auth.json made the lock directory (_lock_file).   *)
THEOREM Exclusive == Spec => []MutualExclusion
  <1>1. IInv => MutualExclusion
    BY DEF IInv
  <1> QED
    BY <1>1, Inductive, PTL

(* With nobody inside and no rotated token lost, the file has the token    *)
(* the provider takes (renew_cline).                                       *)
THEOREM TokenStaysValid == Spec => []SavedTokenIsValid
  <1>1. IInv => SavedTokenIsValid
    <2> SUFFICES ASSUME IInv, lock = None, ~forfeited PROVE token = valid
      BY DEF SavedTokenIsValid
    <2>1. \A u \in Renewers : pc[u] = "idle"
      BY Nobody DEF IInv, Users
    <2> QED
      BY <2>1 DEF IInv, TokenIsKept
  <1> QED
    BY <1>1, Inductive, PTL

(* No renewal takes back a change to another provider's entry              *)
(* (_replace_locked).                                                      *)
THEOREM OthersArePreserved == Spec => OthersPreserved
  <1>1. IInv /\ [Next]_vars => [other' >= other]_other
    <2> SUFFICES ASSUME IInv, Next, other' # other PROVE other' >= other
      BY DEF vars, file
    <2>1. other \in Nat /\ \A u \in Users : seenOther[u] \in Nat
      BY DEF IInv, TypeOK
    <2>2. ASSUME NEW u \in Users, Replace(u) PROVE other' >= other
      BY <2>1, <2>2 DEF Replace, IInv, ReadIsCurrent
    <2>3. ASSUME PiWritesOther PROVE other' >= other
      <3>1. other' = other + 1
        BY <2>3 DEF PiWritesOther, IInv, ReadIsCurrent, Users
      <3> QED
        BY <2>1, <3>1
    <2> QED
      BY <2>2, <2>3 DEF Next, Step, Lock, ReadAuth, ProviderAnswers, ProviderFails,
             ReplaceFails, Unlock, PiSignsIn, PiLeaves, PiClearsOrphan, Expire,
             ServiceDies, file
  <1> QED
    BY <1>1, Inductive, PTL DEF Spec, OthersPreserved
=============================================================================
