------------------------- MODULE TransferLockProofs -------------------------
(***************************************************************************)
(* Proofs about TransferLock for any set of process ids, spread over any   *)
(* machines, reused for any number of runs.                                *)
(***************************************************************************)
EXTENDS Parts, TLAPS

\* What the constants of the lock are.
LEMMA LockConstants == HostOf \in [LockProc -> Host] /\ MaxLockRuns \in Nat
BY PartsAssumption DEF Lock!LockAssumption

USE LockConstants

\* The lock file only ever holds what a run wrote or a copy brought along.
THEOREM TypeIsInvariant == Lock!Spec => []Lock!TypeOK
<1>1. Lock!Init => Lock!TypeOK
  <2>1. Lock!Init => lock \in Lock!Locks \cup {Lock!NoLock}
    BY DEF Lock!Init, Lock!Locks
  <2>2. 0 \in 0..MaxLockRuns
    OBVIOUS
  <2>3. Lock!Init => seen \in [LockProc -> Lock!Locks \cup {Lock!NoLock}]
    BY DEF Lock!Init
  <2> QED
    BY <2>1, <2>2, <2>3 DEF Lock!Init, Lock!TypeOK, Lock!Places
<1>2. ASSUME Lock!TypeOK, [Lock!Next]_Lock!vars PROVE Lock!TypeOK'
  <2> USE DEF Lock!TypeOK, Lock!Locks, Lock!Places, Lock!Acquiring
  <2>1. ASSUME NEW p \in LockProc, Lock!Start(p) PROVE Lock!TypeOK'
    BY <1>2, <2>1 DEF Lock!Start, Lock!Goto
  <2>2. ASSUME NEW p \in LockProc, Lock!Step(p) PROVE Lock!TypeOK'
    <3>1. Lock!LockOf(p, "empty") \in Lock!Locks /\ Lock!LockOf(p, "owner") \in Lock!Locks
      BY <1>2 DEF Lock!LockOf
    <3>2. CASE Lock!Create(p) \/ Lock!Write(p)
      BY <1>2, <3>1, <3>2 DEF Lock!Create, Lock!Write, Lock!Goto
    <3>3. CASE Lock!Exists(p) \/ Lock!Read(p) \/ Lock!Refuse(p) \/ Lock!Judge(p)
      BY <1>2, <3>3 DEF Lock!Exists, Lock!Read, Lock!Refuse, Lock!Judge, Lock!Goto, Lock!Forget
    <3>4. CASE Lock!Reclaim(p) \/ Lock!Finish(p) \/ Lock!Drop(p)
      BY <1>2, <3>4 DEF Lock!Reclaim, Lock!Finish, Lock!Drop, Lock!Goto
    <3> QED
      BY <2>2, <3>2, <3>3, <3>4 DEF Lock!Step
  <2>3. ASSUME NEW p \in LockProc, Lock!Crash(p) PROVE Lock!TypeOK'
    BY <1>2, <2>3 DEF Lock!Crash, Lock!Goto, Lock!Forget
  <2>4. CASE UNCHANGED Lock!vars
    BY <1>2, <2>4 DEF Lock!vars
  <2> QED
    BY <1>2, <2>1, <2>2, <2>3, <2>4 DEF Lock!Next
<1> QED
  BY <1>1, <1>2, PTL DEF Lock!Spec

LEMMA LockInvIsInductive == Lock!TypeOK /\ Lock!LockInv /\ [Lock!Next]_Lock!vars => Lock!LockInv'
<1> SUFFICES ASSUME Lock!TypeOK, Lock!LockInv, [Lock!Next]_Lock!vars, ~raced' PROVE Lock!LockInv'
  BY DEF Lock!LockInv
<1>0. ~raced
  BY DEF Lock!Next, Lock!Step, Lock!Start, Lock!Create, Lock!Exists, Lock!Write, Lock!Read,
     Lock!Refuse, Lock!Judge, Lock!Reclaim, Lock!Finish,
     Lock!Drop, Lock!Crash, Lock!vars
<1> USE <1>0 DEF Lock!TypeOK, Lock!LockInv, Lock!Holders
<1>1. ASSUME NEW p \in LockProc, Lock!Start(p) PROVE Lock!LockInv'
  BY <1>1 DEF Lock!Start, Lock!Goto, Lock!Acquiring, Lock!LockOf
<1>2. ASSUME NEW p \in LockProc, Lock!Create(p) PROVE Lock!LockInv'
  <2>1. \A q \in LockProc : Lock!LockOf(q, "owner") # Lock!NoLock
    BY DEF Lock!LockOf, Lock!NoLock
  <2>2. Lock!Holders = {}
    BY <1>2, <2>1 DEF Lock!Create
  <2> QED
    BY <1>2, <2>2 DEF Lock!Create, Lock!Goto, Lock!Acquiring, Lock!LockOf
<1>3. ASSUME NEW p \in LockProc, Lock!Exists(p) PROVE Lock!LockInv'
  BY <1>3 DEF Lock!Exists, Lock!Goto, Lock!Acquiring, Lock!LockOf
<1>4. ASSUME NEW p \in LockProc, Lock!Write(p) PROVE Lock!LockInv'
  <2>1. \A q \in LockProc : Lock!LockOf(q, "owner") # Lock!LockOf(p, "empty")
    BY DEF Lock!LockOf
  <2>2. Lock!Holders = {} /\ lock = Lock!LockOf(p, "empty")
    BY <1>4, <2>1 DEF Lock!Write
  <2> QED
    BY <1>4, <2>2 DEF Lock!Write, Lock!Goto, Lock!Acquiring, Lock!LockOf
<1>5. ASSUME NEW p \in LockProc, Lock!Read(p) PROVE Lock!LockInv'
  BY <1>5 DEF Lock!Read, Lock!Goto, Lock!Acquiring, Lock!LockOf
<1>6. ASSUME NEW p \in LockProc, Lock!Refuse(p) PROVE Lock!LockInv'
  BY <1>6 DEF Lock!Refuse, Lock!Goto, Lock!Forget, Lock!Acquiring, Lock!LockOf
<1>7. ASSUME NEW p \in LockProc, Lock!Judge(p) PROVE Lock!LockInv'
  <2>1. ASSUME NEW q \in Lock!Holders PROVE FALSE
    <3>1. seen[p] = Lock!LockOf(q, "owner") /\ Lock!Alive(q)
      BY <1>7, <2>1 DEF Lock!Judge, Lock!Alive
    <3> QED
      BY <1>7, <3>1 DEF Lock!Judge, Lock!Stale, Lock!LockOf
  <2> QED
    BY <1>7, <2>1 DEF Lock!Judge, Lock!Goto, Lock!Forget, Lock!Acquiring, Lock!LockOf
<1>8. ASSUME NEW p \in LockProc, Lock!Reclaim(p) PROVE Lock!LockInv'
  BY <1>8 DEF Lock!Reclaim, Lock!Goto, Lock!Acquiring, Lock!LockOf
<1>9. ASSUME NEW p \in LockProc, Lock!Finish(p) PROVE Lock!LockInv'
  BY <1>9 DEF Lock!Finish, Lock!Goto, Lock!Acquiring, Lock!LockOf
<1>10. ASSUME NEW p \in LockProc, Lock!Drop(p) PROVE Lock!LockInv'
  <2>1. \A q \in Lock!Holders : q = p
    BY <1>10 DEF Lock!Drop, Lock!LockOf
  <2> QED
    BY <1>10, <2>1 DEF Lock!Drop, Lock!Goto, Lock!Acquiring, Lock!LockOf
<1>11. ASSUME NEW p \in LockProc, Lock!Crash(p) PROVE Lock!LockInv'
  BY <1>11 DEF Lock!Crash, Lock!Goto, Lock!Forget, Lock!Acquiring, Lock!LockOf
<1>12. CASE UNCHANGED Lock!vars
  BY <1>12 DEF Lock!vars, Lock!LockOf
<1> QED
  BY <1>1, <1>2, <1>3, <1>4, <1>5, <1>6, <1>7, <1>8, <1>9, <1>10, <1>11, <1>12
  DEF Lock!Next, Lock!Step

\* Until two acquisitions overlap, a holder's record is on disk for the next
\* run to see (transfer_lock's write, its judgement and its way out).
THEOREM HolderIsAlwaysNamed == Lock!Spec => []Lock!HolderIsNamed
<1>1. Lock!Init => Lock!LockInv
  BY DEF Lock!Init, Lock!LockInv, Lock!Holders, Lock!Acquiring
<1>2. Lock!LockInv => Lock!HolderIsNamed
  BY DEF Lock!LockInv, Lock!HolderIsNamed
<1> QED
  BY <1>1, <1>2, TypeIsInvariant, LockInvIsInductive, PTL DEF Lock!Spec

\* Until two acquisitions overlap, no two runs hold a bundle at once: crashes,
\* reused process ids, copied locks and foreign hosts do not break the lock.
THEOREM LockIsExclusive == Lock!Spec => []Lock!ExclusiveUnlessRaced
<1>1. Lock!TypeOK /\ Lock!HolderIsNamed => Lock!ExclusiveUnlessRaced
  BY DEF Lock!TypeOK, Lock!HolderIsNamed, Lock!ExclusiveUnlessRaced, Lock!MutualExclusion,
     Lock!Holders, Lock!LockOf
<1> QED
  BY <1>1, TypeIsInvariant, HolderIsAlwaysNamed, PTL

\* What an acquirer has judged: the lock it saw is still there, unless no owner
\* is named any more, and it unlinks no owner of another machine.
JudgedHere ==
    raced \/ \A p \in LockProc : lock.text = "owner" =>
                 /\ pc[p] = "judge" => seen[p] = lock
                 /\ pc[p] = "unlink" => HostOf[lock.by] = HostOf[p]

LEMMA JudgedHereIsInductive ==
  Lock!TypeOK /\ Lock!LockInv /\ JudgedHere /\ [Lock!Next]_Lock!vars => JudgedHere'
<1> SUFFICES ASSUME Lock!TypeOK, Lock!LockInv, JudgedHere, [Lock!Next]_Lock!vars, ~raced'
             PROVE  JudgedHere'
  BY DEF JudgedHere
<1>0. ~raced
  BY DEF Lock!Next, Lock!Step, Lock!Start, Lock!Create, Lock!Exists, Lock!Write, Lock!Read,
     Lock!Refuse, Lock!Judge, Lock!Reclaim, Lock!Finish,
     Lock!Drop, Lock!Crash, Lock!vars
<1> USE <1>0 DEF Lock!TypeOK, JudgedHere
<1>1. ASSUME NEW p \in LockProc, Lock!Start(p) \/ Lock!Exists(p) \/ Lock!Finish(p) PROVE JudgedHere'
  BY <1>1 DEF Lock!Start, Lock!Exists, Lock!Finish, Lock!Goto
<1>2. ASSUME NEW p \in LockProc, Lock!Create(p) PROVE JudgedHere'
  BY <1>2 DEF Lock!Create, Lock!LockOf
<1>3. ASSUME NEW p \in LockProc, Lock!Write(p) PROVE JudgedHere'
  <2>1. \A q \in LockProc : pc[q] # "judge" /\ pc[q] # "unlink"
    BY <1>3 DEF Lock!Write, Lock!LockInv, Lock!Acquiring
  <2> QED
    BY <1>3, <2>1 DEF Lock!Write, Lock!Goto
<1>4. ASSUME NEW p \in LockProc, Lock!Read(p) PROVE JudgedHere'
  BY <1>4 DEF Lock!Read, Lock!Goto
<1>5. ASSUME NEW p \in LockProc, Lock!Refuse(p) \/ Lock!Crash(p) PROVE JudgedHere'
  BY <1>5 DEF Lock!Refuse, Lock!Crash, Lock!Goto, Lock!Forget
<1>6. ASSUME NEW p \in LockProc, Lock!Judge(p) PROVE JudgedHere'
  BY <1>6 DEF Lock!Judge, Lock!Stale, Lock!Goto, Lock!Forget
<1>7. ASSUME NEW p \in LockProc, Lock!Reclaim(p) \/ Lock!Drop(p) PROVE JudgedHere'
  BY <1>7 DEF Lock!Reclaim, Lock!Drop, Lock!NoLock
<1>8. CASE UNCHANGED Lock!vars
  BY <1>8 DEF Lock!vars
<1> QED
  BY <1>1, <1>2, <1>3, <1>4, <1>5, <1>6, <1>7, <1>8 DEF Lock!Next, Lock!Step

\* Until two acquisitions overlap, the claim of a run on another machine goes
\* away only by that machine's runs (transfer_lock's judgement and way out).
THEOREM ForeignLockIsKept == Lock!Spec => Lock!ForeignLockStays
<1>1. Lock!Init => Lock!LockInv /\ JudgedHere
  BY DEF Lock!Init, Lock!LockInv, JudgedHere, Lock!Holders, Lock!Acquiring
<1> DEFINE Stays == (lock.text = "owner" /\ lock' # lock /\ ~raced
        => \E p \in LockProc :
              /\ HostOf[p] = HostOf[lock.by]
              /\ pc[p] \in {"drop", "unlink"} /\ pc'[p] # pc[p])
<1>2. ASSUME Lock!TypeOK, Lock!LockInv, JudgedHere, [Lock!Next]_Lock!vars PROVE [Stays]_Lock!vars
  <2> SUFFICES ASSUME lock.text = "owner", lock' # lock, ~raced PROVE Stays
    OBVIOUS
  <2>1. PICK p \in LockProc : Lock!Create(p) \/ Lock!Write(p) \/ Lock!Reclaim(p) \/ Lock!Drop(p)
    BY <1>2 DEF Lock!Next, Lock!Step, Lock!Start, Lock!Exists, Lock!Read, Lock!Refuse, Lock!Judge,
       Lock!Finish, Lock!Crash, Lock!vars
  <2>2. CASE Lock!Create(p) \/ Lock!Write(p)
    BY <2>2 DEF Lock!Create, Lock!Write, Lock!NoLock, Lock!LockOf
  <2>3. CASE Lock!Reclaim(p)
    BY <1>2, <2>3 DEF Lock!Reclaim, Lock!Goto, JudgedHere, Lock!TypeOK
  <2>4. CASE Lock!Drop(p)
    BY <1>2, <2>4 DEF Lock!Drop, Lock!Goto, Lock!LockInv, Lock!Holders, Lock!LockOf, Lock!TypeOK
  <2> QED
    BY <2>1, <2>2, <2>3, <2>4
<1>3. Lock!TypeOK /\ Lock!LockInv /\ JudgedHere /\ [Lock!Next]_Lock!vars => [Stays]_Lock!vars
  BY <1>2
<1> QED
  BY <1>1, <1>3, TypeIsInvariant, LockInvIsInductive, JudgedHereIsInductive, PTL
  DEF Lock!Spec, Lock!ForeignLockStays
-----------------------------------------------------------------------------
(* The lock beside the other parts.                                         *)

\* The lock behaves as it does alone, or nothing of it moves.
OnLock == part = "lock"
LEMMA LockAlone ==
  PartsSpec => \/ Lock!Spec /\ []OnLock
               \/ []~OnLock /\ [][FALSE]_Lock!vars
<1>1. PartsInit => Lock!Init
  BY DEF PartsInit
<1>2. [PartsNext]_partsVars =>
        \/ OnLock /\ OnLock' /\ [Lock!Next]_Lock!vars
        \/ ~OnLock /\ ~OnLock' /\ [FALSE]_Lock!vars
  BY DEF PartsNext, partsVars, OnLock, Lock!vars, vars, mains, jobs, signals, linkVars, panelVars,
         recordVars, envVars, boardVars, catalogVars, roomVars, classVars, lockVars
<1> QED
  BY <1>1, <1>2, PTL DEF PartsSpec, Lock!Spec

\* Of the parts together: two runs hold a bundle at once only if two acquisitions
\* overlapped (transfer.transfer_lock).
THEOREM PartsHoldApart == PartsSpec => []ExclusiveUnlessRaced
<1>1. Lock!ExclusiveUnlessRaced \/ ~OnLock => ExclusiveUnlessRaced
  BY DEF ExclusiveUnlessRaced, OnLock
<1> QED
  BY <1>1, LockAlone, LockIsExclusive, PTL

\* Of the parts together: a lock of another machine is left to that machine
\* (transfer.transfer_lock).
THEOREM PartsKeepForeignLocks == PartsSpec => ForeignLockStays
BY LockAlone, ForeignLockIsKept, PTL DEF ForeignLockStays, Lock!ForeignLockStays
=============================================================================
