--------------------------- MODULE HandoffProofs ---------------------------
(***************************************************************************)
(* Proofs about Handoff for any vaults, files and assemble commands, with  *)
(* or without --handoff, any sources and destinations.                     *)
(*                                                                         *)
(* The argument: what a job has locked nobody else writes                  *)
(* (LockedIsUntouched), so what it remembers of the destination is true    *)
(* from its last reconcile on (JobInv).  What it remembers of a source was *)
(* read before any lock, and is true if the source did not change until    *)
(* its release (FromLoad; `stale` says that it did).  Both together keep a *)
(* good and recorded copy of every file that some ledger, on disk or in    *)
(* memory, calls handed off (HandedOffIsKept).                             *)
(***************************************************************************)
EXTENDS Handoff, TLAPS

\* What is assumed of the jobs and their vaults.
LEMMA ConstantTypes ==
    /\ Dest \in [Job -> Vault] /\ \A j \in Job : Sources[j] \subseteq Vault
    /\ MaxFaults \in Nat /\ MaxLoss \in Nat /\ "nobody" \notin Job
BY HandoffAssumption

\* Reconcile makes a record and a file of whatever it finds (reconcile in
\* transfer.py), also of a file no ledger mentions.
LEMMA ReconciledTypes ==
    /\ \A r \in Rec, b \in OnDisk : Reconciled(r, b) \in Rec /\ Cleaned(r, b) \in OnDisk
    /\ \A b \in OnDisk : Reconciled("none", b) \in Rec /\ Cleaned("none", b) \in OnDisk
BY DEF Reconciled, Cleaned, Rec, OnDisk, Sized

\* Every entry of a ledger is a record; a missing ledger has none.
LEMMA LedgerRecords ==
    /\ Fresh \in Ledger
    /\ \A L \in Ledger \cup {NoFile}, f \in File : L[f] \in Rec \cup {"none"}
BY DEF Fresh, Ledger, Rec, NoFile

\* No step leaves the types, an archive's as little as an assemble's.
LEMMA TypeInductive == TypeOK /\ [Next]_vars => TypeOK'
<1> SUFFICES ASSUME TypeOK, [Next]_vars PROVE TypeOK'
  OBVIOUS
<1> USE ConstantTypes
<1>1. ASSUME NEW v \in Vault, NEW f \in File, ArchiveReconciles(v, f) PROVE TypeOK'
  <2>1. ledger[v] \in Ledger /\ bytes[v][f] \in OnDisk
    BY <1>1 DEF TypeOK, ArchiveReconciles, ArchiveAt
  <2>2. /\ Reconciled(ledger[v][f], bytes[v][f]) \in Rec
        /\ Cleaned(ledger[v][f], bytes[v][f]) \in OnDisk
    BY <2>1, ReconciledTypes DEF Ledger
  <2>3. ledger' \in [Vault -> Ledger \cup {NoFile}]
    BY <1>1, <2>1, <2>2 DEF TypeOK, ArchiveReconciles, Ledger
  <2>4. bytes' \in [Vault -> [File -> OnDisk]]
    BY <1>1, <2>2 DEF TypeOK, ArchiveReconciles
  <2> QED
    BY <1>1, <2>3, <2>4 DEF TypeOK, ArchiveReconciles, local, ghost
<1>2. ASSUME NEW v \in Vault, NEW f \in File, ArchiveFetches(v, f) PROVE TypeOK'
  <2>1. ledger[v] \in Ledger
    BY <1>2 DEF TypeOK, ArchiveFetches, ArchiveAt
  <2> QED
    BY <1>2, <2>1 DEF TypeOK, ArchiveFetches, Written, local, ghost, Ledger, Rec, OnDisk, Sized
<1>3. ASSUME NEW v \in Vault, ArchiveRegisters(v) PROVE TypeOK'
  BY <1>3 DEF TypeOK, ArchiveRegisters, local, ghost
<1>4. ASSUME NEW j \in Job, Launch(j) PROVE TypeOK'
  BY <1>4 DEF TypeOK, Launch, Goto, Places, disk, ghost
<1>5. ASSUME NEW j \in Job, Refuse(j) PROVE TypeOK'
  BY <1>5 DEF TypeOK, Refuse, Quit, Goto, Places, disk, ghost
<1>6. ASSUME NEW j \in Job, LockDest(j) PROVE TypeOK'
  <2>1. mem' \in [Job -> Ledger \cup {NoFile}]
    BY <1>6, LedgerRecords DEF TypeOK, LockDest
  <2>2. ledger' \in [Vault -> Ledger \cup {NoFile}]
    BY <1>6, <2>1 DEF TypeOK, LockDest
  <2> QED
    BY <1>6, <2>1, <2>2 DEF TypeOK, LockDest, Goto, Places, ghost
<1>7. ASSUME NEW j \in Job, ReconcileDest(j) 
      PROVE /\ mem' \in [Job -> Ledger \cup {NoFile}]
            /\ ledger' \in [Vault -> Ledger \cup {NoFile}]
            /\ bytes' \in [Vault -> [File -> OnDisk]]
  <2> DEFINE L == [f \in File |-> Reconciled(mem[j][f], bytes[Dest[j]][f])]
             B == [f \in File |-> Cleaned(mem[j][f], bytes[Dest[j]][f])]
  <2>1. ASSUME NEW f \in File
        PROVE  /\ Reconciled(mem[j][f], bytes[Dest[j]][f]) \in Rec
               /\ Cleaned(mem[j][f], bytes[Dest[j]][f]) \in OnDisk
    <3>1. mem[j] \in Ledger \cup {NoFile} /\ bytes[Dest[j]][f] \in OnDisk
      BY DEF TypeOK
    <3>2. mem[j][f] \in Rec \cup {"none"}
      BY <3>1, LedgerRecords
    <3> QED
      BY <3>1, <3>2, ReconciledTypes
  <2>2. L \in Ledger /\ B \in [File -> OnDisk]
    BY <2>1 DEF Ledger
  <2>3. /\ mem' = [mem EXCEPT ![j] = L]
        /\ ledger' = ledger \/ ledger' = [ledger EXCEPT ![Dest[j]] = L]
        /\ bytes' = bytes \/ bytes' = [bytes EXCEPT ![Dest[j]] = B]
    BY <1>7 DEF ReconcileDest, TypeOK
  <2> HIDE DEF L, B
  <2>4. /\ mem \in [Job -> Ledger \cup {NoFile}] /\ ledger \in [Vault -> Ledger \cup {NoFile}]
        /\ bytes \in [Vault -> [File -> OnDisk]]
    BY DEF TypeOK
  <2>5. mem' \in [Job -> Ledger \cup {NoFile}]
    BY <2>2, <2>3, <2>4
  <2>6. ledger' \in [Vault -> Ledger \cup {NoFile}]
    BY <2>2, <2>3, <2>4
  <2>7. bytes' \in [Vault -> [File -> OnDisk]]
    BY <2>2, <2>3, <2>4
  <2> QED
    BY <2>5, <2>6, <2>7
<1>8. ASSUME NEW j \in Job, Open(j) PROVE TypeOK'
  <2>1. /\ ReconcileDest(j) /\ UNCHANGED <<snap, frozen, cur, left, item, gave>>
        /\ \E place \in Places : pc' = [pc EXCEPT ![j] = place]
        /\ \E S \in SUBSET Vault : todo' = [todo EXCEPT ![j] = S]
    BY <1>8 DEF Open, Goto, Releasable, Places
  <2>2. UNCHANGED <<registered, wet, lock, ghost>>
    BY <2>1 DEF ReconcileDest
  <2> QED
    BY <1>7, <2>1, <2>2 DEF TypeOK, ghost
<1>9. ASSUME NEW j \in Job, Adopt(j) PROVE TypeOK'
  <2>1. /\ ReconcileDest(j) /\ UNCHANGED <<snap, frozen, cur, left, item, gave>>
        /\ \E place \in Places : pc' = [pc EXCEPT ![j] = place]
        /\ todo' = todo \/ todo' = [todo EXCEPT ![j] = Releasable(j)]
    BY <1>9 DEF Adopt, Goto, Places
  <2>3. Releasable(j) \subseteq Vault
    BY DEF Releasable
  <2>4. todo' \in [Job -> SUBSET Vault]
    BY <2>1, <2>3 DEF TypeOK
  <2>2. UNCHANGED <<registered, wet, lock, ghost>>
    BY <2>1 DEF ReconcileDest
  <2> QED
    <3>1. pc' \in [Job -> Places]
      BY <2>1 DEF TypeOK
    <3> QED
      BY <1>7, <2>1, <2>2, <2>4, <3>1 DEF TypeOK, ghost
<1>10. ASSUME NEW j \in Job, NEW s \in Vault, Merge(j, s) PROVE TypeOK'
  BY <1>10 DEF TypeOK, Merge, Goto, Places, disk, ghost
<1>11. ASSUME NEW j \in Job, NEW f \in File, BeginCopy(j, f) PROVE TypeOK'
  BY <1>11 DEF TypeOK, BeginCopy, Written, Goto, Places, ghost, OnDisk
<1>12. ASSUME NEW j \in Job, NEW f \in File, CopyVanished(j, f) PROVE TypeOK'
  BY <1>12 DEF TypeOK, CopyVanished, Goto, Places, disk, local, ghost
<1>13. ASSUME NEW j \in Job, EndCopy(j) PROVE TypeOK'
  <2>1. bytes' \in [Vault -> [File -> OnDisk]]
    <3>1. PICK c : /\ bytes' = [bytes EXCEPT ![Dest[j]][item[j]] = c]
                   /\ item[j] \in File => c \in OnDisk
      <4>1. bytes[cur[j]] \in [File -> OnDisk]
        BY DEF TypeOK
      <4> QED
        BY <1>13, <4>1 DEF EndCopy, OnDisk, Sized
    <3> QED
      BY <3>1 DEF TypeOK
  <2> QED
    BY <1>13, <2>1 DEF TypeOK, EndCopy, Goto, Places, ghost
<1>14. ASSUME NEW j \in Job, NEW s \in Vault, Release(j, s) PROVE TypeOK'
  BY <1>14 DEF TypeOK, Release, Goto, Places, disk
<1>15. ASSUME NEW j \in Job, ReleaseRefused(j) PROVE TypeOK'
  BY <1>15 DEF TypeOK, ReleaseRefused, Goto, Places, disk, local, ghost
<1>16. ASSUME NEW j \in Job, NEW f \in File, HandOff(j, f) PROVE TypeOK'
  <2>1. snap' \in [Job -> [Vault -> Ledger \cup {NoFile}]]
    <3>1. Source(j) \in Ledger
      BY <1>16 DEF HandOff, Gone, Source, TypeOK, NoFile
    <3> QED
      BY <1>16, <3>1 DEF HandOff, Source, TypeOK, Ledger, Rec
  <2> QED
    BY <1>16, <2>1 DEF TypeOK, HandOff, Goto, Places, ghost, OnDisk
<1>17. ASSUME NEW j \in Job, SaveSource(j) PROVE TypeOK'
  BY <1>17 DEF TypeOK, SaveSource, Source, Goto, Places, local, ghost
<1>18. ASSUME NEW j \in Job, Settle(j) PROVE TypeOK'
  BY <1>18 DEF TypeOK, Settle, Unlocked, Source, Goto, Places, ghost
<1>19. ASSUME NEW j \in Job, Dissolve(j) PROVE TypeOK'
  BY <1>19 DEF TypeOK, Dissolve, Unlocked, Goto, Places, ghost, NoBytes, OnDisk
<1>20. ASSUME NEW j \in Job, Finish(j) PROVE TypeOK'
  BY <1>20 DEF TypeOK, Finish, Quit, Goto, Places, ghost
<1>21. ASSUME NEW j \in Job, Crash(j) PROVE TypeOK'
  BY <1>21 DEF TypeOK, Crash, Fault, Quit, Goto, Places, disk
<1>22. ASSUME NEW j \in Job, FailCopy(j) PROVE TypeOK'
  BY <1>22 DEF TypeOK, FailCopy, Fault, Goto, Places, disk, local
<1>23. ASSUME NEW v \in Vault, NEW f \in File, Rot(v, f) PROVE TypeOK'
  BY <1>23 DEF TypeOK, Rot, Fault, local, OnDisk, Sized
<1>24. ASSUME NEW v \in Vault, Flush(v) PROVE TypeOK'
  BY <1>24 DEF TypeOK, Flush, local, ghost
<1>25. ASSUME NEW v \in Vault, PowerLoss(v) PROVE TypeOK'
  BY <1>25 DEF TypeOK, PowerLoss, local, OnDisk
<1>26. CASE UNCHANGED vars
  BY <1>26 DEF TypeOK, vars, disk, local, ghost
<1> QED
  BY <1>1, <1>2, <1>3, <1>4, <1>5, <1>6, <1>8, <1>9, <1>10, <1>11, <1>12, <1>13, <1>14, <1>15,
     <1>16, <1>17, <1>18, <1>19, <1>20, <1>21, <1>22, <1>23, <1>24, <1>25, <1>26
  DEF Next, Archive, Assemble, World

\* The vaults as they are found are in their types.
LEMMA InitTypes == Init => TypeOK
<1> SUFFICES ASSUME Init PROVE TypeOK
  OBVIOUS
<1>1. bytes \in [Vault -> [File -> OnDisk]] /\ ledger \in [Vault -> Ledger \cup {NoFile}]
  BY LedgerRecords DEF Init, NoBytes, OnDisk
<1>2. snap \in [Job -> [Vault -> Ledger \cup {NoFile}]] /\ mem \in [Job -> Ledger \cup {NoFile}]
  BY DEF Init
<1>3. lock \in [Vault -> Job \cup {Nobody}] /\ pc \in [Job -> Places]
  BY DEF Init, Places
<1>4. todo \in [Job -> SUBSET Vault] /\ left \in [Job -> SUBSET File] /\ cur \in [Job -> Vault]
  BY ConstantTypes DEF Init
<1>5. faults \in 0..MaxFaults /\ losses \in 0..MaxLoss
  BY ConstantTypes DEF Init
<1> QED
  BY <1>1, <1>2, <1>3, <1>4, <1>5 DEF Init, TypeOK

\* Every variable of the hand-off stays in its type, whoever crashes.
THEOREM HandoffTypes == Spec => []TypeOK
BY InitTypes, TypeInductive, PTL DEF Spec

-----------------------------------------------------------------------------
Out       == {"off", "lock"}
Releasing == {"release", "hand", "save"}
Handing   == {"hand", "save"}

\* The destination is locked from the load of its ledger to the end, a source
\* while its files go; a source that is the destination is never released.
Held(j) ==
    /\ pc[j] \notin Out => lock[Dest[j]] = j
    /\ pc[j] \in Handing => lock[cur[j]] = j
    /\ pc[j] \in Releasing => todo[j] \subseteq Releasable(j)
    /\ pc[j] \in Handing => cur[j] \in Releasable(j)

\* What the job remembers of the source ledgers and of the destination's; the
\* latter is what is on disk, unless the destination is frozen.
Loaded(j) ==
    /\ pc[j] # "off" => \A s \in Sources[j] : snap[j][s] \in Ledger
    /\ pc[j] \notin Out => mem[j] \in Ledger
    /\ pc[j] \notin Out /\ ~frozen[j] => ledger[Dest[j]] = mem[j]

\* What is still to be copied is not there yet, what is being copied is short.
Copying(j) ==
    /\ pc[j] \in {"copy", "copying"} => \A f \in left[j] : bytes[Dest[j]][f] = "absent"
    /\ pc[j] = "copying" => /\ item[j] \in File \ left[j]
                            /\ bytes[Dest[j]][item[j]] = "short"

\* What the destination vouches for has its size there, from the last reconcile
\* to the last hand-off.
Vouched(j) ==
    pc[j] \in Releasing =>
        \A f \in File : mem[j][f] = "verified" => bytes[Dest[j]][f] \in Sized

JobInv(j) == Held(j) /\ Loaded(j) /\ Copying(j) /\ Vouched(j)

\* The steps of one job, and those of everybody else.
Own(j) == Launch(j) \/ Assemble(j) \/ Crash(j) \/ FailCopy(j)
Others(j) ==
    \/ Archive \/ UNCHANGED vars
    \/ \E v \in Vault : PowerLoss(v) \/ Flush(v) \/ \E f \in File : Rot(v, f)
    \/ \E k \in Job \ {j} : Own(k)

\* Every step is one of a given job or of somebody else.
LEMMA WhoSteps == \A j \in Job : [Next]_vars => Own(j) \/ Others(j)
BY DEF Next, Own, Others, World

\* Every step of a job, by what it does.
LEMMA OwnSteps ==
    ASSUME NEW j \in Job, Own(j)
    PROVE  \/ Launch(j) \/ Refuse(j) \/ LockDest(j) \/ Open(j) \/ EndCopy(j) \/ Adopt(j)
           \/ ReleaseRefused(j) \/ SaveSource(j) \/ Settle(j) \/ Dissolve(j) \/ Finish(j)
           \/ Crash(j) \/ FailCopy(j)
           \/ \E s \in Vault : Merge(j, s) \/ Release(j, s)
           \/ \E f \in File : BeginCopy(j, f) \/ CopyVanished(j, f) \/ HandOff(j, f)
BY DEF Own, Assemble

\* What a job remembers, and the control it is at, is its own.
Private(j) == <<pc[j], snap[j], frozen[j], mem[j], todo[j], cur[j], left[j], item[j], gave[j]>>

\* Nobody changes what another assemble remembers.
LEMMA MemoryIsPrivate ==
    ASSUME TypeOK, NEW j \in Job, Others(j)
    PROVE  UNCHANGED Private(j)
<1> USE DEF TypeOK, Private, Goto
<1>1. CASE Archive
  BY <1>1 DEF Archive, ArchiveReconciles, ArchiveFetches, ArchiveRegisters, local
<1>2. CASE UNCHANGED vars
  BY <1>2 DEF vars, local
<1>3. ASSUME NEW v \in Vault, PowerLoss(v) \/ Flush(v) \/ \E f \in File : Rot(v, f)
      PROVE  UNCHANGED Private(j)
  BY <1>3 DEF PowerLoss, Flush, Rot, local
<1>4. ASSUME NEW k \in Job \ {j}, Own(k) PROVE UNCHANGED Private(j)
  <2>1. CASE Launch(k) \/ Refuse(k) \/ Finish(k) \/ Crash(k)
    BY <2>1, <1>4 DEF Launch, Refuse, Finish, Crash, Quit
  <2>2. CASE LockDest(k) \/ Open(k) \/ Adopt(k)
    BY <2>2, <1>4 DEF LockDest, Open, Adopt, ReconcileDest
  <2>3. CASE EndCopy(k) \/ FailCopy(k) \/ ReleaseRefused(k) \/ \E s \in Vault : Merge(k, s)
    BY <2>3, <1>4 DEF EndCopy, FailCopy, ReleaseRefused, Merge, local
  <2>4. CASE \E f \in File : BeginCopy(k, f) \/ CopyVanished(k, f)
    BY <2>4, <1>4 DEF BeginCopy, CopyVanished, local
  <2>5. CASE \E s \in Vault : Release(k, s)
    BY <2>5, <1>4 DEF Release
  <2>6. CASE \E f \in File : HandOff(k, f)
    BY <2>6, <1>4 DEF HandOff
  <2>7. CASE SaveSource(k) \/ Settle(k) \/ Dissolve(k)
    BY <2>7, <1>4 DEF SaveSource, Settle, Dissolve, Unlocked, local
  <2> QED
    BY <1>4, <2>1, <2>2, <2>3, <2>4, <2>5, <2>6, <2>7, OwnSteps
<1> QED
  BY <1>1, <1>2, <1>3, <1>4 DEF Others

\* A vault a job has locked is left alone by everybody else, but for rot.
Rots(v, f) == bytes[v][f] = "good" /\ bytes[v][f]' = "rotten" /\ f \in harmed'
Untouched(v) ==
    /\ UNCHANGED <<lock[v], ledger[v], registered[v]>>
    /\ \A f \in File : bytes[v][f]' = bytes[v][f] \/ Rots(v, f)

LEMMA LockedIsUntouched ==
    ASSUME TypeOK, \A k \in Job : Held(k),
           NEW j \in Job, Others(j), NEW v \in Vault, lock[v] = j
    PROVE  Untouched(v)
<1>0. lock[v] # Nobody
  BY ConstantTypes DEF Nobody
<1> USE ConstantTypes DEF TypeOK, Untouched
<1>1. CASE Archive
  BY <1>0, <1>1 DEF Archive, ArchiveReconciles, ArchiveFetches, ArchiveRegisters, ArchiveAt
<1>2. CASE UNCHANGED vars
  BY <1>2 DEF vars, disk
<1>3. ASSUME NEW w \in Vault, PowerLoss(w) PROVE Untouched(v)
  BY <1>0, <1>3 DEF PowerLoss
<1>4. ASSUME NEW w \in Vault, Flush(w) PROVE Untouched(v)
  BY <1>4 DEF Flush
<1>5. ASSUME NEW w \in Vault, NEW f \in File, Rot(w, f) PROVE Untouched(v)
  BY <1>5 DEF Rot, Rots
<1>6. ASSUME NEW k \in Job \ {j}, Own(k) PROVE Untouched(v)
  <2>0. /\ pc[k] \notin Out => Dest[k] # v
        /\ pc[k] \in Handing => cur[k] # v
    BY DEF Held
  <2>1. CASE Launch(k) \/ Refuse(k) \/ FailCopy(k) \/ ReleaseRefused(k) \/ \E s \in Vault : Merge(k, s)
    BY <2>1 DEF Launch, Refuse, FailCopy, ReleaseRefused, Merge, disk
  <2>2. CASE Finish(k)
    BY <2>0, <2>2 DEF Finish, Out
  <2>3. CASE Crash(k)
    BY <2>3 DEF Crash, disk
  <2>4. CASE LockDest(k)
    <3>1. Dest[k] # v
      BY <1>0, <2>4 DEF LockDest, Blocked
    <3> QED
      BY <2>4, <3>1 DEF LockDest
  <2>5. CASE Open(k) \/ Adopt(k)
    BY <2>0, <2>5 DEF Open, Adopt, ReconcileDest, Out
  <2>6. CASE EndCopy(k) \/ \E f \in File : BeginCopy(k, f) \/ CopyVanished(k, f)
    BY <2>0, <2>6 DEF EndCopy, BeginCopy, CopyVanished, disk, Out
  <2>7. CASE \E s \in Vault : Release(k, s)
    BY <1>0, <2>7 DEF Release, disk
  <2>8. CASE \E f \in File : HandOff(k, f)
    BY <2>0, <2>8 DEF HandOff, Handing
  <2>9. CASE SaveSource(k) \/ Settle(k) \/ Dissolve(k)
    BY <2>0, <2>9 DEF SaveSource, Settle, Dissolve, Unlocked, Handing
  <2> QED
    BY <1>6, <2>1, <2>2, <2>3, <2>4, <2>5, <2>6, <2>7, <2>8, <2>9, OwnSteps
<1> QED
  BY <1>1, <1>2, <1>3, <1>4, <1>5, <1>6 DEF Others

\* What a job goes by survives the steps of everybody else, since they do not
\* hold its locks.
LEMMA OthersKeepJobInv ==
    ASSUME TypeOK, \A k \in Job : Held(k), NEW j \in Job, JobInv(j), Others(j)
    PROVE  JobInv(j)'
<1>1. UNCHANGED Private(j)
  BY MemoryIsPrivate
<1>2. \A v \in Vault : lock[v] = j => Untouched(v)
  BY LockedIsUntouched
<1>3. Dest[j] \in Vault /\ cur[j] \in Vault
  BY ConstantTypes DEF TypeOK
<1> USE <1>1, <1>2, <1>3 DEF Private, Untouched
<1>4. Held(j)'
  BY DEF JobInv, Held, Handing, Out, Releasing, Releasable
<1>5. Loaded(j)'
  BY DEF JobInv, Held, Loaded, Out
<1>6. pc[j] \notin Out => \A f \in File : \/ bytes[Dest[j]][f]' = bytes[Dest[j]][f]
                                         \/ Rots(Dest[j], f)
  BY DEF JobInv, Held
<1>7. Copying(j)'
  <2>1. SUFFICES ASSUME pc[j] \in {"copy", "copying"} PROVE Copying(j)'
    BY DEF Copying
  <2>2. \A f \in File : bytes[Dest[j]][f] # "good" => bytes[Dest[j]][f]' = bytes[Dest[j]][f]
    BY <1>6, <2>1 DEF Rots, Out
  <2>3. left[j] \subseteq File /\ Copying(j)
    BY DEF TypeOK, JobInv
  <2> QED
    BY <2>1, <2>2, <2>3 DEF Copying
<1>8. Vouched(j)'
  BY <1>6 DEF JobInv, Vouched, Rots, Sized, Releasing, Out
<1> QED
  BY <1>4, <1>5, <1>7, <1>8 DEF JobInv

\* What reconciling the destination leaves: a record of every file, on disk too
\* unless it is frozen, and nothing verified that has not its size.
LEMMA ReconcileDestLeaves ==
    ASSUME TypeOK, NEW j \in Job, mem[j] \in Ledger, ReconcileDest(j)
    PROVE  /\ mem[j]' \in Ledger
           /\ ~frozen[j] => ledger[Dest[j]]' = mem[j]'
           /\ frozen[j] => UNCHANGED <<bytes, ledger>>
           /\ \A f \in File : /\ mem[j][f]' = Reconciled(mem[j][f], bytes[Dest[j]][f])
                              /\ mem[j][f]' = "verified" =>
                                    /\ bytes[Dest[j]][f] \in Sized
                                    /\ bytes[Dest[j]][f]' = bytes[Dest[j]][f]
                              /\ mem[j][f]' = "handed_off" => mem[j][f] = "handed_off"
                              /\ bytes[Dest[j]][f] = "good" => mem[j][f]' = "verified"
           /\ \A v \in Vault \ {Dest[j]} : UNCHANGED <<ledger[v], bytes[v]>>
           /\ \A k \in Job \ {j} : UNCHANGED mem[k]
<1> DEFINE L == [f \in File |-> Reconciled(mem[j][f], bytes[Dest[j]][f])]
           B == [f \in File |-> Cleaned(mem[j][f], bytes[Dest[j]][f])]
<1>0. bytes[Dest[j]] \in [File -> OnDisk] /\ Dest[j] \in Vault
  BY ConstantTypes DEF TypeOK
<1>1. \A f \in File : mem[j][f] \in Rec /\ bytes[Dest[j]][f] \in OnDisk
  BY <1>0 DEF Ledger
<1>2. L \in Ledger
  BY <1>1, ReconciledTypes DEF Ledger
<1>3. /\ mem' = [mem EXCEPT ![j] = L]
      /\ frozen[j] => UNCHANGED <<bytes, ledger>>
      /\ ~frozen[j] => /\ ledger' = [ledger EXCEPT ![Dest[j]] = L]
                       /\ bytes' = [bytes EXCEPT ![Dest[j]] = B]
  BY DEF ReconcileDest, TypeOK
<1>4. ASSUME NEW f \in File
      PROVE  /\ L[f] = "verified" => bytes[Dest[j]][f] \in Sized /\ B[f] = bytes[Dest[j]][f]
             /\ L[f] = "handed_off" => mem[j][f] = "handed_off"
             /\ bytes[Dest[j]][f] = "good" => L[f] = "verified"
  BY <1>1 DEF Reconciled, Cleaned, Sized
<1>5. \A f \in File : L[f] = Reconciled(mem[j][f], bytes[Dest[j]][f])
  OBVIOUS
<1> HIDE DEF L, B
<1>6. /\ mem[j]' = L
      /\ ~frozen[j] => ledger[Dest[j]]' = L /\ bytes[Dest[j]]' = B
      /\ frozen[j] => UNCHANGED <<bytes, ledger>>
  BY <1>0, <1>3 DEF TypeOK
<1>7. /\ \A v \in Vault \ {Dest[j]} : UNCHANGED <<ledger[v], bytes[v]>>
      /\ \A k \in Job \ {j} : UNCHANGED mem[k]
  BY <1>0, <1>3 DEF TypeOK
<1> QED
  BY <1>2, <1>4, <1>5, <1>6, <1>7

\* ... and its own: reconcile, copy, release, hand-off, save and settle.
LEMMA OwnKeepsJobInv ==
    ASSUME TypeOK, \A k \in Job : Held(k), NEW j \in Job, JobInv(j), Own(j)
    PROVE  JobInv(j)'
<1>0. /\ Dest[j] \in Vault /\ cur[j] \in Vault /\ Sources[j] \subseteq Vault
      /\ Sources[j] = Sources[j]' /\ Dest[j] = Dest[j]'
      /\ "nobody" # j /\ Nobody = "nobody"
  BY ConstantTypes DEF TypeOK, Nobody
<1> USE <1>0 DEF Out, Releasing, Handing
<1>1. CASE Refuse(j) \/ Finish(j) \/ Crash(j)
  <2>1. pc[j]' = "off"
    BY <1>1 DEF Refuse, Finish, Crash, Quit, Goto, TypeOK
  <2> QED
    BY <2>1 DEF JobInv, Held, Loaded, Copying, Vouched
<1>2. CASE Launch(j)
  <2>1. pc[j]' = "lock"
    BY <1>2 DEF Launch, Goto, TypeOK
  <2>2. \A s \in Sources[j] : snap[j][s]' \in Ledger
    BY <1>2 DEF Launch, TypeOK
  <2> QED
    BY <2>1, <2>2 DEF JobInv, Held, Loaded, Copying, Vouched
<1>3. CASE LockDest(j)
  <2>1. pc[j]' = "open" /\ lock[Dest[j]]' = j /\ UNCHANGED <<snap, frozen>>
    BY <1>3 DEF LockDest, Goto, TypeOK
  <2>2. mem[j]' \in Ledger
    <3>1. Fresh \in Ledger /\ ledger[Dest[j]] \in Ledger \cup {NoFile}
      BY LedgerRecords DEF TypeOK
    <3> QED
      BY <1>3, <3>1 DEF LockDest, TypeOK
  <2>3. ~frozen[j] => ledger[Dest[j]]' = mem[j]'
    BY <1>3 DEF LockDest, TypeOK
  <2> QED
    BY <1>3, <2>1, <2>2, <2>3 DEF JobInv, Held, Loaded, Copying, Vouched, LockDest
<1>4. CASE Open(j) \/ Adopt(j)
  <2>0. pc[j] \in {"open", "copy"} /\ ReconcileDest(j)
    BY <1>4 DEF Open, Adopt
  <2>1. lock[Dest[j]] = j /\ mem[j] \in Ledger
    BY <2>0 DEF JobInv, Held, Loaded
  <2>2. /\ pc[j]' \in {"merge", "finish", "release"}
        /\ pc[j]' = "release" => todo[j]' = Releasable(j)
        /\ UNCHANGED <<snap, frozen, lock>>
    BY <1>4, <2>0 DEF Open, Adopt, ReconcileDest, Goto, TypeOK
  <2>3. Held(j)'
    BY <2>1, <2>2 DEF Held, Releasable
  <2>4. /\ mem[j]' \in Ledger
        /\ ~frozen[j] => ledger[Dest[j]]' = mem[j]'
        /\ \A f \in File : mem[j][f]' = "verified" => bytes[Dest[j]][f]' \in Sized
    BY <2>0, <2>1, ReconcileDestLeaves
  <2>5. Loaded(j)'
    BY <2>0, <2>2, <2>4 DEF JobInv, Loaded
  <2> QED
    BY <2>2, <2>3, <2>4, <2>5 DEF JobInv, Copying, Vouched
<1>5. ASSUME NEW s \in Vault, Merge(j, s) PROVE JobInv(j)'
  <2>1. pc[j] = "merge" /\ pc[j]' = "copy" /\ UNCHANGED <<lock, snap, frozen, mem, ledger, bytes>>
    BY <1>5 DEF Merge, Goto, TypeOK, disk
  <2>2. \A f \in left[j]' : bytes[Dest[j]][f] = "absent"
    BY <1>5 DEF Merge, TypeOK
  <2> QED
    BY <2>1, <2>2 DEF JobInv, Held, Loaded, Copying, Vouched
<1>6. ASSUME NEW f \in File, BeginCopy(j, f) PROVE JobInv(j)'
  <2>1. /\ pc[j] = "copy" /\ pc[j]' = "copying" /\ UNCHANGED <<lock, snap, frozen, mem, ledger>>
        /\ item[j]' = f /\ left[j]' = left[j] \ {f}
    BY <1>6 DEF BeginCopy, Goto, TypeOK
  <2>2. /\ bytes[Dest[j]][f]' = "short"
        /\ \A g \in File \ {f} : bytes[Dest[j]][g]' = bytes[Dest[j]][g]
    BY <1>6 DEF BeginCopy, TypeOK
  <2>3. left[j] \subseteq File
    BY DEF TypeOK
  <2> QED
    BY <2>1, <2>2, <2>3 DEF JobInv, Held, Loaded, Copying, Vouched
<1>7. CASE EndCopy(j)
  <2>1. /\ pc[j] = "copying" /\ pc[j]' = "copy"
        /\ UNCHANGED <<lock, snap, frozen, mem, ledger, left>>
    BY <1>7 DEF EndCopy, Goto, TypeOK
  <2>2. \A g \in File \ {item[j]} : bytes[Dest[j]][g]' = bytes[Dest[j]][g]
    BY <1>7 DEF EndCopy, TypeOK
  <2>3. left[j] \subseteq File /\ item[j] \notin left[j]
    BY <2>1 DEF TypeOK, JobInv, Copying
  <2> QED
    BY <2>1, <2>2, <2>3 DEF JobInv, Held, Loaded, Copying, Vouched
<1>8. CASE FailCopy(j) \/ ReleaseRefused(j) \/ \E f \in File : CopyVanished(j, f)
  <2>1. /\ pc[j] \notin {"off", "lock"} /\ pc[j]' = "finish"
        /\ UNCHANGED <<lock, snap, frozen, mem, ledger>>
    BY <1>8 DEF FailCopy, ReleaseRefused, CopyVanished, Goto, TypeOK, disk, local
  <2> QED
    BY <2>1 DEF JobInv, Held, Loaded, Copying, Vouched
<1>9. ASSUME NEW s \in Vault, Release(j, s) PROVE JobInv(j)'
  <2>1. /\ pc[j] = "release" /\ pc[j]' = "hand" /\ UNCHANGED <<snap, frozen, mem, ledger, bytes>>
        /\ cur[j]' = s /\ s \in todo[j] /\ todo[j]' = todo[j] \ {s}
        /\ lock[s]' = j /\ lock[s] = Nobody
        /\ \A v \in Vault \ {s} : lock[v]' = lock[v]
    BY <1>9 DEF Release, Goto, TypeOK, disk
  <2>2. lock[Dest[j]]' = j
    BY <2>1 DEF JobInv, Held
  <2> QED
    BY <2>1, <2>2 DEF JobInv, Held, Loaded, Copying, Vouched, Releasable
<1>10. ASSUME NEW f \in File, HandOff(j, f) PROVE JobInv(j)'
  <2>1. /\ pc[j] = "hand" /\ pc[j]' = "save"
        /\ UNCHANGED <<lock, frozen, mem, ledger, cur, todo>>
    BY <1>10 DEF HandOff, Goto, TypeOK
  <2>2. cur[j] # Dest[j] /\ cur[j] \in Sources[j]
    BY <2>1 DEF JobInv, Held, Releasable
  <2>3. bytes[Dest[j]]' = bytes[Dest[j]]
    BY <1>10, <2>2 DEF HandOff, TypeOK
  <2>4. \A s \in Sources[j] : snap[j][s]' \in Ledger
    <3>1. \A s \in Sources[j] : snap[j][s] \in Ledger
      BY <2>1 DEF JobInv, Loaded
    <3> QED
      BY <1>10, <3>1 DEF HandOff, TypeOK, Ledger, Rec
  <2> QED
    BY <2>1, <2>3, <2>4 DEF JobInv, Held, Loaded, Copying, Vouched, Releasable
<1>11. CASE SaveSource(j) \/ Settle(j) \/ Dissolve(j)
  <2>1. /\ pc[j] \in Handing /\ pc[j]' \in {"hand", "release"}
        /\ pc[j]' = "hand" => pc[j] = "save" /\ lock' = lock
        /\ UNCHANGED <<snap, frozen, mem, cur, todo>>
    BY <1>11 DEF SaveSource, Settle, Dissolve, Unlocked, Goto, TypeOK, local
  <2>2. cur[j] # Dest[j]
    BY <2>1 DEF JobInv, Held, Releasable
  <2>3. UNCHANGED <<lock[Dest[j]], ledger[Dest[j]], bytes[Dest[j]]>>
    BY <1>11, <2>2 DEF SaveSource, Settle, Dissolve, Unlocked, TypeOK
  <2> QED
    BY <2>1, <2>3 DEF JobInv, Held, Loaded, Copying, Vouched, Releasable
<1> QED
  BY <1>1, <1>2, <1>3, <1>4, <1>5, <1>6, <1>7, <1>8, <1>9, <1>10, <1>11, OwnSteps

-----------------------------------------------------------------------------
\* A vault that holds the file whole and knows it.
Keeper(w, f) == bytes[w][f] = "good" /\ ledger[w][f] = "verified"
Kept(f) == \E w \in Vault : Keeper(w, f)

\* Some ledger, on disk or in the memory of a job, says it was handed off.
Told(f) == \/ \E v \in Vault : ledger[v][f] = "handed_off"
           \/ \E j \in Job : mem[j][f] = "handed_off"
           \/ \E j \in Job, v \in Vault : snap[j][v][f] = "handed_off"

OnlyHarmedRots    == \A v \in Vault, f \in File \ harmed : bytes[v][f] # "rotten"
RegisteredIsWhole == \A v \in Vault, f \in File \ harmed : registered[v] => Keeper(v, f)
HandedOffIsKept   == \A f \in File \ harmed : Told(f) => Kept(f)

\* What a job read before it held a lock, and still goes by: the destination it
\* found registered is, the source is not, and its ledger is the one in memory
\* but for the file that goes just now.
FromLoad(j) ==
    /\ pc[j] # "off" /\ frozen[j] => registered[Dest[j]]
    /\ pc[j] \in Handing => ~registered[cur[j]]
    /\ pc[j] = "hand" => ledger[cur[j]] = Source(j)
    /\ pc[j] = "save" =>
          \A f \in File : \/ ledger[cur[j]][f] = Source(j)[f]
                          \/ /\ Source(j)[f] = "handed_off" /\ mem[j][f] = "verified"
                             /\ bytes[cur[j]][f] = "absent"

HandoffInv ==
    /\ TypeOK /\ OnlyHarmedRots
    /\ \A j \in Job : JobInv(j)
    /\ ~stale => /\ RegisteredIsWhole /\ HandedOffIsKept
                 /\ \A j \in Job : FromLoad(j)

\* Damage and a changed source are never forgotten.
LEMMA GhostsGrow == TypeOK /\ [Next]_vars => harmed \subseteq harmed' /\ (stale => stale')
<1> SUFFICES ASSUME TypeOK, [Next]_vars PROVE harmed \subseteq harmed' /\ (stale => stale')
  OBVIOUS
<1>1. CASE Archive
  BY <1>1 DEF Archive, ArchiveReconciles, ArchiveFetches, ArchiveRegisters, ghost
<1>2. ASSUME NEW v \in Vault, PowerLoss(v) PROVE harmed \subseteq harmed' /\ (stale => stale')
  BY <1>2 DEF PowerLoss
<1>6. ASSUME NEW v \in Vault, Flush(v) PROVE harmed \subseteq harmed' /\ (stale => stale')
  BY <1>6 DEF Flush, ghost
<1>5. ASSUME NEW v \in Vault, NEW f \in File, Rot(v, f) PROVE harmed \subseteq harmed' /\ (stale => stale')
  BY <1>5 DEF Rot
<1>3. ASSUME NEW j \in Job, Own(j) PROVE harmed \subseteq harmed' /\ (stale => stale')
  <2>1. CASE Launch(j) \/ Refuse(j) \/ LockDest(j) \/ Open(j) \/ Adopt(j) \/ EndCopy(j) \/ Finish(j)
    BY <2>1 DEF Launch, Refuse, LockDest, Open, Adopt, ReconcileDest, EndCopy, Finish, ghost
  <2>2. CASE SaveSource(j) \/ Settle(j) \/ Dissolve(j) \/ Crash(j) \/ FailCopy(j) \/ ReleaseRefused(j)
    BY <2>2 DEF SaveSource, Settle, Dissolve, Crash, FailCopy, ReleaseRefused, ghost
  <2>3. ASSUME NEW s \in Vault, Merge(j, s) PROVE harmed \subseteq harmed' /\ (stale => stale')
    BY <2>3 DEF Merge, ghost
  <2>5. ASSUME NEW s \in Vault, Release(j, s) PROVE harmed \subseteq harmed' /\ (stale => stale')
    BY <2>5 DEF Release
  <2>4. ASSUME NEW f \in File, BeginCopy(j, f) \/ CopyVanished(j, f) \/ HandOff(j, f)
        PROVE  harmed \subseteq harmed' /\ (stale => stale')
    BY <2>4 DEF BeginCopy, CopyVanished, HandOff, ghost
  <2> QED
    BY <1>3, <2>1, <2>2, <2>3, <2>4, <2>5, OwnSteps
<1>4. CASE UNCHANGED vars
  BY <1>4 DEF vars, ghost
<1> QED
  BY <1>1, <1>2, <1>3, <1>4, <1>5, <1>6 DEF Next, World, Own

\* A file goes at a source only if the destination is another vault, which keeps it.
LEMMA DestIsKeeper ==
    ASSUME HandoffInv, ~stale, NEW j \in Job, pc[j] \in Releasing,
           NEW f \in File \ harmed, mem[j][f] = "verified"
    PROVE  Keeper(Dest[j], f)
<1>1. Dest[j] \in Vault /\ bytes[Dest[j]][f] \in Sized /\ bytes[Dest[j]][f] # "rotten"
  BY ConstantTypes DEF HandoffInv, JobInv, Vouched, OnlyHarmedRots
<1>2. CASE frozen[j]
  BY <1>1, <1>2 DEF HandoffInv, FromLoad, RegisteredIsWhole, Releasing
<1>3. CASE ~frozen[j]
  BY <1>1, <1>3 DEF HandoffInv, JobInv, Loaded, Keeper, Sized, Releasing, Out
<1> QED
  BY <1>2, <1>3

\* Reconcile, copy and release bring no rotten bytes where no disk damaged the file.
LEMMA RottenInductive == HandoffInv /\ [Next]_vars => OnlyHarmedRots'
<1> SUFFICES ASSUME HandoffInv, [Next]_vars, NEW v \in Vault, NEW f \in File, f \notin harmed'
             PROVE  bytes[v][f]' # "rotten"
  BY DEF OnlyHarmedRots
<1>0. /\ f \notin harmed /\ bytes[v][f] # "rotten" /\ TypeOK
  BY GhostsGrow DEF HandoffInv, OnlyHarmedRots
<1> USE <1>0, ConstantTypes DEF TypeOK
<1>1. ASSUME NEW w \in Vault, NEW g \in File, ArchiveReconciles(w, g) PROVE bytes[v][f]' # "rotten"
  BY <1>1 DEF ArchiveReconciles, Cleaned
<1>2. ASSUME NEW w \in Vault, NEW g \in File, ArchiveFetches(w, g) PROVE bytes[v][f]' # "rotten"
  BY <1>2 DEF ArchiveFetches
<1>3. ASSUME NEW w \in Vault, NEW g \in File, Rot(w, g) PROVE bytes[v][f]' # "rotten"
  BY <1>3 DEF Rot
<1>6. ASSUME NEW w \in Vault, PowerLoss(w) PROVE bytes[v][f]' # "rotten"
  BY <1>6 DEF PowerLoss
<1>7. ASSUME NEW w \in Vault, Flush(w) \/ ArchiveRegisters(w) PROVE bytes[v][f]' # "rotten"
  BY <1>7 DEF Flush, ArchiveRegisters
<1>4. ASSUME NEW j \in Job, Own(j) PROVE bytes[v][f]' # "rotten"
  <2>1. CASE Open(j) \/ Adopt(j)
    <3>1. \/ bytes' = bytes
          \/ bytes' = [bytes EXCEPT ![Dest[j]] = [g \in File |-> Cleaned(mem[j][g], bytes[Dest[j]][g])]]
      BY <2>1 DEF Open, Adopt, ReconcileDest
    <3>2. \A g \in File : Cleaned(mem[j][g], bytes[Dest[j]][g]) \in {bytes[Dest[j]][g], "absent"}
      BY DEF Cleaned
    <3>3. v # Dest[j] => bytes[v][f]' = bytes[v][f]
      BY <3>1
    <3>4. v = Dest[j] => bytes[v][f]' \in {bytes[v][f], "absent"}
      BY <3>1, <3>2
    <3> QED
      BY <3>3, <3>4
  <2>2. CASE EndCopy(j)
    <3>1. item[j] \in File /\ cur[j] \in Vault
      BY <2>2 DEF HandoffInv, JobInv, Copying, EndCopy
    <3>2. item[j] = f => bytes[cur[j]][item[j]] # "rotten"
      BY <3>1 DEF HandoffInv, OnlyHarmedRots
    <3> QED
      BY <2>2, <3>1, <3>2 DEF EndCopy
  <2>3. ASSUME NEW g \in File, BeginCopy(j, g) PROVE bytes[v][f]' # "rotten"
    BY <2>3 DEF BeginCopy
  <2>7. ASSUME NEW g \in File, HandOff(j, g) PROVE bytes[v][f]' # "rotten"
    BY <2>7 DEF HandOff
  <2>4. CASE SaveSource(j) \/ Settle(j) \/ Dissolve(j)
    BY <2>4 DEF SaveSource, Settle, Dissolve, NoBytes
  <2>5. CASE Launch(j) \/ Refuse(j) \/ LockDest(j) \/ Finish(j) \/ Crash(j)
    BY <2>5 DEF Launch, Refuse, LockDest, Finish, Crash, disk
  <2>6. CASE \/ ReleaseRefused(j) \/ FailCopy(j)
             \/ \E s \in Vault : Merge(j, s) \/ Release(j, s)
             \/ \E g \in File : CopyVanished(j, g)
    BY <2>6 DEF ReleaseRefused, FailCopy, Merge, Release, CopyVanished, disk
  <2> QED
    BY <1>4, <2>1, <2>2, <2>3, <2>4, <2>5, <2>6, <2>7, OwnSteps
<1>5. CASE UNCHANGED vars
  BY <1>5 DEF vars, disk
<1> QED
  BY <1>1, <1>2, <1>3, <1>4, <1>5, <1>6, <1>7 DEF Next, Archive, World, Own

\* What a step does to a good file at vault w: it stays good there, or another
\* vault keeps it; a keeper stays one, unless it is the source of a hand-off.
Stays(w, f) ==
    /\ bytes[w][f] = "good" => bytes[w][f]' = "good" \/ Kept(f)'
    /\ Keeper(w, f) => \/ Keeper(w, f)'
                       \/ Kept(f)' /\ \E j \in Job : pc[j] \in Handing /\ cur[j] = w

\* No step takes a good file away unless another vault keeps it: the copy goes
\* to a file that is not there, the hand-off is of what the destination keeps,
\* the dissolved source has handed everything off.
LEMMA GoodStays ==
    ASSUME HandoffInv, [Next]_vars, ~stale', NEW f \in File, f \notin harmed', NEW w \in Vault
    PROVE  Stays(w, f)
<1>0. /\ ~stale /\ f \in File \ harmed /\ TypeOK /\ HandedOffIsKept
      /\ \A j \in Job : JobInv(j) /\ FromLoad(j)
  BY GhostsGrow DEF HandoffInv
<1>a. UNCHANGED <<bytes, ledger>> => Stays(w, f)
  BY DEF Stays, Keeper
<1>b. bytes[w][f]' = bytes[w][f] /\ ledger[w][f]' = ledger[w][f] => Stays(w, f)
  BY DEF Stays, Keeper
<1>c. bytes[w][f] # "good" => Stays(w, f)
  BY DEF Stays, Keeper
<1>d. bytes[w][f]' = "good" /\ (ledger[w][f] = "verified" => ledger[w][f]' = "verified") => Stays(w, f)
  BY DEF Stays, Keeper
<1> USE <1>0, ConstantTypes
<1>1. ASSUME NEW v \in Vault, NEW g \in File, ArchiveReconciles(v, g) PROVE Stays(w, f)
  <2>1. CASE v = w /\ g = f /\ bytes[w][f] = "good"
    <3>1. bytes[w][f]' = "good" /\ ledger[w][f]' = "verified"
      BY <1>1, <2>1 DEF ArchiveReconciles, Reconciled, Cleaned, TypeOK, ArchiveAt, Ledger
    <3> QED
      BY <1>d, <3>1
  <2>2. CASE ~(v = w /\ g = f)
    BY <1>1, <1>b, <2>2 DEF ArchiveReconciles, TypeOK
  <2> QED
    BY <1>c, <2>1, <2>2
<1>2. ASSUME NEW v \in Vault, NEW g \in File, ArchiveFetches(v, g) PROVE Stays(w, f)
  <2>1. CASE v = w /\ g = f
    BY <1>2, <1>c, <2>1 DEF ArchiveFetches
  <2>2. CASE ~(v = w /\ g = f)
    BY <1>2, <1>b, <2>2 DEF ArchiveFetches, TypeOK
  <2> QED
    BY <2>1, <2>2
<1>3. ASSUME NEW v \in Vault, ArchiveRegisters(v) \/ Flush(v) PROVE Stays(w, f)
  BY <1>3, <1>a DEF ArchiveRegisters, Flush
<1>4. ASSUME NEW v \in Vault, NEW g \in File, Rot(v, g) PROVE Stays(w, f)
  <2>1. g # f
    BY <1>4 DEF Rot
  <2> QED
    BY <1>4, <1>b, <2>1 DEF Rot, TypeOK
<1>5. ASSUME NEW v \in Vault, PowerLoss(v) PROVE Stays(w, f)
  <2>1. <<v, f>> \notin wet
    BY <1>5 DEF PowerLoss
  <2>2. bytes[w][f]' = bytes[w][f] /\ ledger' = ledger
    BY <1>5, <2>1 DEF PowerLoss, TypeOK
  <2> QED
    BY <1>b, <2>2
<1>6. ASSUME NEW j \in Job, Own(j) PROVE Stays(w, f)
  <2>0. Dest[j] \in Vault /\ cur[j] \in Vault /\ JobInv(j) /\ FromLoad(j)
    BY DEF TypeOK
  <2>1. CASE Launch(j) \/ Refuse(j) \/ Crash(j) \/ FailCopy(j) \/ ReleaseRefused(j)
    BY <1>a, <2>1 DEF Launch, Refuse, Crash, FailCopy, ReleaseRefused, disk
  <2>2. CASE LockDest(j)
    <3>1. ledger[w][f] = "verified" => ledger[w][f]' = "verified"
      <4>1. ledger[Dest[j]] # NoFile \/ ledger[Dest[j]][f] # "verified"
        BY DEF NoFile
      <4> QED
        BY <2>2, <4>1 DEF LockDest, TypeOK
    <3> QED
      BY <1>d, <1>c, <2>2, <3>1 DEF LockDest
  <2>3. CASE Open(j) \/ Adopt(j)
    <3>1. ReconcileDest(j) /\ mem[j] \in Ledger
      BY <2>0, <2>3 DEF Open, Adopt, JobInv, Loaded, Out
    <3>2. CASE w = Dest[j] /\ bytes[w][f] = "good" /\ ~frozen[j]
      <4>1. mem[j][f]' = "verified" /\ bytes[w][f]' = bytes[w][f] /\ ledger[w]' = mem[j]'
        BY <3>1, <3>2, ReconcileDestLeaves
      <4> QED
        BY <1>d, <3>2, <4>1
    <3>3. CASE w # Dest[j] \/ frozen[j]
      <4>1. ledger[w]' = ledger[w] /\ bytes[w]' = bytes[w]
        BY <3>1, <3>3, ReconcileDestLeaves
      <4> QED
        BY <1>b, <4>1
    <3> QED
      BY <1>c, <3>2, <3>3
  <2>4. ASSUME NEW s \in Vault, Merge(j, s) \/ Release(j, s) PROVE Stays(w, f)
    BY <1>a, <2>4 DEF Merge, Release, disk
  <2>5. ASSUME NEW g \in File, BeginCopy(j, g) PROVE Stays(w, f)
    <3>1. bytes[Dest[j]][g] = "absent"
      BY <2>0, <2>5 DEF BeginCopy, JobInv, Copying
    <3>2. CASE w = Dest[j] /\ g = f
      BY <1>c, <3>1, <3>2
    <3>3. CASE ~(w = Dest[j] /\ g = f)
      BY <1>b, <2>5, <3>3 DEF BeginCopy, TypeOK
    <3> QED
      BY <3>2, <3>3
  <2>6. ASSUME NEW g \in File, CopyVanished(j, g) PROVE Stays(w, f)
    BY <1>a, <2>6 DEF CopyVanished, disk
  <2>7. CASE EndCopy(j)
    <3>1. bytes[Dest[j]][item[j]] = "short" /\ item[j] \in File
      BY <2>0, <2>7 DEF EndCopy, JobInv, Copying
    <3>2. CASE w = Dest[j] /\ item[j] = f
      BY <1>c, <3>1, <3>2
    <3>3. CASE ~(w = Dest[j] /\ item[j] = f)
      BY <1>b, <2>7, <3>3 DEF EndCopy, TypeOK
    <3> QED
      BY <3>2, <3>3
  <2>8. ASSUME NEW g \in File, HandOff(j, g) PROVE Stays(w, f)
    <3>1. CASE w = cur[j] /\ g = f
      <4>1. /\ pc[j] = "hand" /\ mem[j][f] = "verified" /\ cur[j] # Dest[j]
        BY <2>0, <2>8, <3>1 DEF HandOff, Gone, JobInv, Held, Releasable, Handing
      <4>2. Keeper(Dest[j], f)
        BY <4>1, DestIsKeeper DEF Releasing
      <4>3. Keeper(Dest[j], f)'
        BY <2>8, <4>1, <4>2 DEF Keeper, HandOff, TypeOK
      <4> QED
        BY <2>0, <3>1, <4>1, <4>3 DEF Stays, Kept, Handing
    <3>2. CASE ~(w = cur[j] /\ g = f)
      BY <1>b, <2>8, <3>2 DEF HandOff, TypeOK
    <3> QED
      BY <3>1, <3>2
  <2>9. CASE SaveSource(j) \/ Settle(j)
    <3>1. bytes' = bytes
      BY <2>9 DEF SaveSource, Settle
    <3>2. CASE w # cur[j]
      BY <1>b, <2>9, <3>1, <3>2 DEF SaveSource, Settle, TypeOK
    <3>3. CASE w = cur[j] /\ bytes[w][f] = "good"
      <4>1. ledger[w][f] = Source(j)[f]
        BY <2>0, <2>9, <3>3 DEF SaveSource, Settle, FromLoad
      <4>2. ledger[w][f]' = ledger[w][f]
        BY <2>0, <2>9, <3>3, <4>1 DEF SaveSource, Settle, TypeOK
      <4> QED
        BY <1>b, <3>1, <4>2
    <3> QED
      BY <1>c, <3>2, <3>3
  <2>10. CASE Dissolve(j)
    <3>1. /\ pc[j] = "hand" /\ ledger[cur[j]][f] = "handed_off"
      BY <2>0, <2>10 DEF Dissolve, FromLoad
    <3>2. PICK k \in Vault : Keeper(k, f)
      BY <2>0, <3>1 DEF HandedOffIsKept, Told, Kept
    <3>3. k # cur[j]
      BY <3>1, <3>2 DEF Keeper
    <3>4. Keeper(k, f)'
      BY <2>10, <3>2, <3>3 DEF Dissolve, Keeper, TypeOK
    <3>5. CASE w = cur[j]
      BY <3>1, <3>4, <3>5 DEF Stays, Kept, Keeper
    <3>6. CASE w # cur[j]
      BY <1>b, <2>10, <3>6 DEF Dissolve, TypeOK
    <3> QED
      BY <3>5, <3>6
  <2>11. CASE Finish(j)
    <3>1. pc[j] \notin Out
      BY <2>11 DEF Finish, Out
    <3>2. ledger' = ledger
      BY <2>0, <2>11, <3>1 DEF Finish, JobInv, Loaded, TypeOK
    <3> QED
      BY <1>a, <2>11, <3>2 DEF Finish
  <2> QED
    BY <1>6, <2>1, <2>2, <2>3, <2>4, <2>5, <2>6, <2>7, <2>8, <2>9, <2>10, <2>11, OwnSteps
<1>7. CASE UNCHANGED vars
  BY <1>a, <1>7 DEF vars, disk
<1> QED
  BY <1>1, <1>2, <1>3, <1>4, <1>5, <1>6, <1>7 DEF Next, Archive, World, Own

\* A file somebody keeps is kept by somebody after every step.
LEMMA KeptStays ==
    ASSUME HandoffInv, [Next]_vars, ~stale', NEW f \in File, f \notin harmed', Kept(f)
    PROVE  Kept(f)'
BY GoodStays DEF Stays, Kept

\* Only a source that is not registered is ever dissolved.
LEMMA RegisteredStays ==
    ASSUME HandoffInv, [Next]_vars, ~stale', NEW v \in Vault, registered[v]
    PROVE  registered[v]'
<1>0. ~stale /\ TypeOK /\ \A j \in Job : FromLoad(j)
  BY GhostsGrow DEF HandoffInv
<1> USE <1>0 DEF TypeOK
<1>1. CASE Archive
  BY <1>1 DEF Archive, ArchiveReconciles, ArchiveFetches, ArchiveRegisters
<1>2. ASSUME NEW w \in Vault, PowerLoss(w) \/ Flush(w) \/ \E f \in File : Rot(w, f)
      PROVE  registered[v]'
  BY <1>2 DEF PowerLoss, Flush, Rot
<1>3. ASSUME NEW j \in Job, Own(j) PROVE registered[v]'
  <2>1. CASE Dissolve(j)
    BY <2>1 DEF Dissolve, FromLoad, Handing
  <2>2. CASE Launch(j) \/ Refuse(j) \/ LockDest(j) \/ Open(j) \/ Adopt(j) \/ EndCopy(j) \/ Finish(j)
    BY <2>2 DEF Launch, Refuse, LockDest, Open, Adopt, ReconcileDest, EndCopy, Finish, disk
  <2>3. CASE SaveSource(j) \/ Settle(j) \/ Crash(j) \/ FailCopy(j) \/ ReleaseRefused(j)
    BY <2>3 DEF SaveSource, Settle, Crash, FailCopy, ReleaseRefused, disk
  <2>4. ASSUME NEW s \in Vault, Merge(j, s) \/ Release(j, s) PROVE registered[v]'
    BY <2>4 DEF Merge, Release, disk
  <2>5. ASSUME NEW f \in File, BeginCopy(j, f) \/ CopyVanished(j, f) \/ HandOff(j, f)
        PROVE  registered[v]'
    BY <2>5 DEF BeginCopy, CopyVanished, HandOff, disk
  <2> QED
    BY <1>3, <2>1, <2>2, <2>3, <2>4, <2>5, OwnSteps
<1>4. CASE UNCHANGED vars
  BY <1>4 DEF vars, disk
<1> QED
  BY <1>1, <1>2, <1>3, <1>4 DEF Next, World, Own

\* Only an archive session registers a bundle (ArchiveRegisters).
LEMMA NewlyRegistered ==
    ASSUME TypeOK, [Next]_vars, NEW v \in Vault, ~registered[v], registered[v]'
    PROVE  ArchiveRegisters(v)
<1> USE DEF TypeOK
<1>1. CASE Archive
  BY <1>1 DEF Archive, ArchiveReconciles, ArchiveFetches, ArchiveRegisters
<1>2. ASSUME NEW w \in Vault, PowerLoss(w) \/ Flush(w) \/ \E f \in File : Rot(w, f)
      PROVE  FALSE
  BY <1>2 DEF PowerLoss, Flush, Rot
<1>3. ASSUME NEW j \in Job, Own(j) PROVE FALSE
  <2>1. CASE Dissolve(j)
    BY <2>1 DEF Dissolve
  <2>2. CASE Launch(j) \/ Refuse(j) \/ LockDest(j) \/ Open(j) \/ Adopt(j) \/ EndCopy(j) \/ Finish(j)
    BY <2>2 DEF Launch, Refuse, LockDest, Open, Adopt, ReconcileDest, EndCopy, Finish, disk
  <2>3. CASE SaveSource(j) \/ Settle(j) \/ Crash(j) \/ FailCopy(j) \/ ReleaseRefused(j)
    BY <2>3 DEF SaveSource, Settle, Crash, FailCopy, ReleaseRefused, disk
  <2>4. ASSUME NEW s \in Vault, Merge(j, s) \/ Release(j, s) PROVE FALSE
    BY <2>4 DEF Merge, Release, disk
  <2>5. ASSUME NEW f \in File, BeginCopy(j, f) \/ CopyVanished(j, f) \/ HandOff(j, f)
        PROVE  FALSE
    BY <2>5 DEF BeginCopy, CopyVanished, HandOff, disk
  <2> QED
    BY <1>3, <2>1, <2>2, <2>3, <2>4, <2>5, OwnSteps
<1>4. CASE UNCHANGED vars
  BY <1>4 DEF vars, disk
<1> QED
  BY <1>1, <1>2, <1>3, <1>4 DEF Next, World, Own

\* A registered bundle has every file, good and recorded, unless damaged.
LEMMA RegisteredInductive == HandoffInv /\ [Next]_vars /\ ~stale' => RegisteredIsWhole'
<1> SUFFICES ASSUME HandoffInv, [Next]_vars, ~stale', NEW v \in Vault, NEW f \in File,
                    f \notin harmed', registered[v]'
             PROVE  Keeper(v, f)'
  BY DEF RegisteredIsWhole
<1>0. /\ ~stale /\ f \in File \ harmed /\ TypeOK /\ RegisteredIsWhole /\ OnlyHarmedRots
      /\ \A j \in Job : FromLoad(j)
  BY GhostsGrow DEF HandoffInv
<1>1. CASE registered[v]
  BY <1>0, <1>1, GoodStays DEF RegisteredIsWhole, Stays, FromLoad
<1>2. CASE ~registered[v]
  <2>1. ArchiveRegisters(v)
    BY <1>0, <1>2, NewlyRegistered
  <2> QED
    BY <1>0, <2>1 DEF ArchiveRegisters, Keeper, OnlyHarmedRots, Sized
<1> QED
  BY <1>1, <1>2

\* What a job read before its locks stays true of the destination, and of the
\* source from its release to its save.
LEMMA FromLoadInductive ==
    ASSUME HandoffInv, [Next]_vars, ~stale', NEW j \in Job
    PROVE  FromLoad(j)'
<1>0. /\ ~stale /\ TypeOK /\ JobInv(j) /\ FromLoad(j) /\ \A k \in Job : Held(k)
      /\ Dest[j] \in Vault /\ cur[j] \in Vault
  BY GhostsGrow, ConstantTypes DEF HandoffInv, JobInv, TypeOK
<1>1. registered[Dest[j]] => registered[Dest[j]]'
  BY <1>0, RegisteredStays
<1> USE <1>0
<1>2. CASE Others(j)
  <2>1. UNCHANGED Private(j)
    BY <1>2, MemoryIsPrivate
  <2>2. \A v \in Vault : lock[v] = j => Untouched(v)
    BY <1>2, LockedIsUntouched
  <2>3. pc[j]' # "off" /\ frozen[j]' => registered[Dest[j]]'
    BY <1>1, <2>1 DEF FromLoad, Private
  <2>4. CASE pc[j] \notin Handing
    BY <2>1, <2>3, <2>4 DEF FromLoad, Private, Handing
  <2>5. CASE pc[j] \in Handing
    <3>1. /\ UNCHANGED <<pc[j], cur[j], snap[j], mem[j], ledger[cur[j]], registered[cur[j]]>>
          /\ \A f \in File : bytes[cur[j]][f] = "absent" => bytes[cur[j]][f]' = "absent"
      <4>1. lock[cur[j]] = j
        BY <2>5 DEF Held
      <4> QED
        BY <2>1, <2>2, <4>1 DEF Private, Untouched, Rots
    <3> QED
      BY <2>3, <2>5, <3>1 DEF FromLoad, Source
  <2> QED
    BY <2>4, <2>5
<1>3. CASE Own(j)
  <2>1. CASE Refuse(j) \/ Finish(j) \/ Crash(j)
    <3>1. pc[j]' = "off"
      BY <2>1 DEF Refuse, Finish, Crash, Quit, Goto, TypeOK
    <3> QED
      BY <3>1 DEF FromLoad, Handing
  <2>2. CASE Launch(j)
    <3>1. pc[j]' = "lock" /\ frozen[j]' = registered[Dest[j]] /\ registered' = registered
      BY <2>2 DEF Launch, Goto, TypeOK, disk
    <3> QED
      BY <3>1 DEF FromLoad, Handing
  <2>3. CASE \/ LockDest(j) \/ Open(j) \/ Adopt(j) \/ EndCopy(j) \/ FailCopy(j) \/ ReleaseRefused(j)
             \/ \E s \in Vault : Merge(j, s)
             \/ \E f \in File : BeginCopy(j, f) \/ CopyVanished(j, f)
    <3>1. pc[j] # "off" /\ pc[j]' \notin Handing /\ frozen[j]' = frozen[j]
      <4>1. CASE LockDest(j) \/ EndCopy(j) \/ FailCopy(j) \/ ReleaseRefused(j)
        BY <4>1 DEF LockDest, EndCopy, FailCopy, ReleaseRefused, Goto, TypeOK, Handing, local
      <4>2. CASE Open(j) \/ Adopt(j)
        BY <4>2 DEF Open, Adopt, Goto, TypeOK, Handing
      <4>3. ASSUME NEW s \in Vault, Merge(j, s)
            PROVE  pc[j] # "off" /\ pc[j]' \notin Handing /\ frozen[j]' = frozen[j]
        BY <4>3 DEF Merge, Goto, TypeOK, Handing
      <4>4. ASSUME NEW f \in File, BeginCopy(j, f) \/ CopyVanished(j, f)
            PROVE  pc[j] # "off" /\ pc[j]' \notin Handing /\ frozen[j]' = frozen[j]
        BY <4>4 DEF BeginCopy, CopyVanished, Goto, TypeOK, Handing, local
      <4> QED
        BY <2>3, <4>1, <4>2, <4>3, <4>4
    <3> QED
      BY <1>1, <3>1 DEF FromLoad, Handing
  <2>4. ASSUME NEW s \in Vault, Release(j, s) PROVE FromLoad(j)'
    <3>1. /\ pc[j] = "release" /\ pc[j]' = "hand" /\ cur[j]' = s
          /\ UNCHANGED <<frozen, snap, ledger, registered>>
      BY <2>4 DEF Release, Goto, TypeOK, disk
    <3>2. ledger[s] = snap[j][s] /\ ~registered[s]
      BY <2>4 DEF Release
    <3> QED
      BY <1>1, <3>1, <3>2 DEF FromLoad, Source
  <2>5. ASSUME NEW f \in File, HandOff(j, f) PROVE FromLoad(j)'
    <3>1. /\ pc[j] = "hand" /\ pc[j]' = "save" /\ mem[j][f] = "verified"
          /\ UNCHANGED <<frozen, ledger, registered, mem, cur>>
          /\ ledger[cur[j]] = Source(j) /\ ~registered[cur[j]]
      BY <2>5 DEF HandOff, Gone, Goto, TypeOK, FromLoad, Handing
    <3>2. /\ bytes[cur[j]][f]' = "absent"
          /\ \A g \in File \ {f} : snap[j][cur[j]][g]' = snap[j][cur[j]][g]
      BY <2>5 DEF HandOff, TypeOK
    <3>3. snap[j][cur[j]][f]' = "handed_off"
      <4>1. snap[j][cur[j]] \in Ledger
        BY <3>1 DEF JobInv, Held, Loaded, Handing, Releasable
      <4> QED
        BY <2>5, <4>1 DEF HandOff, TypeOK, Ledger
    <3> QED
      BY <1>1, <3>1, <3>2, <3>3 DEF FromLoad, Source
  <2>6. CASE SaveSource(j)
    <3>1. /\ pc[j] = "save" /\ pc[j]' = "hand"
          /\ UNCHANGED <<frozen, snap, registered, cur>>
          /\ ledger[cur[j]]' = Source(j)
      BY <2>6 DEF SaveSource, Goto, TypeOK, local
    <3> QED
      BY <1>1, <3>1 DEF FromLoad, Source, Handing
  <2>7. CASE Settle(j) \/ Dissolve(j)
    <3>1. pc[j] = "hand" /\ pc[j]' = "release" /\ frozen' = frozen
      BY <2>7 DEF Settle, Dissolve, Unlocked, Goto, TypeOK
    <3> QED
      BY <1>1, <3>1 DEF FromLoad, Handing
  <2> QED
    BY <1>3, <2>1, <2>2, <2>3, <2>4, <2>5, <2>6, <2>7, OwnSteps
<1> QED
  BY <1>2, <1>3, WhoSteps

\* Nobody is told that a file was handed off but by a hand-off, or by somebody
\* who was told.
LEMMA OnlyHandOffsTell ==
    ASSUME HandoffInv, [Next]_vars, ~stale', NEW f \in File, f \notin harmed'
    PROVE  Told(f)' => Told(f) \/ Kept(f)'
<1>0. /\ ~stale /\ f \in File \ harmed /\ TypeOK
      /\ \A j \in Job : JobInv(j) /\ FromLoad(j) /\ Dest[j] \in Vault /\ cur[j] \in Vault
  BY GhostsGrow, ConstantTypes DEF HandoffInv, TypeOK
<1>a. UNCHANGED <<ledger, mem, snap>> => (Told(f)' => Told(f))
  BY DEF Told
<1>b. ASSUME mem' = mem, snap' = snap, NEW v \in Vault, NEW L, ledger' = [ledger EXCEPT ![v] = L],
             L[f] = "handed_off" => Told(f)
      PROVE  Told(f)' => Told(f)
  BY <1>0, <1>b DEF Told, TypeOK
<1>c. Fresh[f] # "handed_off" /\ NoFile[f] # "handed_off"
  BY DEF Fresh, NoFile
<1>d. \A j \in Job : Source(j)[f] = "handed_off" => Told(f)
  BY <1>0 DEF Source, Told
<1> USE <1>0
<1>1. ASSUME NEW v \in Vault, NEW g \in File, ArchiveReconciles(v, g) PROVE Told(f)' => Told(f)
  <2>1. ledger[v][f]' = "handed_off" => ledger[v][f] = "handed_off"
    BY <1>1 DEF ArchiveReconciles, Reconciled, TypeOK, ArchiveAt, Ledger
  <2>2. \A w \in Vault \ {v} : ledger[w]' = ledger[w]
    BY <1>1 DEF ArchiveReconciles, TypeOK
  <2>3. mem' = mem /\ snap' = snap
    BY <1>1 DEF ArchiveReconciles, local
  <2> QED
    BY <2>1, <2>2, <2>3 DEF Told
<1>2. ASSUME NEW v \in Vault, NEW g \in File, ArchiveFetches(v, g) PROVE Told(f)' => Told(f)
  <2>1. ledger[v][f]' = "handed_off" => ledger[v][f] = "handed_off"
    BY <1>2 DEF ArchiveFetches, TypeOK, ArchiveAt, Ledger
  <2>2. \A w \in Vault \ {v} : ledger[w]' = ledger[w]
    BY <1>2 DEF ArchiveFetches, TypeOK
  <2>3. mem' = mem /\ snap' = snap
    BY <1>2 DEF ArchiveFetches, local
  <2> QED
    BY <2>1, <2>2, <2>3 DEF Told
<1>3. ASSUME NEW v \in Vault, ArchiveRegisters(v) \/ Flush(v) \/ PowerLoss(v) PROVE Told(f)' => Told(f)
  BY <1>3, <1>a DEF ArchiveRegisters, Flush, PowerLoss, local
<1>4. ASSUME NEW v \in Vault, NEW g \in File, Rot(v, g) PROVE Told(f)' => Told(f)
  BY <1>4, <1>a DEF Rot, local
<1>5. ASSUME NEW j \in Job, Own(j) PROVE Told(f)' => Told(f) \/ Kept(f)'
  <2>1. CASE Launch(j)
    <3>1. /\ ledger' = ledger /\ mem' = mem
          /\ \A k \in Job \ {j} : snap[k]' = snap[k]
          /\ \A v \in Vault : snap[j][v]' \in {ledger[v], NoFile}
      BY <2>1 DEF Launch, TypeOK, disk
    <3> QED
      BY <1>c, <3>1 DEF Told
  <2>2. CASE Refuse(j) \/ Crash(j)
    <3>1. /\ ledger' = ledger
          /\ mem[j]' = NoFile /\ \A k \in Job \ {j} : snap[k]' = snap[k] /\ mem[k]' = mem[k]
          /\ \A v \in Vault : snap[j][v]' = NoFile
      BY <2>2 DEF Refuse, Crash, Quit, TypeOK, disk
    <3> QED
      BY <1>c, <3>1 DEF Told
  <2>3. CASE Finish(j)
    <3>1. /\ ledger' = ledger
      BY <2>3 DEF Finish, JobInv, Loaded, Out, TypeOK
    <3>2. /\ mem[j]' = NoFile /\ \A k \in Job \ {j} : snap[k]' = snap[k] /\ mem[k]' = mem[k]
          /\ \A v \in Vault : snap[j][v]' = NoFile
      BY <2>3 DEF Finish, Quit, TypeOK
    <3> QED
      BY <1>c, <3>1, <3>2 DEF Told
  <2>4. CASE LockDest(j)
    <3>1. /\ mem[j]' \in {Fresh, ledger[Dest[j]]} /\ snap' = snap
          /\ ledger[Dest[j]]' \in {ledger[Dest[j]], mem[j]'}
          /\ \A k \in Job \ {j} : mem[k]' = mem[k]
          /\ \A v \in Vault \ {Dest[j]} : ledger[v]' = ledger[v]
      BY <2>4 DEF LockDest, TypeOK
    <3> QED
      BY <1>c, <3>1 DEF Told
  <2>5. CASE Open(j) \/ Adopt(j)
    <3>1. ReconcileDest(j) /\ mem[j] \in Ledger /\ snap' = snap
      BY <2>5 DEF Open, Adopt, JobInv, Loaded, Out
    <3>2. /\ mem[j][f]' = "handed_off" => mem[j][f] = "handed_off"
          /\ \A k \in Job \ {j} : mem[k]' = mem[k]
          /\ \A v \in Vault \ {Dest[j]} : ledger[v]' = ledger[v]
          /\ ledger[Dest[j]]' \in {ledger[Dest[j]], mem[j]'}
      BY <3>1, ReconcileDestLeaves
    <3> QED
      BY <3>1, <3>2 DEF Told
  <2>6. CASE EndCopy(j) \/ FailCopy(j) \/ ReleaseRefused(j)
    BY <1>a, <2>6 DEF EndCopy, FailCopy, ReleaseRefused, disk, local
  <2>7. ASSUME NEW s \in Vault, Merge(j, s) \/ Release(j, s) PROVE Told(f)' => Told(f)
    BY <1>a, <2>7 DEF Merge, Release, disk
  <2>8. ASSUME NEW g \in File, BeginCopy(j, g) \/ CopyVanished(j, g) PROVE Told(f)' => Told(f)
    BY <1>a, <2>8 DEF BeginCopy, CopyVanished, disk, local
  <2>9. ASSUME NEW g \in File, HandOff(j, g) PROVE Told(f)' => Told(f) \/ Kept(f)'
    <3>1. CASE g = f
      <4>1. /\ pc[j] = "hand" /\ mem[j][f] = "verified" /\ cur[j] # Dest[j]
        BY <2>9, <3>1 DEF HandOff, Gone, JobInv, Held, Releasable, Handing
      <4>2. Keeper(Dest[j], f)
        BY <4>1, DestIsKeeper DEF Releasing
      <4>3. Keeper(Dest[j], f)'
        BY <2>9, <4>1, <4>2 DEF Keeper, HandOff, TypeOK
      <4> QED
        BY <4>3 DEF Kept
    <3>2. CASE g # f
      <4>1. /\ ledger' = ledger /\ mem' = mem
            /\ \A k \in Job, v \in Vault : snap[k][v][f]' = snap[k][v][f]
        BY <2>9, <3>2 DEF HandOff, TypeOK
      <4> QED
        BY <4>1 DEF Told
    <3> QED
      BY <3>1, <3>2
  <2>10. CASE SaveSource(j) \/ Settle(j)
    <3>1. /\ mem' = mem /\ snap' = snap
          /\ \/ ledger' = [ledger EXCEPT ![cur[j]] = Source(j)]
             \/ ledger' = [ledger EXCEPT ![cur[j]] = ledger[cur[j]]]
      BY <2>10 DEF SaveSource, Settle, local
    <3>2. ledger[cur[j]][f] = "handed_off" => Told(f)
      BY DEF Told
    <3> QED
      BY <1>b, <1>d, <3>1, <3>2
  <2>11. CASE Dissolve(j)
    BY <1>b, <1>c, <2>11 DEF Dissolve
  <2> QED
    BY <1>5, <2>1, <2>2, <2>3, <2>4, <2>5, <2>6, <2>7, <2>8, <2>9, <2>10, <2>11, OwnSteps
<1>6. CASE UNCHANGED vars
  BY <1>a, <1>6 DEF vars, disk, local
<1> QED
  BY <1>1, <1>2, <1>3, <1>4, <1>5, <1>6 DEF Next, Archive, World, Own

\* A ledger goes away only with its directory.
LEMMA OnlyDissolveRemoves ==
    ASSUME HandoffInv, [Next]_vars, NEW v \in Vault, ledger[v] # NoFile, ledger'[v] = NoFile
    PROVE  \E j \in Job : Dissolve(j) /\ cur[j] = v
<1>0. /\ TypeOK /\ ledger[v] \in Ledger
      /\ \A j \in Job : JobInv(j) /\ Dest[j] \in Vault /\ cur[j] \in Vault
  BY ConstantTypes DEF HandoffInv, TypeOK
<1>a. PICK f \in File : ledger[v][f] # NoFile[f]
  BY <1>0 DEF Ledger, NoFile
<1>b. NoFile \notin Ledger
  BY <1>a DEF NoFile, Ledger, Rec
<1>c. ledger[v]' \notin Ledger
  BY <1>b
<1> USE <1>0
<1>1. ASSUME NEW w \in Vault, NEW g \in File, ArchiveReconciles(w, g) PROVE FALSE
  <2>1. Reconciled(ledger[w][g], bytes[w][g]) \in Rec
    BY DEF Reconciled, Rec
  <2> QED
    BY <1>1, <1>c, <2>1 DEF ArchiveReconciles, TypeOK, Ledger
<1>2. ASSUME NEW w \in Vault, NEW g \in File, ArchiveFetches(w, g) PROVE FALSE
  BY <1>2, <1>c DEF ArchiveFetches, TypeOK, Ledger, Rec
<1>3. ASSUME NEW w \in Vault, \/ ArchiveRegisters(w) \/ PowerLoss(w) \/ Flush(w)
                              \/ \E g \in File : Rot(w, g)
      PROVE  FALSE
  BY <1>3 DEF ArchiveRegisters, PowerLoss, Flush, Rot
<1>4. ASSUME NEW j \in Job, Own(j) PROVE Dissolve(j) /\ cur[j] = v
  <2>1. CASE LockDest(j)
    <3>1. mem[j]' \in Ledger
      BY <1>b, <2>1, LedgerRecords DEF LockDest, TypeOK
    <3> QED
      BY <1>c, <2>1, <3>1 DEF LockDest, TypeOK
  <2>2. CASE Open(j) \/ Adopt(j)
    <3>1. ReconcileDest(j) /\ mem[j] \in Ledger
      BY <2>2 DEF Open, Adopt, JobInv, Loaded, Out
    <3> QED
      BY <1>c, <3>1, ReconcileDestLeaves
  <2>3. CASE Finish(j)
    <3>1. mem[j] \in Ledger
      BY <2>3 DEF Finish, JobInv, Loaded, Out
    <3> QED
      BY <1>c, <2>3, <3>1 DEF Finish, TypeOK
  <2>4. CASE SaveSource(j) \/ Settle(j)
    <3>1. Source(j) \in Ledger
      BY <2>4 DEF SaveSource, Settle, JobInv, Held, Loaded, Handing, Releasable, Source
    <3> QED
      BY <1>c, <2>4, <3>1 DEF SaveSource, Settle, TypeOK
  <2>5. CASE Dissolve(j)
    BY <2>5 DEF Dissolve, TypeOK
  <2>6. CASE \/ Launch(j) \/ Refuse(j) \/ Crash(j) \/ EndCopy(j) \/ FailCopy(j) \/ ReleaseRefused(j)
    BY <2>6 DEF Launch, Refuse, Crash, EndCopy, FailCopy, ReleaseRefused, disk
  <2>7. ASSUME NEW s \in Vault, Merge(j, s) \/ Release(j, s) PROVE FALSE
    BY <2>7 DEF Merge, Release, disk
  <2>8. ASSUME NEW g \in File, BeginCopy(j, g) \/ CopyVanished(j, g) \/ HandOff(j, g) PROVE FALSE
    BY <2>8 DEF BeginCopy, CopyVanished, HandOff, disk
  <2> QED
    BY <1>4, <2>1, <2>2, <2>3, <2>4, <2>5, <2>6, <2>7, <2>8, OwnSteps
<1>5. CASE UNCHANGED vars
  BY <1>5 DEF vars, disk
<1> QED
  BY <1>1, <1>2, <1>3, <1>4, <1>5 DEF Next, Archive, World, Own

\* Nothing is handed off, locked or remembered at first.
LEMMA HandoffInvInit == Init => HandoffInv
<1> SUFFICES ASSUME Init PROVE HandoffInv
  OBVIOUS
<1>1. TypeOK
  BY InitTypes
<1>2. \A v \in Vault, f \in File : bytes[v][f] = "absent" /\ ledger[v][f] # "handed_off"
  BY DEF Init, NoBytes, Fresh, NoFile
<1>3. \A f \in File : ~Told(f)
  BY <1>2 DEF Init, Told, NoFile
<1>4. \A j \in Job : pc[j] = "off" /\ ~frozen[j]
  BY DEF Init
<1>5. \A v \in Vault : ~registered[v]
  BY DEF Init
<1> QED
  BY <1>1, <1>2, <1>3, <1>4, <1>5 DEF HandoffInv, OnlyHarmedRots, RegisteredIsWhole,
     HandedOffIsKept, FromLoad, Handing, JobInv, Held, Loaded, Copying, Vouched, Out, Releasing

\* The parts of the invariant carry each other through every step.
LEMMA HandoffInvInductive == HandoffInv /\ [Next]_vars => HandoffInv'
<1> SUFFICES ASSUME HandoffInv, [Next]_vars PROVE HandoffInv'
  OBVIOUS
<1>1. TypeOK'
  BY TypeInductive DEF HandoffInv
<1>2. ASSUME NEW j \in Job PROVE JobInv(j)'
  <2>1. TypeOK /\ JobInv(j) /\ \A k \in Job : Held(k)
    BY DEF HandoffInv, JobInv
  <2> QED
    BY <2>1, WhoSteps, OwnKeepsJobInv, OthersKeepJobInv
<1>3. OnlyHarmedRots'
  BY RottenInductive
<1>4. ASSUME ~stale' PROVE HandedOffIsKept'
  <2>1. ASSUME NEW f \in File, f \notin harmed', Told(f)' PROVE Kept(f)'
    <3>1. CASE Told(f)
      <4>1. Kept(f)
        BY <1>4, <2>1, <3>1, GhostsGrow DEF HandoffInv, HandedOffIsKept
      <4> QED
        BY <1>4, <2>1, <4>1, KeptStays
    <3> QED
      BY <1>4, <2>1, <3>1, OnlyHandOffsTell
  <2> QED
    BY <2>1 DEF HandedOffIsKept
<1> QED
  BY <1>1, <1>2, <1>3, <1>4, RegisteredInductive, FromLoadInductive DEF HandoffInv

\* While no source changed under an assemble, the bytes of a file that any vault
\* has handed off are good in some vault, in whatever order any number of
\* assembles, archives and crashes met.
THEOREM HandedOffStaysSomewhere == Spec => []HandedOffIsSomewhere
<1>1. HandoffInv => HandedOffIsSomewhere
  BY DEF HandoffInv, HandedOffIsSomewhere, HandedOffIsKept, Told, Kept, Keeper, HandedOff, Somewhere
<1> QED
  BY <1>1, HandoffInvInit, HandoffInvInductive, PTL DEF Spec

\* No hand-off, dissolved source, reconcile or copy takes the last good copy.
THEOREM LastCopyIsNeverDeleted == Spec => LastCopyStays
<1> DEFINE A == \A f \in File \ harmed' : Somewhere(f) => stale' \/ Somewhere(f)'
<1>1. HandoffInv /\ [Next]_vars => A
  BY GoodStays DEF Stays, Kept, Keeper, Somewhere
<1>2. HandoffInv /\ [Next]_vars => [A]_vars
  BY <1>1
<1> QED
  BY <1>2, HandoffInvInit, HandoffInvInductive, PTL DEF Spec, LastCopyStays

\* A source's directory goes only when its own ledger says that every file went,
\* and each of them is good elsewhere, unless a disk damaged it.
THEOREM DissolvedIsSafe == Spec => DissolvedIsElsewhere
<1> DEFINE A == \A v \in Vault :
                    ledger[v] # NoFile /\ ledger'[v] = NoFile
                    => \/ stale'
                       \/ \A f \in File : HandedOff(v, f) /\ (f \in harmed \/ Somewhere(f)')
<1>1. ASSUME HandoffInv, [Next]_vars, NEW v \in Vault, ledger[v] # NoFile, ledger'[v] = NoFile,
             ~stale', NEW f \in File
      PROVE  HandedOff(v, f) /\ (f \in harmed \/ Somewhere(f)')
  <2>1. PICK j \in Job : Dissolve(j) /\ cur[j] = v
    BY <1>1, OnlyDissolveRemoves
  <2>2. ledger[v][f] = "handed_off" /\ harmed' = harmed
    BY <1>1, <2>1, GhostsGrow DEF HandoffInv, FromLoad, Dissolve, ghost
  <2>3. f \notin harmed => Kept(f)'
    BY <1>1, <2>2, KeptStays, GhostsGrow DEF HandoffInv, HandedOffIsKept, Told
  <2> QED
    BY <1>1, <2>2, <2>3 DEF HandedOff, Somewhere, Kept, Keeper
<1>2. HandoffInv /\ [Next]_vars => [A]_vars
  BY <1>1
<1> QED
  BY <1>2, HandoffInvInit, HandoffInvInductive, PTL DEF Spec, DissolvedIsElsewhere

\* A ledger learns of a hand-off only by the save that follows it.
LEMMA OnlySavesRelease ==
    ASSUME HandoffInv, [Next]_vars, ~stale', NEW v \in Vault, NEW f \in File,
           ~HandedOff(v, f), HandedOff(v, f)'
    PROVE  \E j \in Job : pc[j] = "save" /\ SaveSource(j) /\ cur[j] = v
<1>0. /\ ~stale /\ TypeOK /\ ledger[v][f] # "handed_off" /\ ledger[v][f]' = "handed_off"
      /\ \A j \in Job : JobInv(j) /\ FromLoad(j) /\ Dest[j] \in Vault /\ cur[j] \in Vault
  BY GhostsGrow, ConstantTypes DEF HandoffInv, TypeOK, HandedOff, NoFile
<1>c. Fresh[f] # "handed_off" /\ NoFile[f] # "handed_off"
  BY DEF Fresh, NoFile
<1> USE <1>0
<1>1. ASSUME NEW w \in Vault, NEW g \in File, ArchiveReconciles(w, g) PROVE FALSE
  BY <1>1 DEF ArchiveReconciles, Reconciled, TypeOK, ArchiveAt, Ledger
<1>2. ASSUME NEW w \in Vault, NEW g \in File, ArchiveFetches(w, g) PROVE FALSE
  BY <1>2 DEF ArchiveFetches, TypeOK, ArchiveAt, Ledger
<1>3. ASSUME NEW w \in Vault, \/ ArchiveRegisters(w) \/ PowerLoss(w) \/ Flush(w)
                              \/ \E g \in File : Rot(w, g)
      PROVE  FALSE
  BY <1>3 DEF ArchiveRegisters, PowerLoss, Flush, Rot
<1>4. ASSUME NEW j \in Job, Own(j) PROVE pc[j] = "save" /\ SaveSource(j) /\ cur[j] = v
  <2>1. CASE LockDest(j)
    BY <1>c, <2>1 DEF LockDest, TypeOK
  <2>2. CASE Open(j) \/ Adopt(j)
    <3>1. ReconcileDest(j) /\ mem[j] \in Ledger /\ (~frozen[j] => ledger[Dest[j]] = mem[j])
      BY <2>2 DEF Open, Adopt, JobInv, Loaded, Out
    <3> QED
      BY <3>1, ReconcileDestLeaves
  <2>3. CASE Finish(j)
    BY <2>3 DEF Finish, JobInv, Loaded, Out, TypeOK
  <2>4. CASE Settle(j)
    BY <2>4 DEF Settle, FromLoad, TypeOK
  <2>5. CASE SaveSource(j)
    BY <2>5 DEF SaveSource, TypeOK
  <2>6. CASE Dissolve(j)
    BY <1>c, <2>6 DEF Dissolve, TypeOK
  <2>7. CASE \/ Launch(j) \/ Refuse(j) \/ Crash(j) \/ EndCopy(j) \/ FailCopy(j) \/ ReleaseRefused(j)
    BY <2>7 DEF Launch, Refuse, Crash, EndCopy, FailCopy, ReleaseRefused, disk
  <2>8. ASSUME NEW s \in Vault, Merge(j, s) \/ Release(j, s) PROVE FALSE
    BY <2>8 DEF Merge, Release, disk
  <2>9. ASSUME NEW g \in File, BeginCopy(j, g) \/ CopyVanished(j, g) \/ HandOff(j, g) PROVE FALSE
    BY <2>9 DEF BeginCopy, CopyVanished, HandOff, disk
  <2> QED
    BY <1>4, <2>1, <2>2, <2>3, <2>4, <2>5, <2>6, <2>7, <2>8, <2>9, OwnSteps
<1>5. CASE UNCHANGED vars
  BY <1>5 DEF vars, disk
<1> QED
  BY <1>1, <1>2, <1>3, <1>4, <1>5 DEF Next, Archive, World, Own

\* Whoever is told that its file was handed off is told so while another vault
\* holds it at its size, whatever a power loss did to that vault before.
THEOREM ReleasedFilesAreWhole == Spec => ReleasedIsWhole
<1> DEFINE A == \A v \in Vault, f \in File :
                    ~HandedOff(v, f) /\ HandedOff(v, f)'
                    => stale' \/ \E w \in Vault \ {v} : bytes[w][f] \in Sized
<1>1. ASSUME HandoffInv, [Next]_vars, NEW v \in Vault, NEW f \in File,
             ~HandedOff(v, f), HandedOff(v, f)', ~stale'
      PROVE  \E w \in Vault \ {v} : bytes[w][f] \in Sized
  <2>1. PICK j \in Job : pc[j] = "save" /\ SaveSource(j) /\ cur[j] = v
    BY <1>1, OnlySavesRelease
  <2>2. JobInv(j) /\ FromLoad(j) /\ Dest[j] \in Vault
    BY <1>1, GhostsGrow, ConstantTypes DEF HandoffInv
  <2>3. Dest[j] # v
    BY <2>1, <2>2 DEF JobInv, Held, Handing, Releasable
  <2>4. ledger[v][f] # "handed_off" /\ Source(j)[f] = "handed_off"
    <3>1. ledger[v]' = Source(j)
      BY <1>1, <2>1 DEF SaveSource, HandoffInv, TypeOK
    <3>2. ledger[v][f]' = "handed_off"
      BY <1>1 DEF HandedOff
    <3>3. Source(j) \in Ledger
      BY <2>1, <2>2 DEF JobInv, Held, Loaded, Handing, Releasable, Source
    <3>4. ledger[v] = NoFile \/ ledger[v][f] # "handed_off"
      BY <1>1 DEF HandedOff
    <3> QED
      BY <3>1, <3>2, <3>4 DEF NoFile
  <2>5. mem[j][f] = "verified"
    BY <2>1, <2>2, <2>4 DEF FromLoad
  <2> QED
    BY <2>1, <2>2, <2>3, <2>5 DEF JobInv, Vouched, Releasing
<1>2. HandoffInv /\ [Next]_vars => [A]_vars
  BY <1>1
<1> QED
  BY <1>2, HandoffInvInit, HandoffInvInductive, PTL DEF Spec, ReleasedIsWhole
=============================================================================
