------------------------------- MODULE Handoff -------------------------------
(***************************************************************************)
(* `darsay assemble --handoff`: several vaults hold partial bundles of one *)
(* pin, and assembles move verified files between them while archive       *)
(* sessions go on fetching (transfer.assemble_partials, _release_sources,  *)
(* hand_off_files).                                                        *)
(*                                                                         *)
(* The locks are taken as exclusive (module TransferLock is about that).   *)
(* What is left to go wrong: an assemble reads its sources' ledgers before *)
(* it holds any lock, copies for hours holding the destination's only, and *)
(* deletes at a source by the ledger it read in the beginning.             *)
(*                                                                         *)
(* Every file has a size and a digest at the publisher, so that a hash     *)
(* tells good bytes from others; a session at one vault is module          *)
(* ArchiveSession, and shows here as the changes it makes to one file.     *)
(***************************************************************************)
EXTENDS Naturals, FiniteSets

CONSTANTS Vault,     \* directories that may hold a bundle of the pin
          File,      \* the pinned files
          Job,       \* assemble commands somebody runs
          Sources,   \* the partial bundles each job reads
          Dest,      \* the vault each job assembles into
          Keeping,   \* jobs without --handoff
          MaxFaults, \* bound on faults, failed copies and rotten files
          MaxLoss    \* bound on power losses

ASSUME HandoffAssumption ==
    /\ Sources \in [Job -> (SUBSET Vault) \ {{}}]
    /\ Dest \in [Job -> Vault]
    /\ Keeping \subseteq Job
    /\ "nobody" \notin Job
    /\ MaxFaults \in Nat /\ MaxLoss \in Nat

Nobody  == "nobody"
Sized   == {"good", "rotten"}            \* of the right size
OnDisk  == Sized \cup {"absent", "short"}
Rec     == {"missing", "verified", "handed_off"}
Ledger  == [File -> Rec]
Fresh   == [f \in File |-> "missing"]
NoFile  == [f \in File |-> "none"]       \* transfer.json does not exist
NoBytes == [f \in File |-> "absent"]

VARIABLES
    bytes,       \* disk: the payload of each vault
    ledger,      \* disk: its transfer.json, or NoFile
    registered,  \* disk: its manifest.json exists
    lock,        \* disk: the job that holds its transfer.lock, or Nobody
    pc,          \* where each job is
    snap,        \* memory of a job: the source ledgers as it loaded them
    frozen,      \* memory of a job: the destination was registered at that time
    mem,         \* memory of a job: the destination's ledger
    todo,        \* memory of a job: sources left in the current loop
    cur,         \* memory of a job: the source it is at
    left,        \* memory of a job: files left in the current loop
    item,        \* memory of a job: the file it is copying
    gave,        \* memory of a job: it handed off files of the current source
    wet,         \* disk: files written and not yet flushed to the medium
    faults,      \* ghost: bounds the model
    losses,      \* ghost: bounds the model
    harmed,      \* ghost: files a disk damaged, somewhere
    stale        \* ghost: a source had changed between its load and its release

disk  == <<bytes, ledger, registered, wet>>
local == <<snap, frozen, mem, todo, cur, left, item, gave>>
ghost == <<faults, losses, harmed, stale>>
vars  == <<disk, lock, pc, local, ghost>>

Places == {"off", "lock", "open", "merge", "copy", "copying", "adopt",
           "release", "hand", "save", "settle", "finish"}

TypeOK ==
    /\ bytes \in [Vault -> [File -> OnDisk]]
    /\ ledger \in [Vault -> Ledger \cup {NoFile}]
    /\ registered \in [Vault -> BOOLEAN]
    /\ lock \in [Vault -> Job \cup {Nobody}]
    /\ pc \in [Job -> Places]
    /\ snap \in [Job -> [Vault -> Ledger \cup {NoFile}]]
    /\ frozen \in [Job -> BOOLEAN]
    /\ mem \in [Job -> Ledger \cup {NoFile}]
    /\ todo \in [Job -> SUBSET Vault]
    /\ cur \in [Job -> Vault]
    /\ left \in [Job -> SUBSET File]
    /\ item \in [Job -> File \cup {Nobody}]
    /\ gave \in [Job -> BOOLEAN]
    /\ faults \in 0..MaxFaults /\ losses \in 0..MaxLoss
    /\ wet \subseteq Vault \X File
    /\ harmed \subseteq File
    /\ stale \in BOOLEAN

Init ==
    /\ bytes = [v \in Vault |-> NoBytes]
    /\ ledger \in [Vault -> {Fresh, NoFile}]
    /\ registered = [v \in Vault |-> FALSE]
    /\ lock = [v \in Vault |-> Nobody]
    /\ pc = [j \in Job |-> "off"]
    /\ snap = [j \in Job |-> [v \in Vault |-> NoFile]]
    /\ frozen = [j \in Job |-> FALSE]
    /\ mem = [j \in Job |-> NoFile]
    /\ todo = [j \in Job |-> {}]
    /\ cur = Dest
    /\ left = [j \in Job |-> {}]
    /\ item = [j \in Job |-> Nobody]
    /\ gave = [j \in Job |-> FALSE]
    /\ wet = {} /\ faults = 0 /\ losses = 0 /\ harmed = {} /\ stale = FALSE

Goto(j, place) == pc' = [pc EXCEPT ![j] = place]
Fault == faults < MaxFaults /\ faults' = faults + 1

\* Mutants: whatever is there is adopted; the record is trusted whatever is
\* there.
ReconciledByPresence(r, b) ==
    CASE b # "absent"       -> "verified"
      [] r = "handed_off"   -> "handed_off"
      [] OTHER              -> "missing"
ReconciledByRecord(r, b) ==
    CASE b = "good" \/ r = "verified"        -> "verified"
      [] b # "good" /\ r = "handed_off"      -> "handed_off"
      [] OTHER                               -> "missing"

\* What reconcile makes of one file: a verified record is trusted if the size
\* is right, other bytes are adopted if their hash is, what is neither goes.
Reconciled(r, b) ==
    CASE b = "good" \/ (r = "verified" /\ b \in Sized) -> "verified"
      [] b # "good" /\ r = "handed_off"                -> "handed_off"
      [] OTHER                                         -> "missing"
Cleaned(r, b) == IF Reconciled(r, b) = "verified" THEN b ELSE "absent"

\* A write is worth remembering while a power loss may still take it.
Written(v, f) == wet' = IF losses < MaxLoss THEN wet \cup {<<v, f>>} ELSE wet

-----------------------------------------------------------------------------
(***************************************************************************)
(* An archive session at vault v, under v's lock, one file at a time.      *)
(***************************************************************************)
ArchiveAt(v) == lock[v] = Nobody /\ ~registered[v] /\ ledger[v] # NoFile

\* Reconcile reads the file; what it finds is recorded.
ArchiveReconciles(v, f) ==
    /\ ArchiveAt(v)
    /\ LET r == Reconciled(ledger[v][f], bytes[v][f])
           b == Cleaned(ledger[v][f], bytes[v][f])
       IN  /\ <<r, b>> # <<ledger[v][f], bytes[v][f]>>
           /\ ledger' = [ledger EXCEPT ![v][f] = r]
           /\ bytes' = [bytes EXCEPT ![v][f] = b]
    /\ UNCHANGED <<registered, wet, lock, pc, local, ghost>>

\* A missing file is downloaded, hashed and recorded.
ArchiveFetches(v, f) ==
    /\ ArchiveAt(v)
    /\ ledger[v][f] = "missing" /\ bytes[v][f] = "absent"
    /\ ledger' = [ledger EXCEPT ![v][f] = "verified"]
    /\ bytes' = [bytes EXCEPT ![v][f] = "good"]
    /\ Written(v, f)
    /\ UNCHANGED <<registered, lock, pc, local, ghost>>

\* Every file verified and there: the bundle gets its manifest.
ArchiveRegisters(v) ==
    /\ ArchiveAt(v)
    /\ \A f \in File : ledger[v][f] = "verified" /\ bytes[v][f] \in Sized
    /\ registered' = [registered EXCEPT ![v] = TRUE]
    /\ UNCHANGED <<bytes, ledger, wet, lock, pc, local, ghost>>

-----------------------------------------------------------------------------
(***************************************************************************)
(* assemble_partials: the ledgers, the locks, the copies.                  *)
(***************************************************************************)
\* _refuse_handoff_of_registered_sources: their payload is frozen.
MayHandOff(j) == j \in Keeping \/ \A s \in Sources[j] \ {Dest[j]} : ~registered[s]

\* The source ledgers are read, a registered source is refused, and the
\* destination is looked at: all of it before any lock is taken.
Launch(j) ==
    /\ pc[j] = "off" /\ \A s \in Sources[j] : ledger[s] # NoFile
    /\ MayHandOff(j)
    /\ snap' = [snap EXCEPT ![j] = [v \in Vault |-> IF v \in Sources[j] THEN ledger[v]
                                                    ELSE NoFile]]
    /\ frozen' = [frozen EXCEPT ![j] = registered[Dest[j]]]
    /\ Goto(j, "lock")
    /\ UNCHANGED <<disk, lock, mem, todo, cur, left, item, gave, ghost>>

Quit(j) ==
    /\ Goto(j, "off")
    /\ snap' = [snap EXCEPT ![j] = [v \in Vault |-> NoFile]]
    /\ frozen' = [frozen EXCEPT ![j] = FALSE]
    /\ mem' = [mem EXCEPT ![j] = NoFile]
    /\ todo' = [todo EXCEPT ![j] = {}]
    /\ cur' = [cur EXCEPT ![j] = Dest[j]]
    /\ left' = [left EXCEPT ![j] = {}]
    /\ item' = [item EXCEPT ![j] = Nobody]
    /\ gave' = [gave EXCEPT ![j] = FALSE]

\* A lock that is taken, or a frozen destination without --handoff, ends it.
Blocked(j) == lock[Dest[j]] # Nobody \/ (frozen[j] /\ j \in Keeping)

Refuse(j) ==
    /\ pc[j] = "lock" /\ Blocked(j)
    /\ Quit(j)
    /\ UNCHANGED <<disk, lock, ghost>>

\* The destination is locked and its ledger loaded, or created from the seed.
\* A registered destination without a ledger gets one in memory only.
LockDest(j) ==
    /\ pc[j] = "lock" /\ ~Blocked(j)
    /\ lock' = [lock EXCEPT ![Dest[j]] = j]
    /\ mem' = [mem EXCEPT ![j] = IF ledger[Dest[j]] = NoFile THEN Fresh
                                 ELSE ledger[Dest[j]]]
    /\ ledger' = [ledger EXCEPT ![Dest[j]] = IF frozen[j] THEN @ ELSE mem'[j]]
    /\ Goto(j, "open")
    /\ UNCHANGED <<bytes, registered, wet, snap, frozen, todo, cur, left, item, gave, ghost>>

\* The destination is reconciled: read-only if it was registered.
ReconcileDest(j) ==
    LET d == Dest[j]
        L == [f \in File |-> Reconciled(mem[j][f], bytes[d][f])]
    IN  /\ mem' = [mem EXCEPT ![j] = L]
        /\ IF frozen[j] THEN UNCHANGED <<bytes, ledger>>
           ELSE /\ ledger' = [ledger EXCEPT ![d] = L]
                /\ bytes' = [bytes EXCEPT ![d] =
                                 [f \in File |-> Cleaned(mem[j][f], @[f])]]
        /\ UNCHANGED <<registered, wet, lock, ghost>>

\* A source that is the destination has nothing to hand to itself.
Releasable(j) == Sources[j] \ {Dest[j]}

Open(j) ==
    /\ pc[j] = "open" /\ ReconcileDest(j)
    /\ Goto(j, IF frozen[j] THEN "release" ELSE "merge")
    /\ todo' = [todo EXCEPT ![j] = IF frozen[j] THEN Releasable(j) ELSE Sources[j]]
    /\ UNCHANGED <<snap, frozen, cur, left, item, gave>>

\* Mutant: what the destination holds is copied again.
MergeOver(j, s) ==
    /\ pc[j] = "merge" /\ s \in todo[j]
    /\ cur' = [cur EXCEPT ![j] = s]
    /\ todo' = [todo EXCEPT ![j] = @ \ {s}]
    /\ left' = [left EXCEPT ![j] = {f \in File : bytes[s][f] # "absent"}]
    /\ Goto(j, "copy")
    /\ UNCHANGED <<disk, lock, snap, frozen, mem, item, gave, ghost>>

\* The files to copy are listed before the first is copied.
Merge(j, s) ==
    /\ pc[j] = "merge" /\ s \in todo[j]
    /\ cur' = [cur EXCEPT ![j] = s]
    /\ todo' = [todo EXCEPT ![j] = @ \ {s}]
    /\ left' = [left EXCEPT ![j] =
                   {f \in File : bytes[s][f] # "absent" /\ bytes[Dest[j]][f] = "absent"}]
    /\ Goto(j, "copy")
    /\ UNCHANGED <<disk, lock, snap, frozen, mem, item, gave, ghost>>

\* A copy is written in place: until it is done the destination is short.
BeginCopy(j, f) ==
    /\ pc[j] = "copy" /\ f \in left[j] /\ bytes[cur[j]][f] # "absent"
    /\ bytes' = [bytes EXCEPT ![Dest[j]][f] = "short"]
    /\ Written(Dest[j], f)
    /\ left' = [left EXCEPT ![j] = @ \ {f}]
    /\ item' = [item EXCEPT ![j] = f]
    /\ Goto(j, "copying")
    /\ UNCHANGED <<ledger, registered, lock, snap, frozen, mem, todo, cur, gave, ghost>>

\* A listed file that is gone is an error, and ends the session.
CopyVanished(j, f) ==
    /\ pc[j] = "copy" /\ f \in left[j] /\ bytes[cur[j]][f] = "absent"
    /\ Goto(j, "finish")
    /\ UNCHANGED <<disk, lock, local, ghost>>

\* The source may have lost the file meanwhile; its open handle has not.
EndCopy(j) ==
    /\ pc[j] = "copying"
    /\ LET b == bytes[cur[j]][item[j]]
       IN  \E c \in IF b = "absent" THEN {"good", "short"} ELSE {b} :
              bytes' = [bytes EXCEPT ![Dest[j]][item[j]] = c]
    /\ item' = [item EXCEPT ![j] = Nobody]
    /\ Goto(j, "copy")
    /\ UNCHANGED <<ledger, registered, wet, lock, snap, frozen, mem, todo, cur, left,
                   gave, ghost>>

\* What this source brought is hashed and adopted.
Adopt(j) ==
    /\ pc[j] = "copy" /\ left[j] = {}
    /\ ReconcileDest(j)
    /\ IF todo[j] # {} THEN Goto(j, "merge") /\ UNCHANGED todo
       ELSE /\ Goto(j, IF j \in Keeping THEN "finish" ELSE "release")
            /\ todo' = [todo EXCEPT ![j] = Releasable(j)]
    /\ UNCHANGED <<snap, frozen, cur, left, item, gave>>

-----------------------------------------------------------------------------
(***************************************************************************)
(* _release_sources: under the source's own lock, each file the            *)
(* destination vouches for is deleted there, by the ledger read at first.  *)
(***************************************************************************)
Release(j, s) ==
    /\ pc[j] = "release" /\ s \in todo[j] /\ lock[s] = Nobody
    /\ lock' = [lock EXCEPT ![s] = j]
    /\ cur' = [cur EXCEPT ![j] = s]
    /\ todo' = [todo EXCEPT ![j] = @ \ {s}]
    /\ stale' = (stale \/ ledger[s] # snap[j][s] \/ registered[s])
    /\ Goto(j, "hand")
    /\ UNCHANGED <<disk, snap, frozen, mem, left, item, gave, faults, losses, harmed>>

\* Mutant: it waits for the source's lock.
ReleaseWaits(j) == FALSE

\* Another run holds the source: the assemble ends there.
ReleaseRefused(j) ==
    /\ pc[j] = "release" /\ \E s \in todo[j] : lock[s] # Nobody
    /\ Goto(j, "finish")
    /\ UNCHANGED <<disk, lock, local, ghost>>

Source(j) == snap[j][cur[j]]

\* hand_off_files' three tests; the destination's record is the gate.
Gone(j, f) == /\ mem[j][f] = "verified" /\ Source(j)[f] = "verified"
              /\ bytes[cur[j]][f] # "absent"

HandOff(j, f) ==
    /\ pc[j] = "hand" /\ Gone(j, f)
    /\ bytes' = [bytes EXCEPT ![cur[j]][f] = "absent"]
    /\ wet' = wet \ {<<cur[j], f>>}
    /\ snap' = [snap EXCEPT ![j][cur[j]][f] = "handed_off"]
    /\ gave' = [gave EXCEPT ![j] = TRUE]
    /\ Goto(j, "save")
    /\ UNCHANGED <<ledger, registered, lock, frozen, mem, todo, cur, left, item, ghost>>

SaveSource(j) ==
    /\ pc[j] = "save"
    /\ ledger' = [ledger EXCEPT ![cur[j]] = Source(j)]
    /\ Goto(j, "hand")
    /\ UNCHANGED <<bytes, registered, wet, lock, local, ghost>>

Unlocked(j) == /\ lock' = [lock EXCEPT ![cur[j]] = Nobody]
               /\ gave' = [gave EXCEPT ![j] = FALSE]
               /\ Goto(j, "release")

\* Nothing went, something stays, or all of it has gone.
Settle(j) ==
    /\ pc[j] = "hand" /\ \A f \in File : ~Gone(j, f)
    /\ gave[j] => \E f \in File : Source(j)[f] # "handed_off"
    /\ ledger' = [ledger EXCEPT ![cur[j]] = IF gave[j] THEN Source(j) ELSE @]
    /\ Unlocked(j)
    /\ UNCHANGED <<bytes, registered, wet, snap, frozen, mem, todo, cur, left, item, ghost>>

\* Mutant: "fetched", which also counts what is still verified at the source.
DissolveFetched(j) ==
    /\ pc[j] = "hand" /\ \A f \in File : ~Gone(j, f)
    /\ gave[j] /\ \A f \in File : Source(j)[f] # "missing"
    /\ bytes' = [bytes EXCEPT ![cur[j]] = NoBytes]
    /\ ledger' = [ledger EXCEPT ![cur[j]] = NoFile]
    /\ registered' = [registered EXCEPT ![cur[j]] = FALSE]
    /\ wet' = wet \ ({cur[j]} \X File)
    /\ Unlocked(j)
    /\ UNCHANGED <<snap, frozen, mem, todo, cur, left, item, ghost>>

\* Fully drained: the source's directory is removed.
Dissolve(j) ==
    /\ pc[j] = "hand" /\ \A f \in File : ~Gone(j, f)
    /\ gave[j] /\ \A f \in File : Source(j)[f] = "handed_off"
    /\ bytes' = [bytes EXCEPT ![cur[j]] = NoBytes]
    /\ ledger' = [ledger EXCEPT ![cur[j]] = NoFile]
    /\ registered' = [registered EXCEPT ![cur[j]] = FALSE]
    /\ wet' = wet \ ({cur[j]} \X File)
    /\ Unlocked(j)
    /\ UNCHANGED <<snap, frozen, mem, todo, cur, left, item, ghost>>

\* finish_session, whether the assemble succeeded or not.
Finish(j) ==
    /\ \/ pc[j] = "finish"
       \/ pc[j] = "release" /\ todo[j] = {}
    /\ ledger' = [ledger EXCEPT ![Dest[j]] = IF frozen[j] THEN @ ELSE mem[j]]
    /\ lock' = [lock EXCEPT ![Dest[j]] = Nobody]
    /\ Quit(j)
    /\ UNCHANGED <<bytes, registered, wet, ghost>>

-----------------------------------------------------------------------------
(***************************************************************************)
(* What can go wrong.                                                      *)
(***************************************************************************)

\* The process dies; the lock it leaves is reclaimed by whoever comes next.
Crash(j) ==
    /\ pc[j] # "off" /\ Fault
    /\ lock' = [v \in Vault |-> IF lock[v] = j THEN Nobody ELSE lock[v]]
    /\ Quit(j)
    /\ UNCHANGED <<disk, losses, harmed, stale>>

\* A copy fails: the truncated file stays, the session is closed as an error.
FailCopy(j) ==
    /\ pc[j] = "copying" /\ Fault
    /\ Goto(j, "finish")
    /\ UNCHANGED <<disk, lock, local, losses, harmed, stale>>

\* A file at rest rots: its size stays.
Rot(v, f) ==
    /\ bytes[v][f] = "good" /\ Fault
    /\ bytes' = [bytes EXCEPT ![v][f] = "rotten"]
    /\ harmed' = harmed \cup {f}
    /\ UNCHANGED <<ledger, registered, wet, lock, pc, local, losses, stale>>

\* The operating system flushes a disk in its own time.
Flush(v) ==
    /\ \E f \in File : <<v, f>> \in wet
    /\ wet' = wet \ ({v} \X File)
    /\ UNCHANGED <<bytes, ledger, registered, lock, pc, local, ghost>>

\* Power is lost at one vault's machine with nothing running there any more:
\* what was not flushed is cut short.
PowerLoss(v) ==
    /\ lock[v] = Nobody /\ losses < MaxLoss /\ losses' = losses + 1
    /\ \E f \in File : <<v, f>> \in wet
    /\ bytes' = [bytes EXCEPT ![v] =
                    [f \in File |-> IF <<v, f>> \in wet THEN "short" ELSE @[f]]]
    /\ harmed' = harmed \cup {f \in File : <<v, f>> \in wet}
    /\ wet' = wet \ ({v} \X File)
    /\ UNCHANGED <<ledger, registered, lock, pc, local, faults, stale>>

-----------------------------------------------------------------------------
Archive == \E v \in Vault :
              \/ ArchiveRegisters(v)
              \/ \E f \in File : ArchiveReconciles(v, f) \/ ArchiveFetches(v, f)

Assemble(j) ==
    \/ Refuse(j) \/ LockDest(j) \/ Open(j) \/ EndCopy(j) \/ Adopt(j) \/ ReleaseRefused(j)
    \/ SaveSource(j) \/ Settle(j) \/ Dissolve(j)
    \/ Finish(j)
    \/ \E s \in Vault : Merge(j, s) \/ Release(j, s)
    \/ \E f \in File : BeginCopy(j, f) \/ CopyVanished(j, f) \/ HandOff(j, f)

World == \/ \E j \in Job : Crash(j) \/ FailCopy(j)
         \/ \E v \in Vault : PowerLoss(v) \/ Flush(v)
         \/ \E v \in Vault, f \in File : Rot(v, f)

Next == Archive \/ World \/ \E j \in Job : Launch(j) \/ Assemble(j)

Spec == Init /\ [][Next]_vars

FairSpec == Spec /\ \A j \in Job : WF_vars(Assemble(j))

-----------------------------------------------------------------------------
(***************************************************************************)
(* What an assemble promises, as long as no source changed under its feet. *)
(***************************************************************************)
HandedOff(v, f) == ledger[v] # NoFile /\ ledger[v][f] = "handed_off"

Somewhere(f) == \E v \in Vault : bytes[v][f] = "good"

\* "so an interrupted copy never costs the source its only copy": the bytes of
\* a file some vault has handed off are good in some vault, whatever crashed
\* and whoever assembled from whom since, unless a disk damaged them.
HandedOffIsSomewhere ==
    \A v \in Vault, f \in File \ harmed : HandedOff(v, f) => stale \/ Somewhere(f)

\* No step of anybody deletes the last good copy of a file, be it a hand-off,
\* a dissolved source, a reconcile or a copy written over it.
LastCopyStays ==
    [][ \A f \in File \ harmed' : Somewhere(f) => stale' \/ Somewhere(f)' ]_vars

\* A directory is removed only when its own ledger says that every file went,
\* and each of them is still good somewhere: bytes the destination could not
\* verify stay at the source.
DissolvedIsElsewhere ==
    [][ \A v \in Vault :
          ledger[v] # NoFile /\ ledger'[v] = NoFile
          => \/ stale'
             \/ \A f \in File : HandedOff(v, f) /\ (f \in harmed \/ Somewhere(f)') ]_vars

\* Whoever is told that its file was handed off is told so when another vault
\* holds it whole, also if a power loss has cut the copy that vault once
\* recorded as verified.
ReleasedIsWhole ==
    [][ \A v \in Vault, f \in File :
          ~HandedOff(v, f) /\ HandedOff(v, f)'
          => stale' \/ \E w \in Vault \ {v} : bytes[w][f] \in Sized ]_vars

\* Two assembles in opposite directions hold a lock each and want the other's:
\* every one that is launched still ends.
AssembleEnds == \A j \in Job : pc[j] # "off" ~> pc[j] = "off"

(***************************************************************************)
(* What the code says of itself, and does not keep.                        *)
(***************************************************************************)
\* "A registered payload is frozen; --handoff must not delete it"
\* (_refuse_handoff_of_registered_sources).
RegisteredIsFrozen ==
    [][ \A v \in Vault : registered[v] => bytes'[v] = bytes[v] ]_vars
=============================================================================
