---------------------------- MODULE TransferLock ----------------------------
(***************************************************************************)
(* The per-bundle lock file of transfer.transfer_lock: created exclusively,*)
(* then written, reclaimed when its owner is dead on this host or the      *)
(* directory is a copy, removed by its owner on the way out.  Each file    *)
(* operation is a step of its own, because nothing orders the file         *)
(* operations of two processes.                                            *)
(***************************************************************************)
EXTENDS Naturals, FiniteSets

CONSTANTS Proc,     \* process ids, as the operating systems hand them out
          Host,     \* machines that can see the bundle directory
          HostOf,   \* the machine of each process id
          MaxRuns   \* bound: runs each process id is reused for

\* What the constants are: Parts and MCLiveness assume it of their instances.
LockAssumption == HostOf \in [Proc -> Host] /\ MaxRuns \in Nat

VARIABLES lock,   \* disk: transfer.lock, or NoLock
          pc,     \* where each process is; "off": that id is not running
          run,    \* how many runs each process id has had
          seen,   \* what each process last read from the lock file
          raced   \* ghost: two acquisitions have overlapped

vars == <<lock, pc, run, seen, raced>>

NoLock == [text |-> "none"]

\* The file made by the current run of p, and what it holds: nothing yet, its
\* owner, or an owner whose directory is another one ("copied").
LockOf(p, text) == [text |-> text, by |-> p, run |-> run[p]]
Locks == [text : {"empty", "owner", "copied"}, by : Proc, run : 0..MaxRuns]

Acquiring == {"open", "write", "read", "judge", "unlink"}
Places    == Acquiring \cup {"off", "held", "drop"}

TypeOK ==
    /\ lock \in Locks \cup {NoLock}
    /\ pc \in [Proc -> Places]
    /\ run \in [Proc -> 0..MaxRuns]
    /\ seen \in [Proc -> Locks \cup {NoLock}]
    /\ raced \in BOOLEAN

\* A bundle may have been copied here, lock and all.
Init ==
    /\ lock \in {NoLock} \cup [text : {"copied"}, by : Proc, run : {0}]
    /\ pc = [p \in Proc |-> "off"]
    /\ run = [p \in Proc |-> 0]
    /\ seen = [p \in Proc |-> NoLock]
    /\ raced = FALSE

Alive(p) == pc[p] # "off"
Goto(p, place) == pc' = [pc EXCEPT ![p] = place]

Start(p) ==
    /\ ~Alive(p) /\ run[p] < MaxRuns
    /\ Goto(p, "open")
    /\ run' = [run EXCEPT ![p] = @ + 1]
    /\ raced' = (raced \/ \E q \in Proc : pc[q] \in Acquiring)
    /\ UNCHANGED <<lock, seen>>

\* open("x") creates the file empty, or finds one.
Create(p) ==
    /\ pc[p] = "open" /\ lock = NoLock
    /\ lock' = LockOf(p, "empty")
    /\ Goto(p, "write")
    /\ UNCHANGED <<run, seen, raced>>

Exists(p) ==
    /\ pc[p] = "open" /\ lock # NoLock
    /\ Goto(p, "read")
    /\ UNCHANGED <<lock, run, seen, raced>>

\* The owner record goes to the file this run created, be it linked or not.
Write(p) ==
    /\ pc[p] = "write"
    /\ lock' = IF lock = LockOf(p, "empty") THEN LockOf(p, "owner") ELSE lock
    /\ Goto(p, "held")
    /\ UNCHANGED <<run, seen, raced>>

\* A file that is gone again reads like an empty one.
Read(p) ==
    /\ pc[p] = "read"
    /\ seen' = [seen EXCEPT ![p] = lock]
    /\ Goto(p, "judge")
    /\ UNCHANGED <<lock, run, raced>>

\* Mutants of Stale: the host is not compared; every foreign lock is stale.
StaleAnywhere(p) == seen[p].text = "owner" => ~Alive(seen[p].by)
StaleIfForeign(p) ==
    seen[p].text = "owner" => HostOf[seen[p].by] # HostOf[p] \/ ~Alive(seen[p].by)

\* Only an owner record of this very directory can be live: no record, and one
\* that came with a copy, are stale.
Stale(p) ==
    seen[p].text = "owner" => HostOf[seen[p].by] = HostOf[p] /\ ~Alive(seen[p].by)

Forget(p) == seen' = [seen EXCEPT ![p] = NoLock]

Refuse(p) ==
    /\ pc[p] = "judge" /\ ~Stale(p)
    /\ Goto(p, "off") /\ Forget(p)
    /\ UNCHANGED <<lock, run, raced>>

Judge(p) ==
    /\ pc[p] = "judge" /\ Stale(p)
    /\ Goto(p, "unlink") /\ Forget(p)
    /\ UNCHANGED <<lock, run, raced>>

\* Mutant of Reclaim: the file is not unlinked before the next attempt.
ReclaimForgets(p) ==
    /\ pc[p] = "unlink"
    /\ Goto(p, "open")
    /\ UNCHANGED <<lock, run, seen, raced>>

\* The unlink is by name: it removes whatever file is there by now.
Reclaim(p) ==
    /\ pc[p] = "unlink"
    /\ lock' = NoLock
    /\ Goto(p, "open")
    /\ UNCHANGED <<run, seen, raced>>

\* The way out reads the file again and removes it only if it is still ours.
Finish(p) ==
    /\ pc[p] = "held"
    /\ Goto(p, IF lock = LockOf(p, "owner") THEN "drop" ELSE "off")
    /\ UNCHANGED <<lock, run, seen, raced>>

Drop(p) ==
    /\ pc[p] = "drop"
    /\ lock' = NoLock
    /\ Goto(p, "off")
    /\ UNCHANGED <<run, seen, raced>>

\* The process dies anywhere; its file stays.
Crash(p) ==
    /\ Alive(p)
    /\ Goto(p, "off") /\ Forget(p)
    /\ UNCHANGED <<lock, run, raced>>

Step(p) == Create(p) \/ Exists(p) \/ Write(p) \/ Read(p) \/ Refuse(p)
              \/ Judge(p) \/ Reclaim(p) \/ Finish(p) \/ Drop(p)

Next == \E p \in Proc : Start(p) \/ Step(p) \/ Crash(p)

Spec == Init /\ [][Next]_vars

\* The operating system runs every process that is able to run.
FairSpec == Spec /\ \A p \in Proc : WF_vars(Step(p))

-----------------------------------------------------------------------------
Holders == {p \in Proc : pc[p] \in {"held", "drop"}}

\* "guards against two concurrent runs on one bundle" (docs/INCREMENTAL.md).
MutualExclusion == \A p, q \in Holders : p = q

\* What the lock does guarantee: whoever crashes, whatever ids are reused and
\* whatever lock came along with a copy, two runs hold a bundle at once only
\* if two acquisitions have overlapped before.
ExclusiveUnlessRaced == raced \/ MutualExclusion

\* A holder's claim stays on disk, so that the next run can see it.
HolderIsNamed == raced \/ \A p \in Holders : lock = LockOf(p, "owner")

\* The inductive form of the two: until acquisitions overlap there is one
\* acquirer at most, what it wrote or judged is what lies there, and it never
\* unlinks under a holder.
LockInv ==
    \/ raced
    \/ /\ \A p, q \in Proc : pc[p] \in Acquiring /\ pc[q] \in Acquiring => p = q
       /\ \A p \in Holders : lock = LockOf(p, "owner")
       /\ \A p \in Proc : pc[p] = "write" => lock = LockOf(p, "empty")
       /\ \A p \in Proc, q \in Holders :
             /\ pc[p] # "unlink"
             /\ pc[p] = "judge" => seen[p] = lock

\* A lock written on another machine cannot be judged from here: it stays
\* until its own run removes it.
ForeignLockStays ==
    [][ lock.text = "owner" /\ lock' # lock /\ ~raced
        => \E p \in Proc : /\ HostOf[p] = HostOf[lock.by]
                           /\ pc[p] \in {"drop", "unlink"} /\ pc'[p] # pc[p] ]_vars

\* Every attempt ends in holding or in leaving, however many runs race: no
\* two runs reclaim from each other for ever.
AttemptsEnd == \A p \in Proc : pc[p] = "open" ~> pc[p] \in {"held", "off"}
=============================================================================
