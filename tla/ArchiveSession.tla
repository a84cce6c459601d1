--------------------------- MODULE ArchiveSession ---------------------------
(***************************************************************************)
(* One bundle directory and the sequence of `darsay archive` sessions that *)
(* bring it from nothing to registered: pin, reconcile, transfer, register *)
(* (archiver.archive, transfer.reconcile, transfer.transfer_all).          *)
(*                                                                         *)
(* Three things are durable: the payload bytes, the ledger transfer.json   *)
(* and the manifest.  A session keeps the ledger in memory and saves it    *)
(* after every change; a crash may fall between any two durable writes and *)
(* loses only the memory.  One session runs at a time: that is what        *)
(* transfer_lock is for, and module TransferLock is about it.              *)
(***************************************************************************)
EXTENDS Naturals, FiniteSets

CONSTANTS File,          \* every path the repository or the payload may name
          NoDigest,      \* files whose publisher lists no digest
          Unsized,       \* files whose publisher lists no size
          Sibling,       \* files with an LFS digest some sibling bundle claims to hold
          MaxCandidates, \* sibling copies tried before the network
          MaxFaults      \* bound on crashes, stops, damage and forced re-pins

ASSUME ArchiveAssumption ==
    /\ NoDigest \subseteq File
    /\ Unsized \subseteq File
    /\ Sibling \subseteq File \ NoDigest
    /\ MaxCandidates \in Nat
    /\ MaxFaults \in Nat

(***************************************************************************)
(* What a payload file may hold, relative to its pin, and what the ledger  *)
(* may say of it.  A verified record is represented by the bytes whose     *)
(* digest it recorded.                                                     *)
(***************************************************************************)
Bytes  == {"good", "wrong", "short"}   \* wrong: right size, other bytes
OnDisk == Bytes \cup {"absent"}
Rec    == Bytes \cup {"missing", "handed_off"}

\* `size_matches`, for bytes that are present.
SizeOK(f, b) == f \in Unsized \/ b # "short"

\* `_digest_matches` ... is not False: no digest to compare is not a mismatch.
Agrees(f, b) == f \in NoDigest \/ b = "good"

VARIABLES
    payload,     \* disk: the bytes at each payload path
    hasLedger,   \* disk: transfer.json exists
    pin,         \* disk: ledger["expected"], the pinned set
    saved,       \* disk: ledger["files"] as last saved
    registered,  \* disk: manifest.json exists
    manifest,    \* disk: the digests manifest.json records
    pc,          \* where the running session is, "idle" when none runs
    files,       \* memory: ledger["files"]
    rehash,      \* memory: --rehash was given
    todo,        \* memory: pinned files reconcile has not reached yet
    job,         \* memory: the _FileJob of each file in flight
    halt,        \* memory: why the transfer is winding down, "no" if it is not
    touched,     \* ghost: files the outside world changed since last hashed
    faults       \* ghost: faults so far, to bound the model

disk    == <<payload, hasLedger, pin, saved, registered, manifest>>
memory  == <<files, rehash, todo, job, halt>>
vars    == <<disk, pc, memory, touched, faults>>

Fresh  == [f \in File |-> "missing"]
NoJob  == [at |-> "none", cands |-> 0, net |-> 0, via |-> "none", sha |-> "absent"]
Idle   == [f \in File |-> NoJob]

Verified(L, f) == L[f] \in Bytes

\* transfer_plan's two verdicts read the ledger's statuses only.
Complete(L) == \A f \in pin : Verified(L, f)
Fetched(L)  == \A f \in pin : Verified(L, f) \/ L[f] = "handed_off"

\* A _FileJob: its place, sibling copies left, network fetches made, where
\* the bytes at the path came from, and the digest read from them.
Job == [at : {"none", "waiting", "going", "copying", "fetched", "hashed"},
        cands : 0..MaxCandidates, net : 0..2,
        via : {"none", "local", "network"}, sha : OnDisk]

Halts     == {"no", "stop", "error", "unsaved", "abort"}
Positions == {"idle", "unlink", "begin", "sweep", "reconcile", "save",
              "transfer", "ending", "register"}

TypeOK ==
    /\ payload \in [File -> OnDisk]
    /\ hasLedger \in BOOLEAN
    /\ pin \subseteq File
    /\ saved \in [File -> Rec]
    /\ registered \in BOOLEAN
    /\ manifest \in [File -> Rec]
    /\ pc \in Positions
    /\ files \in [File -> Rec]
    /\ rehash \in BOOLEAN
    /\ todo \subseteq File
    /\ job \in [File -> Job]
    /\ halt \in Halts
    /\ touched \subseteq File
    /\ faults \in 0..MaxFaults

Init ==
    /\ payload = [f \in File |-> "absent"]
    /\ hasLedger = FALSE /\ pin = {} /\ saved = Fresh
    /\ registered = FALSE /\ manifest = Fresh
    /\ pc = "idle"
    /\ files = Fresh /\ rehash = FALSE /\ todo = {} /\ job = Idle /\ halt = "no"
    /\ touched = {} /\ faults = 0

\* Every fault draws on one budget.
Fault == faults < MaxFaults /\ faults' = faults + 1

-----------------------------------------------------------------------------
(***************************************************************************)
(* Pin.  A manifest refuses everything but --force.                        *)
(***************************************************************************)

\* A ledger is there: continue its pin, whatever scope a new pin would choose.
Resume(r) ==
    /\ pc = "idle" /\ hasLedger /\ ~registered
    /\ pc' = "begin" /\ files' = saved /\ rehash' = r
    /\ UNCHANGED <<disk, todo, job, halt, touched, faults>>

\* No ledger (or an unreadable one): pin `scope` and save it first.
Pin(scope, r) ==
    /\ pc = "idle" /\ ~hasLedger /\ ~registered
    /\ hasLedger' = TRUE /\ pin' = scope /\ saved' = Fresh
    /\ pc' = "begin" /\ files' = Fresh /\ rehash' = r
    /\ UNCHANGED <<payload, registered, manifest, todo, job, halt, touched, faults>>

\* A dry run of a new source records the pin and nothing else.
DryRun(scope) ==
    /\ pc = "idle" /\ ~hasLedger /\ ~registered
    /\ hasLedger' = TRUE /\ pin' = scope /\ saved' = Fresh
    /\ UNCHANGED <<payload, registered, manifest, pc, memory, touched, faults>>

\* --force saves the fresh pin before it removes the manifest.
ForcePin(scope, r) ==
    /\ pc = "idle" /\ Fault
    /\ hasLedger' = TRUE /\ pin' = scope /\ saved' = Fresh
    /\ pc' = IF registered THEN "unlink" ELSE "begin"
    /\ files' = Fresh /\ rehash' = r
    /\ UNCHANGED <<payload, registered, manifest, todo, job, halt, touched>>

Unlink ==
    /\ pc = "unlink"
    /\ registered' = FALSE /\ manifest' = Fresh /\ pc' = "begin"
    /\ UNCHANGED <<payload, hasLedger, pin, saved, memory, touched, faults>>

BeginSession ==
    /\ pc = "begin"
    /\ saved' = files /\ pc' = "sweep"
    /\ UNCHANGED <<payload, hasLedger, pin, registered, manifest, memory,
                   touched, faults>>

-----------------------------------------------------------------------------
(***************************************************************************)
(* Reconcile.  First every payload file outside the pin is removed, then   *)
(* each pinned file is classified.  Discarding bytes and saving the ledger *)
(* are two durable writes: "save" is the point between them.               *)
(***************************************************************************)

Sweep(f) ==
    /\ pc = "sweep" /\ f \notin pin /\ payload[f] # "absent"
    /\ payload' = [payload EXCEPT ![f] = "absent"]
    /\ touched' = touched \ {f}
    /\ UNCHANGED <<hasLedger, pin, saved, registered, manifest, pc, memory, faults>>

SweepDone ==
    /\ pc = "sweep" /\ \A f \in File \ pin : payload[f] = "absent"
    /\ pc' = "reconcile" /\ todo' = pin
    /\ UNCHANGED <<disk, files, rehash, job, halt, touched, faults>>

\* The file keeps its record, unread.
Trust(f) ==
    /\ todo' = todo \ {f}
    /\ UNCHANGED <<disk, pc, files, rehash, job, halt, touched, faults>>

\* The record becomes r and is saved at once.
Record(f, r) ==
    /\ files' = [files EXCEPT ![f] = r] /\ saved' = files'
    /\ todo' = todo \ {f} /\ touched' = touched \ {f}
    /\ UNCHANGED <<payload, hasLedger, pin, registered, manifest, pc, rehash,
                   job, halt, faults>>

\* Mutant of Reject: the hand-off is forgotten with the bytes.
RejectForgetsHandOff(f) ==
    /\ payload' = [payload EXCEPT ![f] = "absent"]
    /\ files' = [files EXCEPT ![f] = "missing"]
    /\ todo' = todo \ {f} /\ touched' = touched \ {f} /\ pc' = "save"
    /\ UNCHANGED <<hasLedger, pin, saved, registered, manifest, rehash, job,
                   halt, faults>>

\* The bytes are removed; a hand-off outlives the bytes that came back wrong.
Reject(f) ==
    /\ payload' = [payload EXCEPT ![f] = "absent"]
    /\ files' = [files EXCEPT ![f] = IF @ = "handed_off" THEN @ ELSE "missing"]
    /\ todo' = todo \ {f} /\ touched' = touched \ {f} /\ pc' = "save"
    /\ UNCHANGED <<hasLedger, pin, saved, registered, manifest, rehash, job,
                   halt, faults>>

\* What --rehash compares with: the pin's digest, or failing that the record's.
RehashAgrees(f) ==
    IF f \in NoDigest THEN payload[f] = files[f] ELSE payload[f] = "good"

\* Mutant of ReconcileAbsent: a verified record is trusted without a stat.
ReconcileAbsentTrusts(f) ==
    /\ payload[f] = "absent"
    /\ IF files[f] # "missing" THEN Trust(f) ELSE Record(f, "missing")

ReconcileAbsent(f) ==
    /\ payload[f] = "absent"
    /\ IF files[f] = "handed_off" THEN Trust(f) ELSE Record(f, "missing")

ReconcileVerified(f) ==
    /\ payload[f] # "absent" /\ SizeOK(f, payload[f]) /\ Verified(files, f)
    /\ IF ~rehash THEN Trust(f)
       ELSE IF RehashAgrees(f) THEN Record(f, payload[f])
       ELSE Reject(f)

ReconcileWrongSize(f) ==
    /\ payload[f] # "absent" /\ ~SizeOK(f, payload[f])
    /\ Reject(f)

\* Bytes without a verified record: hashed, then adopted or removed.
ReconcileUnverified(f) ==
    /\ payload[f] # "absent" /\ SizeOK(f, payload[f]) /\ ~Verified(files, f)
    /\ IF Agrees(f, payload[f]) THEN Record(f, payload[f]) ELSE Reject(f)

Reconcile(f) ==
    /\ pc = "reconcile" /\ f \in todo
    /\ \/ ReconcileAbsent(f)
       \/ ReconcileVerified(f)
       \/ ReconcileWrongSize(f)
       \/ ReconcileUnverified(f)

SaveLedger ==
    /\ pc = "save"
    /\ saved' = files /\ pc' = "reconcile"
    /\ UNCHANGED <<payload, hasLedger, pin, registered, manifest, memory,
                   touched, faults>>

\* A clean stop at a file boundary, or Ctrl-C inside a digest.
StopReconcile ==
    /\ pc = "reconcile" /\ Fault
    /\ pc' = "ending" /\ halt' \in {"stop", "abort", "error"}
    /\ UNCHANGED <<disk, files, rehash, todo, job, touched>>

-----------------------------------------------------------------------------
(***************************************************************************)
(* Transfer.  Each missing file gets a job: sibling copies first, then the *)
(* network, hashed where it landed, settled, committed by the main thread. *)
(***************************************************************************)

NewJob(f) == [NoJob EXCEPT !.at = "waiting",
                           !.cands = IF f \in Sibling THEN MaxCandidates ELSE 0]

BeginTransfer ==
    /\ pc = "reconcile" /\ todo = {}
    /\ pc' = "transfer"
    /\ job' = [f \in File |-> IF f \in pin /\ files[f] = "missing"
                              THEN NewJob(f) ELSE NoJob]
    /\ UNCHANGED <<disk, files, rehash, todo, halt, touched, faults>>

\* A job moves on inside its worker: nothing durable but its payload path.
JobStep(f, at) == pc = "transfer" /\ job[f].at = at
Only(what)     == UNCHANGED <<hasLedger, pin, registered, manifest, pc, rehash,
                              todo, what>>

Start(f) ==
    /\ JobStep(f, "waiting") /\ halt = "no"
    /\ job' = [job EXCEPT ![f].at = "going"]
    /\ Only(<<payload, saved, files, halt, touched, faults>>)

\* _copy_local_file unlinks the destination and writes it in place.
BeginCopy(f) ==
    /\ JobStep(f, "going") /\ job[f].cands > 0
    /\ job' = [job EXCEPT ![f].at = "copying", ![f].cands = @ - 1]
    /\ payload' = [payload EXCEPT ![f] = "short"]
    /\ Only(<<saved, files, halt, touched, faults>>)

EndCopy(f, b) ==
    /\ JobStep(f, "copying")
    /\ job' = [job EXCEPT ![f].at = "fetched", ![f].via = "local"]
    /\ payload' = [payload EXCEPT ![f] = b]
    /\ Only(<<saved, files, halt, touched, faults>>)

FailCopy(f) ==
    /\ JobStep(f, "copying")
    /\ job' = [job EXCEPT ![f].at = "going"]
    /\ payload' = [payload EXCEPT ![f] = "absent"]
    /\ Only(<<saved, files, halt, touched, faults>>)

\* The provider moves a finished download into place in one rename.
Fetch(f, b) ==
    /\ JobStep(f, "going") /\ job[f].cands = 0
    /\ job' = [job EXCEPT ![f].at = "fetched", ![f].net = @ + 1, ![f].via = "network"]
    /\ payload' = [payload EXCEPT ![f] = b]
    /\ Only(<<saved, files, halt, touched, faults>>)

\* Mutant of HashFile: the pin's digest is recorded without reading the bytes.
HashFileUnread(f) ==
    /\ JobStep(f, "fetched")
    /\ job' = [job EXCEPT ![f].at = "hashed", ![f].sha = "good"]
    /\ Only(<<payload, saved, files, halt, touched, faults>>)

HashFile(f) ==
    /\ JobStep(f, "fetched")
    /\ job' = [job EXCEPT ![f].at = "hashed", ![f].sha = payload[f]]
    /\ Only(<<payload, saved, files, halt, touched, faults>>)

\* Mutant of Final: the first miss is kept.
FinalAtOnce(f) == Agrees(f, job[f].sha) \/ job[f].via = "network"

\* _FileJob.settle: a match, or the network's second answer, whatever it is.
Final(f) ==
    \/ Agrees(f, job[f].sha)
    \/ job[f].via = "network" /\ job[f].net # 1

\* Results are still collected after a stop or another file's error.
Collecting == halt \in {"no", "stop", "error"}

GoAround(f) ==
    /\ JobStep(f, "hashed") /\ ~Final(f)
    /\ payload' = [payload EXCEPT ![f] = "absent"]
    /\ job' = [job EXCEPT ![f].at = "going"]
    /\ Only(<<saved, files, halt, touched, faults>>)

\* Mutant of Commit: the record is saved from a copy of the ledger.
CommitToCopy(f) ==
    /\ JobStep(f, "hashed") /\ Final(f) /\ Collecting
    /\ saved' = [files EXCEPT ![f] = job[f].sha]
    /\ job' = [job EXCEPT ![f] = NoJob]
    /\ touched' = touched \ {f}
    /\ Only(<<payload, files, halt, faults>>)

Commit(f) ==
    /\ JobStep(f, "hashed") /\ Final(f) /\ Collecting
    /\ files' = [files EXCEPT ![f] = job[f].sha] /\ saved' = files'
    /\ job' = [job EXCEPT ![f] = NoJob]
    /\ touched' = touched \ {f}
    /\ Only(<<payload, halt, faults>>)

\* Files that were queued behind the stop never start.
Cancelled == [f \in File |-> IF job[f].at = "waiting" THEN NoJob ELSE job[f]]

\* The disk is full: the record is in memory only, and the loop is left.
CommitUnsaved(f) ==
    /\ JobStep(f, "hashed") /\ Final(f) /\ Collecting /\ Fault
    /\ files' = [files EXCEPT ![f] = job[f].sha]
    /\ job' = [Cancelled EXCEPT ![f] = NoJob]
    /\ halt' = "unsaved"
    /\ Only(<<payload, saved, touched>>)

\* A budget, the deadline, the free-space floor, a dead link or Ctrl-C ("stop"),
\* a file's error, or a second Ctrl-C ("abort").  An error outranks a stop.
Halt ==
    /\ pc = "transfer" /\ Fault
    /\ halt' \in CASE halt = "no" -> {"stop", "error", "abort"}
                   [] halt = "stop" -> {"error", "abort"}
                   [] halt = "error" -> {"abort"}
                   [] OTHER -> {}
    /\ job' = Cancelled
    /\ Only(<<payload, saved, files, touched>>)

\* A worker gives up its file: between sources, or Ctrl-C inside the digest
\* (the bytes stay); and a result nobody collects any more is dropped.
Drop(f) ==
    /\ pc = "transfer" /\ halt # "no"
    /\ \/ job[f].at \in {"going", "fetched"}
       \/ job[f].at = "hashed" /\ ~Collecting
    /\ job' = [job EXCEPT ![f] = NoJob]
    /\ Only(<<payload, saved, files, halt, touched, faults>>)

\* Mutant of EndTransfer: a skeleton waits for files nobody fetches.
EndTransferWaits ==
    /\ pc = "transfer" /\ job = Idle
    /\ halt # "no" \/ Complete(files)
    /\ pc' = "ending"
    /\ UNCHANGED <<disk, memory, touched, faults>>

\* All workers are done.  A skeleton whose rest is elsewhere is a clean stop.
EndTransfer ==
    /\ pc = "transfer" /\ job = Idle
    /\ pc' = "ending"
    /\ halt' = IF halt # "no" \/ Complete(files) THEN halt
               ELSE IF Fetched(files) THEN "stop" ELSE "error"
    /\ UNCHANGED <<disk, files, rehash, todo, job, touched, faults>>

-----------------------------------------------------------------------------
(***************************************************************************)
(* Ending.  A clean stop that finds the ledger complete registers anyway.  *)
(***************************************************************************)
\* Mutant of WillRegister: a fully drained skeleton counts as complete.
WillRegisterSkeleton == Fetched(files) /\ halt \in {"no", "stop", "unsaved"}

WillRegister == Complete(files) /\ halt \in {"no", "stop", "unsaved"}

Leave == /\ files' = Fresh /\ rehash' = FALSE /\ todo' = {} /\ job' = Idle
         /\ halt' = "no"

FinishSession ==
    /\ pc = "ending"
    /\ saved' = files
    /\ IF WillRegister THEN pc' = "register" /\ UNCHANGED memory
                       ELSE pc' = "idle" /\ Leave
    /\ UNCHANGED <<payload, hasLedger, pin, registered, manifest, touched, faults>>

\* The operator declines the disk preflight: closed without a second plan.
Decline ==
    /\ pc = "reconcile" /\ todo = {} /\ Fault
    /\ saved' = files /\ pc' = "idle" /\ Leave
    /\ UNCHANGED <<payload, hasLedger, pin, registered, manifest, touched>>

\* Mutant of Register: the manifest copies the pin's digests.
RegisterPinned ==
    /\ pc = "register"
    /\ registered' = TRUE
    /\ manifest' = [f \in File |-> IF f \in pin THEN "good" ELSE "missing"]
    /\ pc' = "idle" /\ Leave
    /\ UNCHANGED <<payload, hasLedger, pin, saved, touched, faults>>

\* write_manifest is the commit point; what follows it is derived from it.
Register ==
    /\ pc = "register"
    /\ registered' = TRUE
    /\ manifest' = [f \in File |-> IF f \in pin THEN files[f] ELSE "missing"]
    /\ pc' = "idle" /\ Leave
    /\ UNCHANGED <<payload, hasLedger, pin, saved, touched, faults>>

\* The process dies, or an error leaves without a save, anywhere.
Crash ==
    /\ pc # "idle" /\ Fault
    /\ pc' = "idle" /\ Leave
    /\ UNCHANGED <<disk, touched>>

-----------------------------------------------------------------------------
(***************************************************************************)
(* The world outside the session, while none runs.                         *)
(***************************************************************************)

\* Bytes rot, vanish, are overwritten, or are copied in by hand.
Damage(f, b) ==
    /\ pc = "idle" /\ b # payload[f] /\ Fault
    /\ payload' = [payload EXCEPT ![f] = b]
    /\ touched' = touched \cup {f}
    /\ UNCHANGED <<hasLedger, pin, saved, registered, manifest, pc, memory>>

\* The ledger is lost; the payload bytes are not.
LoseLedger ==
    /\ pc = "idle" /\ hasLedger /\ Fault
    /\ hasLedger' = FALSE /\ saved' = Fresh /\ pin' = {}
    /\ UNCHANGED <<payload, registered, manifest, pc, memory, touched>>

\* `assemble --handoff` elsewhere took over a verified file (hand_off_files).
\* Handing off the last one removes this directory, which ends the story.
HandOff(f) ==
    /\ pc = "idle" /\ ~registered /\ f \in pin
    /\ Verified(saved, f) /\ payload[f] # "absent"
    /\ \E g \in pin \ {f} : saved[g] # "handed_off"
    /\ payload' = [payload EXCEPT ![f] = "absent"]
    /\ saved' = [saved EXCEPT ![f] = "handed_off"]
    /\ UNCHANGED <<hasLedger, pin, registered, manifest, pc, memory, touched, faults>>

-----------------------------------------------------------------------------
Scopes == SUBSET File \ {{}}

\* The user repeats the command that was interrupted.
Launch == \E r \in BOOLEAN : Resume(r) \/ \E scope \in Scopes : Pin(scope, r)

Transfer(f) ==
    \/ Start(f) \/ BeginCopy(f) \/ FailCopy(f)
    \/ \E b \in {"good", "wrong"} : EndCopy(f, b)
    \/ \E b \in Bytes : Fetch(f, b)
    \/ HashFile(f) \/ GoAround(f) \/ Commit(f) \/ Drop(f)

Session ==
    \/ Unlink \/ BeginSession \/ SweepDone \/ SaveLedger \/ BeginTransfer
    \/ EndTransfer \/ FinishSession \/ Register
    \/ \E f \in File : Sweep(f) \/ Reconcile(f) \/ Transfer(f)

Disturb ==
    \/ StopReconcile \/ Decline \/ Halt \/ Crash \/ LoseLedger
    \/ \E f \in File : CommitUnsaved(f) \/ HandOff(f)
    \/ \E f \in File, b \in OnDisk : Damage(f, b)
    \/ \E scope \in Scopes, r \in BOOLEAN : ForcePin(scope, r)
    \/ \E scope \in Scopes : DryRun(scope)

Next == Launch \/ Session \/ Disturb

Spec == Init /\ [][Next]_vars

FairSpec == Spec /\ WF_vars(Launch) /\ WF_vars(Session)

-----------------------------------------------------------------------------
(***************************************************************************)
(* Properties.                                                             *)
(***************************************************************************)

\* The durable ledger never vouches for bytes other than those it hashed: as
\* long as nobody outside touched the file, its path holds exactly the
\* recorded bytes or nothing.  In particular no session writes over a file
\* that transfer.json, as it would be found after a crash, calls verified.
LedgerHonest ==
    \A f \in File \ touched :
        Verified(saved, f) => payload[f] \in {"absent", saved[f]}

\* A manifest's digests are those of the payload: whatever sequence of
\* crashes, stops, copies and forced re-pins led to registration, an untouched
\* file of a registered bundle holds the recorded bytes (or was lost before
\* the walk reached it, which RegisterSeesEveryFile is about).
ManifestHonest ==
    registered => \A f \in File \ touched :
        manifest[f] \in Bytes => payload[f] \in {"absent", manifest[f]}

\* What is in flight is exactly what the durable ledger calls missing: a
\* verified file is never fetched over, and a handed-off file, whose bytes
\* live in another vault, is never fetched at all.
InFlightIsMissing ==
    \A f \in File : job[f].at # "none" => f \in pin /\ saved[f] = "missing"

\* A session that walked the whole pin registers only what is there: every
\* pinned file is present with the bytes the manifest records, except bytes
\* somebody replaced by others of the same size, and --rehash excludes those.
RegisterSeesEveryFile ==
    [][ ~registered /\ registered' /\ todo = {} =>
        \A f \in pin : /\ payload[f] # "absent"
                       /\ (f \notin touched \/ rehash) => payload[f] = manifest'[f]
      ]_vars

\* Bytes that miss the publisher's digest enter the record only as the
\* network's second answer in a row within one session; adoption, sibling
\* copies and a first download never put them there.
MismatchNeedsTwoFetches ==
    [][ \A f \in File :
          pc # "idle" /\ files'[f] # files[f] /\ files'[f] \in Bytes
              /\ ~Agrees(f, files'[f])
          => job[f].net = 2 /\ job[f].via = "network" ]_vars

\* A hand-off is only undone by bytes that came back and passed the pin's
\* checks, or by giving up the ledger: never by demoting the file to missing.
HandOffKept ==
    [][ \A f \in File :
          saved[f] = "handed_off" /\ saved'[f] # "handed_off"
          => \/ saved'[f] \in Bytes /\ Agrees(f, saved'[f]) /\ payload[f] = saved'[f]
             \/ saved' = Fresh ]_vars

\* A registered bundle is frozen: no session moves its payload or rewrites its
\* manifest; only --force may take the manifest away, and it does so before
\* it touches any byte.
RegisteredFrozen ==
    [][ registered =>
          /\ registered' => manifest' = manifest
          /\ payload' # payload => pc = "idle"
          /\ ~registered' => payload' = payload /\ saved = Fresh ]_vars

(***************************************************************************)
(* The inductive strengthening: what holds of the session's memory.        *)
(***************************************************************************)

\* Sibling copies come before the network, the network answers at most twice,
\* and what was hashed is what lies at the path.
JobShape(j, bytes) ==
    /\ j.at = "none" => j = NoJob
    /\ j.at \in {"waiting", "copying"} => j.net = 0
    /\ j.at = "going" => j.net \in 0..1
    /\ j.cands > 0 => j.net = 0
    /\ j.at \in {"fetched", "hashed"} =>
          /\ bytes \in Bytes
          /\ \/ j.via = "local" /\ j.net = 0
             \/ j.via = "network" /\ j.net \in 1..2
    /\ j.at = "hashed" => j.sha = bytes

JobsShaped == \A f \in File : JobShape(job[f], payload[f])

JobsOnlyInTransfer == pc # "transfer" => job = Idle

\* InFlightIsMissing, for the ledger in memory too.
InFlightInMemory == \A f \in File : job[f].at # "none" => files[f] = "missing"

\* LedgerHonest, for the ledger in memory.
MemoryHonest ==
    \A f \in File \ touched :
        Verified(files, f) => payload[f] \in {"absent", files[f]}

\* A session only runs on a bundle without a manifest, but for the instant
\* between --force's two writes.
SessionUnregistered == /\ registered => pc \in {"idle", "unlink"}
                       /\ pc = "unlink" => registered

\* Records exist for pinned files only, and none before a session loads them.
RecordsArePinned ==
    /\ \A f \in File \ pin : saved[f] = "missing" /\ files[f] = "missing"
    /\ todo \subseteq pin
    /\ pc \in {"idle", "unlink"} => files = Fresh /\ todo = {}
    /\ pc = "unlink" => saved = Fresh
    /\ pc = "register" => Complete(files)

\* What is in memory is on disk, but between a discard and its save, before the
\* session begins and once a save has failed.
MemorySaved ==
    \/ pc \in {"sweep", "reconcile", "register"}
    \/ pc = "transfer" /\ halt # "unsaved"
    => saved = files

\* The memory knows of every hand-off the disk knows of, and of no other.
HandOffsKnown ==
    pc # "idle" => \A f \in File : files[f] = "handed_off" <=> saved[f] = "handed_off"

\* A crash loses at most one file's verdict.
OneBehind == \/ saved = files
             \/ pc \in {"idle", "unlink"}
             \/ \E g \in File : \A f \in File \ {g} : saved[f] = files[f]

\* What the walk has passed and calls verified was there when it passed, with
\* the recorded bytes unless somebody replaced them and --rehash was not given.
WalkedIsThere ==
    pc \in {"reconcile", "save", "transfer", "ending", "register"} =>
      \A f \in pin \ todo : Verified(files, f) =>
          /\ payload[f] # "absent"
          /\ (f \notin touched \/ rehash) => payload[f] = files[f]

JobsInv == JobsShaped /\ JobsOnlyInTransfer /\ InFlightIsMissing /\ InFlightInMemory

HonestInv == MemoryHonest /\ LedgerHonest /\ ManifestHonest

ControlInv == SessionUnregistered /\ RecordsArePinned /\ MemorySaved

MemoryInv == HandOffsKnown /\ OneBehind /\ WalkedIsThere

IInv == TypeOK /\ JobsInv /\ HonestInv /\ ControlInv /\ MemoryInv

\* The whole module implements what ArchivePromise states of the durable
\* ledger and manifest alone.
Promise == INSTANCE ArchivePromise
             WITH wanted <- pin, record <- saved, sealed <- registered, seal <- manifest
PromiseKept == Promise!Spec

\* Every session ends, however it is disturbed.
SessionsEnd == pc # "idle" ~> pc = "idle"

\* Once the disturbances stop, repeating the command registers the bundle,
\* unless part of it was handed off to another vault.
Converges == <>[](registered \/ \E f \in pin : saved[f] = "handed_off")
=============================================================================
