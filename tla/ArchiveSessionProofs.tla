------------------------ MODULE ArchiveSessionProofs ------------------------
(***************************************************************************)
(* Proofs about ArchiveSession for every set of files, every publisher     *)
(* metadata, any number of sibling copies and any number of faults.        *)
(*                                                                         *)
(* The inductive invariant is IInv of ArchiveSession.  Each of its four    *)
(* parts is shown to survive each action; the lemmas follow the order of   *)
(* the actions in ArchiveSession.                                          *)
(***************************************************************************)
EXTENDS ArchiveSession, TLAPS

USE ArchiveAssumption

-----------------------------------------------------------------------------
\* Values the actions assign are of their types.

LEMMA Shapes ==
    /\ Fresh \in [File -> Rec]
    /\ NoJob \in Job
    /\ \A f \in File : NewJob(f) \in Job
    /\ Idle \in [File -> Job]
<1>1. NoJob \in Job
  BY DEF NoJob, Job, OnDisk, Bytes
<1>2. ASSUME NEW f \in File PROVE NewJob(f) \in Job
  <2>1. PICK c \in 0..MaxCandidates : c = IF f \in Sibling THEN MaxCandidates ELSE 0
    OBVIOUS
  <2>2. [NoJob EXCEPT !.at = "waiting", !.cands = c] \in Job
    BY <1>1 DEF Job
  <2> QED
    BY <2>1, <2>2 DEF NewJob
<1> QED
  BY <1>1, <1>2 DEF Fresh, Idle, Rec, Bytes

LEMMA FaultTyped == ASSUME faults \in 0..MaxFaults, Fault PROVE faults' \in 0..MaxFaults
BY DEF Fault

LEMMA InitIInv == Init => IInv
<1> SUFFICES ASSUME Init PROVE IInv
  OBVIOUS
<1> USE DEF Init
<1>1. TypeOK
  <2>1. files \in [File -> Rec] /\ saved \in [File -> Rec] /\ manifest \in [File -> Rec]
    BY Shapes
  <2>2. job \in [File -> Job] /\ payload \in [File -> OnDisk]
    BY Shapes DEF OnDisk
  <2>3. faults \in 0..MaxFaults
    OBVIOUS
  <2> QED
    BY <2>1, <2>2, <2>3 DEF TypeOK, Positions, Halts
<1>2. JobsInv
  BY DEF JobsInv, JobsShaped, JobShape, JobsOnlyInTransfer, InFlightIsMissing,
         InFlightInMemory, Idle, NoJob
<1>3. HonestInv
  BY DEF HonestInv, MemoryHonest, LedgerHonest, ManifestHonest, Verified, Fresh, Bytes
<1>4. ControlInv
  BY DEF ControlInv, SessionUnregistered, RecordsArePinned, MemorySaved, Fresh
<1>5. MemoryInv
  BY DEF MemoryInv, HandOffsKnown, OneBehind, WalkedIsThere
<1> QED
  BY <1>1, <1>2, <1>3, <1>4, <1>5 DEF IInv

-----------------------------------------------------------------------------
\* Pin: a session begins, with no job in flight.

LEMMA ResumePreserves ==
    ASSUME IInv, NEW r \in BOOLEAN, Resume(r)
    PROVE  IInv'
<1>1. TypeOK'
    BY Shapes DEF IInv, TypeOK, Resume, Halts, Positions, Verified, disk
<1>2. JobsInv'
    BY DEF IInv, TypeOK, Resume, disk, memory, JobsInv, JobsShaped, JobShape,
        JobsOnlyInTransfer, InFlightIsMissing, InFlightInMemory
<1>3. HonestInv'
    BY DEF IInv, TypeOK, Resume, Verified, disk, memory, HonestInv,
        MemoryHonest, LedgerHonest, ManifestHonest, NoJob
<1>4. ControlInv'
    BY DEF IInv, TypeOK, Resume, Verified, disk, memory, ControlInv,
        SessionUnregistered, RecordsArePinned, MemorySaved
<1>5. MemoryInv'
    BY DEF Resume, Bytes, disk, memory, MemoryInv, HandOffsKnown, OneBehind,
        WalkedIsThere, NoJob
<1> QED
  BY <1>1, <1>2, <1>3, <1>4, <1>5 DEF IInv

LEMMA PinPreserves ==
    ASSUME IInv, NEW scope \in SUBSET File, NEW r \in BOOLEAN, Pin(scope, r)
    PROVE  IInv'
<1>1. TypeOK'
    BY Shapes DEF IInv, TypeOK, Pin, Halts, Positions
<1>2. JobsInv'
    BY DEF IInv, TypeOK, Pin, disk, memory, JobsInv, JobsShaped, JobShape,
        JobsOnlyInTransfer, InFlightIsMissing, InFlightInMemory, NoJob, Idle
<1>3. HonestInv'
    BY DEF IInv, TypeOK, Pin, Bytes, OnDisk, Rec, Verified, disk, memory,
        HonestInv, MemoryHonest, LedgerHonest, ManifestHonest, NoJob, Idle,
        Fresh, Final
<1>4. ControlInv'
    BY DEF IInv, TypeOK, Pin, ControlInv, SessionUnregistered,
        RecordsArePinned, MemorySaved, Idle, Fresh, JobsInv, JobsShaped,
        JobShape
<1>5. MemoryInv'
    BY DEF Pin, Bytes, disk, memory, MemoryInv, HandOffsKnown, OneBehind,
        WalkedIsThere, NoJob
<1> QED
  BY <1>1, <1>2, <1>3, <1>4, <1>5 DEF IInv

LEMMA DryRunPreserves ==
    ASSUME IInv, NEW scope \in SUBSET File, DryRun(scope)
    PROVE  IInv'
<1>1. TypeOK'
    BY Shapes DEF IInv, TypeOK, DryRun, memory, NoJob
<1>2. JobsInv'
    BY DEF IInv, TypeOK, DryRun, disk, memory, JobsInv, JobsShaped, JobShape,
        JobsOnlyInTransfer, InFlightIsMissing, InFlightInMemory, NoJob, Idle
<1>3. HonestInv'
    BY DEF IInv, TypeOK, DryRun, Bytes, OnDisk, Rec, Verified, disk, memory,
        HonestInv, MemoryHonest, LedgerHonest, ManifestHonest, NoJob, Idle,
        Fresh, Final
<1>4. ControlInv'
    BY DEF IInv, TypeOK, DryRun, Verified, disk, memory, ControlInv,
        SessionUnregistered, RecordsArePinned, MemorySaved, Idle, Fresh,
        JobsInv, JobsShaped, JobShape
<1>5. MemoryInv'
    BY DEF DryRun, Bytes, disk, memory, MemoryInv, HandOffsKnown, OneBehind,
        WalkedIsThere, NoJob
<1> QED
  BY <1>1, <1>2, <1>3, <1>4, <1>5 DEF IInv

LEMMA ForcePinPreserves ==
    ASSUME IInv, NEW scope \in SUBSET File, NEW r \in BOOLEAN, ForcePin(scope, r)
    PROVE  IInv'
<1>1. TypeOK'
  <2>1. TypeOK
    BY DEF IInv
  <2>2. faults' \in 0..MaxFaults
    BY <2>1, FaultTyped DEF TypeOK, ForcePin
  <2> QED
    BY <2>1, <2>2, Shapes DEF TypeOK, ForcePin, Positions
<1>2. JobsInv'
    BY DEF IInv, TypeOK, ForcePin, disk, memory, JobsInv, JobsShaped,
        JobShape, JobsOnlyInTransfer, InFlightIsMissing, InFlightInMemory,
        NoJob, Idle, Fresh
<1>3. HonestInv'
    BY DEF IInv, TypeOK, ForcePin, Fault, Bytes, OnDisk, Positions, Verified,
        disk, memory, HonestInv, MemoryHonest, LedgerHonest, ManifestHonest,
        NoJob, Idle, Fresh
<1>4. ControlInv'
    BY DEF IInv, TypeOK, ForcePin, ControlInv, SessionUnregistered,
        RecordsArePinned, MemorySaved, Complete, Fresh, JobsInv, JobsShaped,
        JobShape
<1>5. MemoryInv'
    BY DEF ForcePin, Fault, MemoryInv, HandOffsKnown, OneBehind, WalkedIsThere
<1> QED
  BY <1>1, <1>2, <1>3, <1>4, <1>5 DEF IInv

LEMMA UnlinkPreserves ==
    ASSUME IInv, Unlink
    PROVE  IInv'
<1>1. TypeOK'
    BY Shapes DEF IInv, TypeOK, Unlink, Bytes, Halts, Positions, memory, NoJob
<1>2. JobsInv'
    BY DEF IInv, TypeOK, Unlink, disk, memory, JobsInv, JobsShaped, JobShape,
        JobsOnlyInTransfer, InFlightIsMissing, InFlightInMemory
<1>3. HonestInv'
    BY DEF IInv, TypeOK, Unlink, memory, HonestInv, MemoryHonest,
        LedgerHonest, ManifestHonest, NoJob
<1>4. ControlInv'
    BY DEF IInv, TypeOK, Unlink, Verified, disk, memory, ControlInv,
        SessionUnregistered, RecordsArePinned, MemorySaved
<1>5. MemoryInv'
    BY DEF IInv, TypeOK, Unlink, Bytes, disk, memory, MemoryInv,
        HandOffsKnown, OneBehind, WalkedIsThere, NoJob, MemoryHonest,
        LedgerHonest, ManifestHonest, ControlInv, SessionUnregistered,
        RecordsArePinned
<1> QED
  BY <1>1, <1>2, <1>3, <1>4, <1>5 DEF IInv

LEMMA BeginSessionPreserves ==
    ASSUME IInv, BeginSession
    PROVE  IInv'
<1>1. TypeOK'
    BY Shapes DEF IInv, TypeOK, BeginSession, Bytes, Halts, Positions, memory,
        NoJob
<1>2. JobsInv'
    BY DEF IInv, TypeOK, BeginSession, disk, memory, JobsInv, JobsShaped,
        JobShape, JobsOnlyInTransfer, InFlightIsMissing, InFlightInMemory
<1>3. HonestInv'
    BY DEF IInv, TypeOK, BeginSession, memory, HonestInv, MemoryHonest,
        LedgerHonest, ManifestHonest, NoJob
<1>4. ControlInv'
    BY DEF IInv, TypeOK, BeginSession, Verified, disk, memory, ControlInv,
        SessionUnregistered, RecordsArePinned, MemorySaved
<1>5. MemoryInv'
    BY DEF BeginSession, Bytes, disk, memory, MemoryInv, HandOffsKnown,
        OneBehind, WalkedIsThere, NoJob
<1> QED
  BY <1>1, <1>2, <1>3, <1>4, <1>5 DEF IInv

-----------------------------------------------------------------------------
\* Reconcile.

LEMMA SweepPreserves ==
    ASSUME IInv, NEW f \in File, Sweep(f)
    PROVE  IInv'
<1>1. TypeOK'
    BY Shapes DEF IInv, TypeOK, Sweep, Bytes, Job, memory, NoJob
<1>2. JobsInv'
    BY DEF IInv, TypeOK, Sweep, disk, memory, JobsInv, JobsShaped, JobShape,
        JobsOnlyInTransfer, InFlightIsMissing, InFlightInMemory
<1>3. HonestInv'
    BY DEF IInv, TypeOK, Sweep, memory, HonestInv, MemoryHonest, LedgerHonest,
        ManifestHonest, NoJob
<1>4. ControlInv'
    BY DEF IInv, TypeOK, Sweep, Verified, disk, memory, ControlInv,
        SessionUnregistered, RecordsArePinned, MemorySaved
<1>5. MemoryInv'
    BY DEF IInv, TypeOK, Sweep, Bytes, disk, memory, MemoryInv, HandOffsKnown,
        OneBehind, WalkedIsThere, NoJob
<1> QED
  BY <1>1, <1>2, <1>3, <1>4, <1>5 DEF IInv

LEMMA SweepDonePreserves ==
    ASSUME IInv, SweepDone
    PROVE  IInv'
<1>1. TypeOK'
    BY Shapes DEF IInv, TypeOK, SweepDone, Halts, Positions, Verified, disk
<1>2. JobsInv'
    BY DEF IInv, TypeOK, SweepDone, disk, memory, JobsInv, JobsShaped,
        JobShape, JobsOnlyInTransfer, InFlightIsMissing, InFlightInMemory
<1>3. HonestInv'
    BY DEF IInv, TypeOK, SweepDone, Verified, disk, memory, HonestInv,
        MemoryHonest, LedgerHonest, ManifestHonest, NoJob
<1>4. ControlInv'
    BY DEF IInv, TypeOK, SweepDone, Verified, disk, memory, ControlInv,
        SessionUnregistered, RecordsArePinned, MemorySaved
<1>5. MemoryInv'
    BY DEF IInv, TypeOK, SweepDone, Bytes, disk, memory, MemoryInv,
        HandOffsKnown, OneBehind, WalkedIsThere, NoJob
<1> QED
  BY <1>1, <1>2, <1>3, <1>4, <1>5 DEF IInv

LEMMA ReconcilePreserves ==
    ASSUME IInv, NEW f \in File, Reconcile(f)
    PROVE  IInv'
<1>1. f \in pin /\ pc = "reconcile" /\ job = Idle /\ ~registered /\ payload[f] \in OnDisk
    BY DEF IInv, TypeOK, Reconcile, ControlInv, RecordsArePinned,
        SessionUnregistered, JobsInv, JobsOnlyInTransfer
<1>2. \/ Trust(f) /\ (Verified(files, f) => payload[f] # "absent" /\ ~rehash)
      \/ \E r \in {"missing", payload[f]} : r \in Rec /\ Record(f, r)
      \/ Reject(f)
    BY <1>1 DEF Reconcile, ReconcileAbsent, ReconcileVerified,
        ReconcileWrongSize, ReconcileUnverified, Verified, OnDisk, Bytes, Rec
<1>3. CASE Trust(f) /\ (Verified(files, f) => payload[f] # "absent" /\ ~rehash)
  <2>1. TypeOK'
    BY <1>1, <1>3 DEF IInv, TypeOK, Trust, Verified, disk
  <2>2. JobsInv'
    BY <1>1, <1>3 DEF IInv, TypeOK, Trust, disk, memory, JobsInv, JobsShaped,
        JobShape, JobsOnlyInTransfer, InFlightIsMissing, InFlightInMemory
  <2>3. HonestInv'
    BY <1>1, <1>3 DEF IInv, TypeOK, Trust, Verified, disk, memory, HonestInv,
        MemoryHonest, LedgerHonest, ManifestHonest, NoJob
  <2>4. ControlInv'
    BY <1>1, <1>3 DEF IInv, TypeOK, Trust, Verified, disk, memory, ControlInv,
        SessionUnregistered, RecordsArePinned, MemorySaved
  <2>5. MemoryInv'
    BY <1>1, <1>3 DEF IInv, TypeOK, Trust, Bytes, disk, memory, MemoryInv,
        HandOffsKnown, OneBehind, WalkedIsThere, NoJob, JobsShaped, JobShape,
        JobsOnlyInTransfer, InFlightIsMissing, InFlightInMemory, HonestInv,
        MemoryHonest, LedgerHonest, ManifestHonest, ControlInv,
        SessionUnregistered, RecordsArePinned
  <2> QED
    BY <2>1, <2>2, <2>3, <2>4, <2>5 DEF IInv
<1>4. CASE \E r \in {"missing", payload[f]} : r \in Rec /\ Record(f, r)
  <2>1. PICK r \in {"missing", payload[f]} : r \in Rec /\ Record(f, r)
    BY <1>4
  <2>2. TypeOK'
    BY <2>1 DEF IInv, TypeOK, Record
  <2>3. JobsInv'
    BY <1>1, <2>1 DEF Record, disk, memory, JobsInv, JobsShaped, JobShape,
        JobsOnlyInTransfer, InFlightIsMissing, InFlightInMemory, NoJob, Idle
  <2>4. HonestInv'
    BY <1>1, <2>1 DEF IInv, TypeOK, Record, Bytes, OnDisk, Rec, Verified,
        disk, memory, HonestInv, MemoryHonest, LedgerHonest, ManifestHonest,
        NoJob
  <2>5. ControlInv'
    BY <1>1, <2>1 DEF IInv, TypeOK, Record, ControlInv, SessionUnregistered,
        RecordsArePinned, MemorySaved
  <2>6. MemoryInv'
    BY <1>1, <2>1 DEF IInv, TypeOK, Record, Bytes, Halts, Positions, Verified,
        disk, memory, MemoryInv, HandOffsKnown, OneBehind, WalkedIsThere,
        NoJob
  <2> QED
    BY <2>2, <2>3, <2>4, <2>5, <2>6 DEF IInv
<1>5. CASE Reject(f)
  <2>1. TypeOK'
    BY <1>1, <1>5 DEF IInv, TypeOK, Reject, Bytes, OnDisk, Rec, Halts,
        Positions
  <2>2. JobsInv'
    BY <1>1, <1>5 DEF Reject, disk, memory, JobsInv, JobsShaped, JobShape,
        JobsOnlyInTransfer, InFlightIsMissing, InFlightInMemory, NoJob, Idle
  <2>3. HonestInv'
    BY <1>1, <1>5 DEF IInv, TypeOK, Reject, Verified, disk, memory, HonestInv,
        MemoryHonest, LedgerHonest, ManifestHonest, NoJob
  <2>4. ControlInv'
    BY <1>1, <1>5 DEF IInv, TypeOK, Reject, ControlInv, SessionUnregistered,
        RecordsArePinned, MemorySaved
  <2>5. MemoryInv'
    BY <1>1, <1>5 DEF IInv, TypeOK, Reject, Bytes, Halts, Positions, Verified,
        disk, memory, MemoryInv, HandOffsKnown, OneBehind, WalkedIsThere,
        NoJob, MemoryHonest, LedgerHonest, ManifestHonest, ControlInv,
        SessionUnregistered, RecordsArePinned, MemorySaved, Complete, Agrees,
        RehashAgrees, Collecting
  <2> QED
    BY <2>1, <2>2, <2>3, <2>4, <2>5 DEF IInv
<1> QED
  BY <1>2, <1>3, <1>4, <1>5

LEMMA SaveLedgerPreserves ==
    ASSUME IInv, SaveLedger
    PROVE  IInv'
<1>1. TypeOK'
    BY Shapes DEF IInv, TypeOK, SaveLedger, Bytes, Halts, Positions, memory,
        NoJob
<1>2. JobsInv'
    BY DEF IInv, TypeOK, SaveLedger, disk, memory, JobsInv, JobsShaped,
        JobShape, JobsOnlyInTransfer, InFlightIsMissing, InFlightInMemory
<1>3. HonestInv'
    BY DEF IInv, TypeOK, SaveLedger, memory, HonestInv, MemoryHonest,
        LedgerHonest, ManifestHonest, NoJob
<1>4. ControlInv'
    BY DEF IInv, TypeOK, SaveLedger, Verified, disk, memory, ControlInv,
        SessionUnregistered, RecordsArePinned, MemorySaved
<1>5. MemoryInv'
    BY DEF IInv, TypeOK, SaveLedger, Bytes, disk, memory, MemoryInv,
        HandOffsKnown, OneBehind, WalkedIsThere, NoJob
<1> QED
  BY <1>1, <1>2, <1>3, <1>4, <1>5 DEF IInv

LEMMA StopReconcilePreserves ==
    ASSUME IInv, StopReconcile
    PROVE  IInv'
<1>1. TypeOK'
  <2>1. TypeOK
    BY DEF IInv
  <2>2. faults' \in 0..MaxFaults
    BY <2>1, FaultTyped DEF TypeOK, StopReconcile
  <2> QED
    BY <2>1, <2>2, Shapes DEF TypeOK, StopReconcile, disk, Positions, Halts
<1>2. JobsInv'
    BY DEF IInv, TypeOK, StopReconcile, disk, memory, JobsInv, JobsShaped,
        JobShape, JobsOnlyInTransfer, InFlightIsMissing, InFlightInMemory,
        NoJob
<1>3. HonestInv'
    BY DEF IInv, TypeOK, StopReconcile, disk, memory, HonestInv, MemoryHonest,
        LedgerHonest, ManifestHonest
<1>4. ControlInv'
    BY DEF IInv, TypeOK, StopReconcile, Verified, disk, memory, ControlInv,
        SessionUnregistered, RecordsArePinned, MemorySaved, Complete
<1>5. MemoryInv'
    BY DEF IInv, TypeOK, StopReconcile, Fault, Verified, disk, memory,
        MemoryInv, HandOffsKnown, OneBehind, WalkedIsThere
<1> QED
  BY <1>1, <1>2, <1>3, <1>4, <1>5 DEF IInv

-----------------------------------------------------------------------------
\* Transfer: jobs appear for missing files only.

LEMMA BeginTransferPreserves ==
    ASSUME IInv, BeginTransfer
    PROVE  IInv'
<1>1. TypeOK'
    BY Shapes DEF IInv, TypeOK, BeginTransfer, Halts, Positions, Verified,
        disk
<1>2. JobsInv'
  <2>1. \A f \in File : job'[f] = IF f \in pin /\ files[f] = "missing"
                                   THEN NewJob(f) ELSE NoJob
    BY DEF BeginTransfer
  <2>2. JobsShaped'
    BY <2>1, Shapes DEF JobsShaped, JobShape, NewJob, NoJob, BeginTransfer, disk
  <2>3. \A f \in File : job'[f].at # "none" => f \in pin /\ files[f] = "missing"
    BY <2>1 DEF NoJob
  <2>4. saved = files
    BY DEF BeginTransfer, IInv, ControlInv, MemorySaved
  <2> QED
    BY <2>2, <2>3, <2>4
    DEF BeginTransfer, JobsInv, JobsOnlyInTransfer, InFlightIsMissing,
        InFlightInMemory, disk
<1>3. HonestInv'
    BY DEF IInv, TypeOK, BeginTransfer, Verified, disk, memory, HonestInv,
        MemoryHonest, LedgerHonest, ManifestHonest, NoJob
<1>4. ControlInv'
    BY DEF IInv, TypeOK, BeginTransfer, Verified, disk, memory, ControlInv,
        SessionUnregistered, RecordsArePinned, MemorySaved
<1>5. MemoryInv'
    BY DEF IInv, TypeOK, BeginTransfer, Bytes, disk, memory, MemoryInv,
        HandOffsKnown, OneBehind, WalkedIsThere, NoJob
<1> QED
  BY <1>1, <1>2, <1>3, <1>4, <1>5 DEF IInv

LEMMA StartPreserves ==
    ASSUME IInv, NEW f \in File, Start(f)
    PROVE  IInv'
<1>1. TypeOK'
    BY Shapes DEF IInv, TypeOK, Start, JobStep, Only, Bytes, OnDisk, Rec, Job,
        Halts, Positions, Verified, disk, memory, NoJob, Idle, Fresh, NewJob,
        Cancelled, JobsInv, JobsShaped, JobShape
<1>2. JobsInv'
    BY DEF IInv, TypeOK, Start, JobStep, Only, Bytes, JobsInv, JobsShaped,
        JobShape, JobsOnlyInTransfer, InFlightIsMissing, InFlightInMemory
<1>3. HonestInv'
    BY DEF IInv, TypeOK, Start, JobStep, Only, disk, memory, HonestInv,
        MemoryHonest, LedgerHonest, ManifestHonest
<1>4. ControlInv'
    BY DEF IInv, TypeOK, Start, JobStep, Only, memory, ControlInv,
        SessionUnregistered, RecordsArePinned, MemorySaved
<1>5. MemoryInv'
    BY DEF IInv, TypeOK, Start, JobStep, Only, Bytes, memory, MemoryInv,
        HandOffsKnown, OneBehind, WalkedIsThere, NoJob, Idle
<1> QED
  BY <1>1, <1>2, <1>3, <1>4, <1>5 DEF IInv

LEMMA BeginCopyPreserves ==
    ASSUME IInv, NEW f \in File, BeginCopy(f)
    PROVE  IInv'
<1>1. TypeOK'
  <2>1. payload[f] \in OnDisk /\ job[f] \in Job
    BY DEF IInv, TypeOK
  <2>2. job' \in [File -> Job]
    BY <2>1 DEF IInv, TypeOK, BeginCopy, Job, OnDisk, Bytes
  <2> QED
    BY <2>2 DEF IInv, TypeOK, BeginCopy, Only, OnDisk, Bytes
<1>2. JobsInv'
    BY DEF IInv, TypeOK, BeginCopy, Job
<1>3. HonestInv'
    BY DEF IInv, TypeOK, BeginCopy, Job
<1>4. ControlInv'
    BY DEF IInv, TypeOK, BeginCopy, Job
<1>5. MemoryInv'
    BY DEF IInv, TypeOK, BeginCopy, JobStep, Rec, Job
<1> QED
  BY <1>1, <1>2, <1>3, <1>4, <1>5 DEF IInv

LEMMA EndCopyPreserves ==
    ASSUME IInv, NEW f \in File, NEW b \in {"good", "wrong"}, EndCopy(f, b)
    PROVE  IInv'
<1>1. TypeOK'
  <2>1. payload[f] \in OnDisk /\ job[f] \in Job
    BY DEF IInv, TypeOK
  <2>2. job' \in [File -> Job]
    BY <2>1 DEF IInv, TypeOK, EndCopy, Job, OnDisk, Bytes
  <2> QED
    BY <2>2 DEF IInv, TypeOK, EndCopy, Only, OnDisk, Bytes
<1>2. JobsInv'
    BY DEF IInv, TypeOK, EndCopy, JobStep, Only, Bytes, JobsInv, JobsShaped,
        JobShape, JobsOnlyInTransfer, InFlightIsMissing, InFlightInMemory
<1>3. HonestInv'
    BY DEF IInv, TypeOK, EndCopy, JobStep, Only, Bytes, Halts, Positions,
        Verified, disk, memory, HonestInv, MemoryHonest, LedgerHonest,
        ManifestHonest, NoJob, Idle, Fresh, Final, RehashAgrees, JobsInv,
        JobsShaped, JobShape, JobsOnlyInTransfer, InFlightIsMissing,
        InFlightInMemory, ControlInv, SessionUnregistered, RecordsArePinned,
        MemorySaved, Complete
<1>4. ControlInv'
    BY DEF IInv, TypeOK, EndCopy, JobStep, Only, memory, ControlInv,
        SessionUnregistered, RecordsArePinned, MemorySaved
<1>5. MemoryInv'
    BY DEF IInv, TypeOK, EndCopy, JobStep, Only, Bytes, OnDisk, memory,
        MemoryInv, HandOffsKnown, OneBehind, WalkedIsThere, NoJob, Idle,
        Fresh, JobsInv, JobsShaped, InFlightInMemory, HonestInv, MemoryHonest,
        LedgerHonest, ManifestHonest, ControlInv, SessionUnregistered
<1> QED
  BY <1>1, <1>2, <1>3, <1>4, <1>5 DEF IInv

LEMMA FailCopyPreserves ==
    ASSUME IInv, NEW f \in File, FailCopy(f)
    PROVE  IInv'
<1>1. TypeOK'
    BY Shapes DEF IInv, TypeOK, FailCopy, JobStep, Only, Bytes, OnDisk, Rec,
        Job, Halts, Positions, Verified, disk, memory, NoJob, Idle, Fresh,
        NewJob, Cancelled, JobsInv, JobsShaped, JobShape
<1>2. JobsInv'
    BY DEF IInv, TypeOK, FailCopy, JobStep, Only, Bytes, JobsInv, JobsShaped,
        JobShape, JobsOnlyInTransfer, InFlightIsMissing, InFlightInMemory
<1>3. HonestInv'
    BY DEF IInv, TypeOK, FailCopy, JobStep, Only, disk, memory, HonestInv,
        MemoryHonest, LedgerHonest, ManifestHonest
<1>4. ControlInv'
    BY DEF IInv, TypeOK, FailCopy, JobStep, Only, memory, ControlInv,
        SessionUnregistered, RecordsArePinned, MemorySaved
<1>5. MemoryInv'
    BY DEF IInv, TypeOK, FailCopy, JobStep, Only, Bytes, OnDisk, Positions,
        Verified, disk, memory, MemoryInv, HandOffsKnown, OneBehind,
        WalkedIsThere, NoJob, Idle, Fresh, JobsInv, JobsShaped, JobShape,
        JobsOnlyInTransfer, InFlightIsMissing, InFlightInMemory, HonestInv,
        MemoryHonest, LedgerHonest, ManifestHonest, ControlInv,
        SessionUnregistered
<1> QED
  BY <1>1, <1>2, <1>3, <1>4, <1>5 DEF IInv

LEMMA FetchPreserves ==
    ASSUME IInv, NEW f \in File, NEW b \in Bytes, Fetch(f, b)
    PROVE  IInv'
<1>1. TypeOK'
  <2>1. payload[f] \in OnDisk /\ job[f] \in Job
    BY DEF IInv, TypeOK
  <2>2. job' \in [File -> Job]
    BY <2>1 DEF IInv, TypeOK, Fetch, Job, OnDisk, Bytes
  <2> QED
    BY <2>2 DEF IInv, TypeOK, Fetch, Only, OnDisk
<1>2. JobsInv'
    BY DEF IInv, TypeOK, Fetch, Job
<1>3. HonestInv'
    BY DEF IInv, TypeOK, Fetch, Job
<1>4. ControlInv'
    BY DEF IInv, TypeOK, Fetch, Job
<1>5. MemoryInv'
    BY DEF IInv, TypeOK, Fetch, JobStep, Rec, Job
<1> QED
  BY <1>1, <1>2, <1>3, <1>4, <1>5 DEF IInv

LEMMA HashFilePreserves ==
    ASSUME IInv, NEW f \in File, HashFile(f)
    PROVE  IInv'
<1>1. TypeOK'
  <2>1. payload[f] \in OnDisk /\ job[f] \in Job
    BY DEF IInv, TypeOK
  <2>2. job' \in [File -> Job]
    BY <2>1 DEF IInv, TypeOK, HashFile, Job, OnDisk, Bytes
  <2> QED
    BY <2>2 DEF IInv, TypeOK, HashFile, Only
<1>2. JobsInv'
    BY DEF IInv, TypeOK, HashFile, JobStep, Only, Bytes, JobsInv, JobsShaped,
        JobShape, JobsOnlyInTransfer, InFlightIsMissing, InFlightInMemory
<1>3. HonestInv'
    BY DEF IInv, TypeOK, HashFile, JobStep, Only, disk, memory, HonestInv,
        MemoryHonest, LedgerHonest, ManifestHonest
<1>4. ControlInv'
    BY DEF IInv, TypeOK, HashFile, JobStep, Only, memory, ControlInv,
        SessionUnregistered, RecordsArePinned, MemorySaved
<1>5. MemoryInv'
    BY DEF IInv, TypeOK, HashFile, JobStep, Only, Bytes, memory, MemoryInv,
        HandOffsKnown, OneBehind, WalkedIsThere, NoJob, Idle
<1> QED
  BY <1>1, <1>2, <1>3, <1>4, <1>5 DEF IInv

LEMMA GoAroundPreserves ==
    ASSUME IInv, NEW f \in File, GoAround(f)
    PROVE  IInv'
<1>1. TypeOK'
  <2>1. payload[f] \in OnDisk /\ job[f] \in Job
    BY DEF IInv, TypeOK
  <2>2. job' \in [File -> Job]
    BY <2>1 DEF IInv, TypeOK, GoAround, Job, OnDisk, Bytes
  <2> QED
    BY <2>2 DEF IInv, TypeOK, GoAround, Only, OnDisk
<1>2. JobsInv'
    BY DEF IInv, TypeOK, GoAround, JobStep, Only, Bytes, JobsInv, JobsShaped,
        JobShape, JobsOnlyInTransfer, InFlightIsMissing, InFlightInMemory,
        Fresh, NewJob, Cancelled, Final, Agrees
<1>3. HonestInv'
    BY DEF IInv, TypeOK, GoAround, JobStep, Only, disk, memory, HonestInv,
        MemoryHonest, LedgerHonest, ManifestHonest
<1>4. ControlInv'
    BY DEF IInv, TypeOK, GoAround, JobStep, Only, memory, ControlInv,
        SessionUnregistered, RecordsArePinned, MemorySaved
<1>5. MemoryInv'
    BY DEF IInv, TypeOK, GoAround, JobStep, Only, Bytes, OnDisk, Positions,
        Verified, disk, memory, MemoryInv, HandOffsKnown, OneBehind,
        WalkedIsThere, NoJob, Idle, Fresh, JobsInv, JobsShaped, JobShape,
        JobsOnlyInTransfer, InFlightIsMissing, InFlightInMemory, HonestInv,
        MemoryHonest, LedgerHonest, ManifestHonest, ControlInv,
        SessionUnregistered
<1> QED
  BY <1>1, <1>2, <1>3, <1>4, <1>5 DEF IInv

LEMMA CommitPreserves ==
    ASSUME IInv, NEW f \in File, Commit(f)
    PROVE  IInv'
<1>1. TypeOK'
    BY Shapes DEF IInv, TypeOK, Commit, JobStep, Only, Bytes, OnDisk, Rec,
        JobsInv, JobsShaped, JobShape
<1>2. JobsInv'
    BY DEF IInv, TypeOK, Commit, JobStep, Only, Bytes, JobsInv, JobsShaped,
        JobShape, JobsOnlyInTransfer, InFlightIsMissing, InFlightInMemory,
        NoJob, Idle
<1>3. HonestInv'
    BY DEF IInv, TypeOK, Commit, JobStep, Only, Bytes, Halts, Positions,
        Verified, disk, memory, HonestInv, MemoryHonest, LedgerHonest,
        ManifestHonest, NoJob, Idle, Fresh, Final, RehashAgrees, JobsInv,
        JobsShaped, JobShape, JobsOnlyInTransfer, InFlightIsMissing,
        InFlightInMemory, ControlInv, SessionUnregistered, RecordsArePinned,
        MemorySaved, Complete
<1>4. ControlInv'
    BY DEF IInv, TypeOK, Commit, JobStep, Only, memory, ControlInv,
        SessionUnregistered, RecordsArePinned, MemorySaved, Idle, Fresh,
        JobsInv, JobsShaped, JobShape, JobsOnlyInTransfer, InFlightIsMissing,
        InFlightInMemory, WillRegister
<1>5. MemoryInv'
    BY DEF IInv, TypeOK, Commit, JobStep, Only, Bytes, OnDisk, Positions,
        Verified, disk, memory, MemoryInv, HandOffsKnown, OneBehind,
        WalkedIsThere, NoJob, Idle, Fresh, JobsInv, JobsShaped, JobShape,
        JobsOnlyInTransfer, InFlightIsMissing
<1> QED
  BY <1>1, <1>2, <1>3, <1>4, <1>5 DEF IInv

LEMMA CommitUnsavedPreserves ==
    ASSUME IInv, NEW f \in File, CommitUnsaved(f)
    PROVE  IInv'
<1>1. TypeOK'
  <2>1. TypeOK
    BY DEF IInv
  <2>2. faults' \in 0..MaxFaults
    BY <2>1, FaultTyped DEF TypeOK, CommitUnsaved
  <2>3. job[f].sha \in Rec
    BY <2>1 DEF TypeOK, IInv, CommitUnsaved, JobStep, JobsInv, JobsShaped, JobShape, Rec
  <2>4. Cancelled \in [File -> Job]
    BY <2>1, Shapes DEF TypeOK, Cancelled
  <2>5. job' \in [File -> Job] /\ files' \in [File -> Rec]
    BY <2>1, <2>3, <2>4, Shapes DEF TypeOK, CommitUnsaved
  <2> QED
    BY <2>1, <2>2, <2>5 DEF TypeOK, CommitUnsaved, Only, Halts
<1>2. JobsInv'
    BY DEF IInv, TypeOK, CommitUnsaved, JobStep, Only, Fault, memory, JobsInv,
        JobsShaped, JobShape, JobsOnlyInTransfer, InFlightIsMissing,
        InFlightInMemory, NoJob, Idle, Fresh, NewJob, Cancelled, Final, Agrees
<1>3. HonestInv'
    BY DEF IInv, TypeOK, CommitUnsaved, JobStep, Only, Fault, Verified, disk,
        memory, HonestInv, MemoryHonest, LedgerHonest, ManifestHonest, NoJob,
        Idle, JobsInv, JobsShaped, JobShape, JobsOnlyInTransfer,
        InFlightIsMissing, InFlightInMemory
<1>4. ControlInv'
    BY DEF IInv, TypeOK, CommitUnsaved, JobStep, Only, ControlInv,
        SessionUnregistered, RecordsArePinned, MemorySaved, Complete, JobsInv,
        JobsShaped, JobShape, JobsOnlyInTransfer, InFlightIsMissing,
        InFlightInMemory, WillRegister
<1>5. MemoryInv'
    BY DEF IInv, TypeOK, CommitUnsaved, JobStep, Only, Fault, Bytes,
        Positions, Verified, disk, memory, MemoryInv, HandOffsKnown,
        OneBehind, WalkedIsThere, NoJob, Idle, Fresh, JobsInv, JobsShaped,
        JobShape, JobsOnlyInTransfer, InFlightIsMissing, InFlightInMemory,
        HonestInv, MemoryHonest, LedgerHonest, ManifestHonest, ControlInv,
        SessionUnregistered, RecordsArePinned, MemorySaved, Complete, Agrees,
        RehashAgrees, Collecting
<1> QED
  BY <1>1, <1>2, <1>3, <1>4, <1>5 DEF IInv

LEMMA HaltPreserves ==
    ASSUME IInv, Halt
    PROVE  IInv'
<1>1. TypeOK'
  <2>1. TypeOK
    BY DEF IInv
  <2>2. faults' \in 0..MaxFaults
    BY <2>1, FaultTyped DEF TypeOK, Halt
  <2> QED
    BY <2>1, <2>2, Shapes DEF TypeOK, Halt, Only, Positions, Halts, Cancelled
<1>2. JobsInv'
    BY DEF IInv, TypeOK, Halt, Only, Fault, Bytes, JobsInv, JobsShaped,
        JobShape, JobsOnlyInTransfer, InFlightIsMissing, InFlightInMemory,
        NoJob, Idle, Fresh, NewJob, Cancelled, Final, Agrees
<1>3. HonestInv'
    BY DEF IInv, TypeOK, Halt, Only, Fault, disk, memory, HonestInv,
        MemoryHonest, LedgerHonest, ManifestHonest
<1>4. ControlInv'
    BY DEF IInv, TypeOK, Halt, Only, Fault, memory, ControlInv,
        SessionUnregistered, RecordsArePinned, MemorySaved
<1>5. MemoryInv'
    BY DEF IInv, TypeOK, Halt, Only, memory, MemoryInv, HandOffsKnown,
        OneBehind, WalkedIsThere, NoJob, Idle
<1> QED
  BY <1>1, <1>2, <1>3, <1>4, <1>5 DEF IInv

LEMMA DropPreserves ==
    ASSUME IInv, NEW f \in File, Drop(f)
    PROVE  IInv'
<1>1. TypeOK'
    BY Shapes DEF IInv, TypeOK, Drop, Only
<1>2. JobsInv'
    BY DEF IInv, TypeOK, Drop, Only, Bytes, OnDisk, disk, memory, JobsInv,
        JobsShaped, JobShape, JobsOnlyInTransfer, InFlightIsMissing,
        InFlightInMemory, NoJob
<1>3. HonestInv'
    BY DEF IInv, TypeOK, Drop, Only, Bytes, disk, memory, HonestInv,
        MemoryHonest, LedgerHonest, ManifestHonest
<1>4. ControlInv'
    BY DEF IInv, TypeOK, Drop, Only, Bytes, ControlInv, SessionUnregistered,
        RecordsArePinned, MemorySaved, Complete
<1>5. MemoryInv'
    BY DEF IInv, TypeOK, Drop, Only, MemoryInv, HandOffsKnown, OneBehind,
        WalkedIsThere
<1> QED
  BY <1>1, <1>2, <1>3, <1>4, <1>5 DEF IInv

LEMMA EndTransferPreserves ==
    ASSUME IInv, EndTransfer
    PROVE  IInv'
<1>1. TypeOK'
    BY Shapes DEF IInv, TypeOK, EndTransfer, Halts, Positions, Verified, disk
<1>2. JobsInv'
    BY DEF IInv, TypeOK, EndTransfer, disk, memory, JobsInv, JobsShaped,
        JobShape, JobsOnlyInTransfer, InFlightIsMissing, InFlightInMemory
<1>3. HonestInv'
    BY DEF IInv, TypeOK, EndTransfer, Verified, disk, memory, HonestInv,
        MemoryHonest, LedgerHonest, ManifestHonest, NoJob
<1>4. ControlInv'
    BY DEF IInv, TypeOK, EndTransfer, Verified, disk, memory, ControlInv,
        SessionUnregistered, RecordsArePinned, MemorySaved
<1>5. MemoryInv'
    BY DEF IInv, TypeOK, EndTransfer, Bytes, disk, memory, MemoryInv,
        HandOffsKnown, OneBehind, WalkedIsThere, NoJob
<1> QED
  BY <1>1, <1>2, <1>3, <1>4, <1>5 DEF IInv

-----------------------------------------------------------------------------
\* Ending: the memory is given up.

LEMMA FinishSessionPreserves ==
    ASSUME IInv, FinishSession
    PROVE  IInv'
<1>1. TypeOK'
  <2>1. TypeOK
    BY DEF IInv
  <2> QED
    BY <2>1, Shapes DEF TypeOK, FinishSession, Leave, memory, Positions, Halts
<1>2. JobsInv'
    BY DEF IInv, TypeOK, FinishSession, Leave, Bytes, OnDisk, disk, memory,
        JobsInv, JobsShaped, JobShape, JobsOnlyInTransfer, InFlightIsMissing,
        InFlightInMemory, NoJob, Idle, Fresh
<1>3. HonestInv'
    BY DEF IInv, TypeOK, FinishSession, Leave, Bytes, OnDisk, Positions,
        Verified, disk, memory, HonestInv, MemoryHonest, LedgerHonest,
        ManifestHonest, NoJob, Idle, Fresh
<1>4. ControlInv'
    BY DEF IInv, TypeOK, FinishSession, Leave, Bytes, Verified, disk, memory,
        ControlInv, SessionUnregistered, RecordsArePinned, MemorySaved,
        Complete, Fresh, JobsInv, JobsShaped, JobShape, JobsOnlyInTransfer,
        InFlightIsMissing, InFlightInMemory, WillRegister
<1>5. MemoryInv'
    BY DEF IInv, TypeOK, FinishSession, Leave, Verified, disk, memory,
        MemoryInv, HandOffsKnown, OneBehind, WalkedIsThere
<1> QED
  BY <1>1, <1>2, <1>3, <1>4, <1>5 DEF IInv

LEMMA DeclinePreserves ==
    ASSUME IInv, Decline
    PROVE  IInv'
<1>1. TypeOK'
  <2>1. TypeOK
    BY DEF IInv
  <2>2. faults' \in 0..MaxFaults
    BY <2>1, FaultTyped DEF TypeOK, Decline
  <2> QED
    BY <2>1, <2>2, Shapes DEF TypeOK, Decline, Leave, Positions, Halts
<1>2. JobsInv'
    BY DEF Decline, Leave, Fault, Bytes, JobsInv, JobsShaped, JobShape,
        JobsOnlyInTransfer, InFlightIsMissing, InFlightInMemory, NoJob, Idle
<1>3. HonestInv'
    BY DEF IInv, TypeOK, Decline, Leave, Fault, Bytes, Halts, Positions,
        Verified, disk, memory, HonestInv, MemoryHonest, LedgerHonest,
        ManifestHonest, NoJob, Idle, Fresh
<1>4. ControlInv'
    BY DEF IInv, TypeOK, Decline, Leave, Fault, memory, ControlInv,
        SessionUnregistered, RecordsArePinned, MemorySaved, Idle, Fresh,
        JobsInv, JobsShaped, JobShape
<1>5. MemoryInv'
    BY DEF Decline, Leave, memory, MemoryInv, HandOffsKnown, OneBehind,
        WalkedIsThere, NoJob, Idle
<1> QED
  BY <1>1, <1>2, <1>3, <1>4, <1>5 DEF IInv

LEMMA RegisterPreserves ==
    ASSUME IInv, Register
    PROVE  IInv'
<1>1. TypeOK'
  <2>1. TypeOK
    BY DEF IInv
  <2> QED
    BY <2>1, Shapes DEF TypeOK, Register, Leave, Positions, Halts, Rec
<1>2. JobsInv'
    BY DEF Register, Leave, Bytes, OnDisk, disk, memory, JobsInv, JobsShaped,
        JobShape, JobsOnlyInTransfer, InFlightIsMissing, InFlightInMemory,
        NoJob, Idle, Fresh
<1>3. HonestInv'
    BY DEF IInv, TypeOK, Register, Leave, Bytes, OnDisk, Positions, Verified,
        disk, memory, HonestInv, MemoryHonest, LedgerHonest, ManifestHonest,
        NoJob, Idle, Fresh
<1>4. ControlInv'
    BY DEF IInv, TypeOK, Register, Leave, Bytes, ControlInv,
        SessionUnregistered, RecordsArePinned, MemorySaved, Complete, Fresh,
        JobsInv, JobsShaped, JobShape
<1>5. MemoryInv'
    BY DEF Register, Leave, MemoryInv, HandOffsKnown, OneBehind, WalkedIsThere
<1> QED
  BY <1>1, <1>2, <1>3, <1>4, <1>5 DEF IInv

LEMMA CrashPreserves ==
    ASSUME IInv, Crash
    PROVE  IInv'
<1>1. TypeOK'
  <2>1. TypeOK
    BY DEF IInv
  <2>2. faults' \in 0..MaxFaults
    BY <2>1, FaultTyped DEF TypeOK, Crash
  <2> QED
    BY <2>1, <2>2, Shapes DEF TypeOK, Crash, Leave, disk, Positions, Halts
<1>2. JobsInv'
    BY DEF Crash, Leave, Fault, Bytes, JobsInv, JobsShaped, JobShape,
        JobsOnlyInTransfer, InFlightIsMissing, InFlightInMemory, NoJob, Idle
<1>3. HonestInv'
    BY DEF IInv, TypeOK, Crash, Leave, Fault, Bytes, Halts, Positions,
        Verified, disk, memory, HonestInv, MemoryHonest, LedgerHonest,
        ManifestHonest, NoJob, Idle, Fresh
<1>4. ControlInv'
    BY DEF IInv, TypeOK, Crash, Leave, Fault, Positions, Verified, disk,
        memory, ControlInv, SessionUnregistered, RecordsArePinned,
        MemorySaved, Idle, Fresh, JobsInv, JobsShaped, JobShape
<1>5. MemoryInv'
    BY DEF Crash, Leave, memory, MemoryInv, HandOffsKnown, OneBehind,
        WalkedIsThere, NoJob, Idle
<1> QED
  BY <1>1, <1>2, <1>3, <1>4, <1>5 DEF IInv

-----------------------------------------------------------------------------
\* The world outside, while no session runs.

LEMMA DamagePreserves ==
    ASSUME IInv, NEW f \in File, NEW b \in OnDisk, Damage(f, b)
    PROVE  IInv'
<1>1. TypeOK'
  <2>1. TypeOK
    BY DEF IInv
  <2>2. faults' \in 0..MaxFaults
    BY <2>1, FaultTyped DEF TypeOK, Damage
  <2> QED
    BY <2>1, <2>2 DEF TypeOK, Damage, memory
<1>2. JobsInv'
    BY DEF IInv, TypeOK, Damage, disk, memory, JobsInv, JobsShaped, JobShape,
        JobsOnlyInTransfer, InFlightIsMissing, InFlightInMemory, NoJob, Idle,
        Fresh
<1>3. HonestInv'
    BY DEF IInv, TypeOK, Damage, disk, memory, HonestInv, MemoryHonest,
        LedgerHonest, ManifestHonest
<1>4. ControlInv'
    BY DEF IInv, TypeOK, Damage, Verified, disk, memory, ControlInv,
        SessionUnregistered, RecordsArePinned, MemorySaved, Complete
<1>5. MemoryInv'
    BY DEF Damage, Fault, MemoryInv, HandOffsKnown, OneBehind, WalkedIsThere
<1> QED
  BY <1>1, <1>2, <1>3, <1>4, <1>5 DEF IInv

LEMMA LoseLedgerPreserves ==
    ASSUME IInv, LoseLedger
    PROVE  IInv'
<1>1. TypeOK'
  <2>1. TypeOK
    BY DEF IInv
  <2>2. faults' \in 0..MaxFaults
    BY <2>1, FaultTyped DEF TypeOK, LoseLedger
  <2> QED
    BY <2>1, <2>2, Shapes DEF TypeOK, LoseLedger, memory
<1>2. JobsInv'
    BY DEF IInv, TypeOK, LoseLedger, disk, memory, JobsInv, JobsShaped,
        JobShape, JobsOnlyInTransfer, InFlightIsMissing, InFlightInMemory,
        NoJob, Idle, Fresh
<1>3. HonestInv'
    BY DEF IInv, TypeOK, LoseLedger, Fault, Bytes, OnDisk, Positions,
        Verified, disk, memory, HonestInv, MemoryHonest, LedgerHonest,
        ManifestHonest, NoJob, Idle, Fresh
<1>4. ControlInv'
    BY DEF IInv, TypeOK, LoseLedger, Verified, disk, memory, ControlInv,
        SessionUnregistered, RecordsArePinned, MemorySaved, Complete, Fresh,
        JobsInv, JobsShaped, JobShape
<1>5. MemoryInv'
    BY DEF LoseLedger, Fault, MemoryInv, HandOffsKnown, OneBehind,
        WalkedIsThere
<1> QED
  BY <1>1, <1>2, <1>3, <1>4, <1>5 DEF IInv

LEMMA HandOffPreserves ==
    ASSUME IInv, NEW f \in File, HandOff(f)
    PROVE  IInv'
<1>1. TypeOK'
    BY Shapes DEF IInv, TypeOK, HandOff, Bytes, OnDisk, Rec, memory, NoJob
<1>2. JobsInv'
    BY DEF IInv, TypeOK, HandOff, disk, memory, JobsInv, JobsShaped, JobShape,
        JobsOnlyInTransfer, InFlightIsMissing, InFlightInMemory, NoJob, Idle
<1>3. HonestInv'
    BY DEF IInv, TypeOK, HandOff, Verified, disk, memory, HonestInv,
        MemoryHonest, LedgerHonest, ManifestHonest, NoJob
<1>4. ControlInv'
    BY DEF IInv, TypeOK, HandOff, Verified, disk, memory, ControlInv,
        SessionUnregistered, RecordsArePinned, MemorySaved
<1>5. MemoryInv'
    BY DEF HandOff, Bytes, disk, memory, MemoryInv, HandOffsKnown, OneBehind,
        WalkedIsThere, NoJob
<1> QED
  BY <1>1, <1>2, <1>3, <1>4, <1>5 DEF IInv

-----------------------------------------------------------------------------
\* The invariant is inductive.

LEMMA NextIInv == IInv /\ [Next]_vars => IInv'
<1> SUFFICES ASSUME IInv, [Next]_vars PROVE IInv'
  OBVIOUS
<1>1. CASE Launch
  BY <1>1, ResumePreserves, PinPreserves DEF Launch, Scopes
<1>2. CASE Session
  <2>1. ASSUME NEW f \in File, Transfer(f) PROVE IInv'
    BY <2>1, StartPreserves, BeginCopyPreserves, FailCopyPreserves, EndCopyPreserves,
       FetchPreserves, HashFilePreserves, GoAroundPreserves, CommitPreserves,
       DropPreserves DEF Transfer
  <2> QED
    BY <1>2, <2>1, UnlinkPreserves, BeginSessionPreserves, SweepPreserves,
       SweepDonePreserves, ReconcilePreserves, SaveLedgerPreserves,
       BeginTransferPreserves, EndTransferPreserves, FinishSessionPreserves,
       RegisterPreserves DEF Session
<1>3. CASE Disturb
  BY <1>3, StopReconcilePreserves, DeclinePreserves, HaltPreserves, CrashPreserves,
     LoseLedgerPreserves, CommitUnsavedPreserves, HandOffPreserves, DamagePreserves,
     ForcePinPreserves, DryRunPreserves DEF Disturb, Scopes
<1>4. CASE UNCHANGED vars
  BY <1>4 DEF vars, disk, memory, IInv, TypeOK, JobsInv, JobsShaped, JobShape,
     JobsOnlyInTransfer, InFlightIsMissing, InFlightInMemory, HonestInv, MemoryHonest,
     LedgerHonest, ManifestHonest, ControlInv, SessionUnregistered, RecordsArePinned,
     MemorySaved, Complete, Verified, MemoryInv, HandOffsKnown, OneBehind, WalkedIsThere
<1> QED
  BY <1>1, <1>2, <1>3, <1>4 DEF Next


THEOREM Inductive == Spec => []IInv
  BY InitIInv, NextIInv, PTL DEF Spec

-----------------------------------------------------------------------------
\* The state invariants the runs check.

\* Every variable keeps its type, whatever the session and the world do.
THEOREM TypeCorrect == Spec => []TypeOK
<1>1. IInv => TypeOK
  BY DEF IInv
<1> QED
  BY <1>1, Inductive, PTL

\* transfer.json never vouches for bytes other than those a session hashed
\* (reconcile, _record_download_result, hand_off_files).
THEOREM LedgerIsHonest == Spec => []LedgerHonest
<1>1. IInv => LedgerHonest
  BY DEF IInv, HonestInv
<1> QED
  BY <1>1, Inductive, PTL

\* manifest.json records the digests of the bytes that are there
\* (_register_bundle).
THEOREM ManifestIsHonest == Spec => []ManifestHonest
<1>1. IInv => ManifestHonest
  BY DEF IInv, HonestInv
<1> QED
  BY <1>1, Inductive, PTL

\* No verified or handed-off file is ever fetched over (transfer_all).
THEOREM OnlyMissingIsFetched == Spec => []InFlightIsMissing
<1>1. IInv => InFlightIsMissing
  BY DEF IInv, JobsInv
<1> QED
  BY <1>1, Inductive, PTL

-----------------------------------------------------------------------------
\* The action properties the runs check.

\* A registered bundle is frozen until --force removes its manifest
\* (archive, before and after transfer_lock).
THEOREM RegisteredIsFrozen == Spec => RegisteredFrozen
<1> DEFINE Frozen == registered => /\ registered' => manifest' = manifest
                                   /\ payload' # payload => pc = "idle"
                                   /\ ~registered' => payload' = payload /\ saved = Fresh
<1>1. ASSUME IInv, Next PROVE Frozen
  <2> SUFFICES ASSUME registered PROVE Frozen
    OBVIOUS
  <2>1. pc = "idle" \/ (pc = "unlink" /\ saved = Fresh)
    BY <1>1 DEF IInv, ControlInv, SessionUnregistered, RecordsArePinned
  <2>2. CASE Launch
    BY <2>1, <2>2 DEF Launch, Resume, Pin, disk
  <2>3. CASE Session
    BY <2>1, <2>3 DEF Session, Unlink, BeginSession, SweepDone, SaveLedger,
       BeginTransfer, EndTransfer, FinishSession, Register, Sweep, Reconcile, Transfer,
       Start, BeginCopy, FailCopy, EndCopy, Fetch, HashFile, GoAround, Commit, Drop,
       JobStep
  <2>4. CASE Disturb
    BY <2>1, <2>4 DEF Disturb, StopReconcile, Decline, Halt, Crash, LoseLedger,
       CommitUnsaved, HandOff, Damage, ForcePin, DryRun, JobStep, disk
  <2> QED
    BY <1>1, <2>2, <2>3, <2>4 DEF Next
<1>2. IInv /\ [Next]_vars => [Frozen]_vars
  BY <1>1
<1> QED
  BY <1>2, Inductive, PTL DEF Spec, RegisteredFrozen

\* Bytes the publisher disowns are recorded only after two downloads in one
\* session (_FileJob.settle; adoption and sibling copies never record them).
THEOREM MismatchTakesTwoFetches == Spec => MismatchNeedsTwoFetches
<1> DEFINE Twice == \A f \in File :
                       pc # "idle" /\ files'[f] # files[f] /\ files'[f] \in Bytes
                           /\ ~Agrees(f, files'[f])
                       => job[f].net = 2 /\ job[f].via = "network"
<1>1. ASSUME IInv, Next PROVE Twice
  <2> SUFFICES ASSUME NEW f \in File, pc # "idle", files'[f] # files[f],
                      files'[f] \in Bytes, ~Agrees(f, files'[f])
               PROVE  job[f].net = 2 /\ job[f].via = "network"
    OBVIOUS
  <2>0. files \in [File -> Rec] /\ job \in [File -> Job]
    BY <1>1 DEF IInv, TypeOK
  <2>1. ASSUME NEW g \in File, Reconcile(g) PROVE FALSE
    <3>1. \/ Trust(g)
          \/ \E r \in {"missing", payload[g]} :
                Record(g, r) /\ (r = "missing" \/ Agrees(g, r) \/ files[g] = r)
          \/ Reject(g)
      BY <2>1 DEF Reconcile, ReconcileAbsent, ReconcileVerified, ReconcileWrongSize,
         ReconcileUnverified, RehashAgrees, Agrees
    <3> QED
      BY <2>0, <3>1 DEF Trust, Record, Reject, Bytes
  <2>2. ASSUME NEW g \in File, JobStep(g, "hashed"), Final(g),
               files' = [files EXCEPT ![g] = job[g].sha]
        PROVE  job[f].net = 2 /\ job[f].via = "network"
    <3>1. g = f /\ ~Agrees(f, job[f].sha)
      BY <2>0, <2>2
    <3> QED
      BY <1>1, <2>0, <2>2, <3>1 DEF Final, JobStep, IInv, JobsInv, JobsShaped, JobShape
  <2>3. CASE Session
    <3>1. CASE Unlink \/ BeginSession \/ SweepDone \/ SaveLedger \/ BeginTransfer
               \/ EndTransfer
      BY <3>1 DEF Unlink, BeginSession, SweepDone, SaveLedger, BeginTransfer,
         EndTransfer, memory
    <3>2. CASE FinishSession \/ Register
      BY <2>0, <3>2 DEF FinishSession, Register, Leave, memory, Fresh, Bytes
    <3>3. ASSUME NEW g \in File, Transfer(g)
          PROVE  job[f].net = 2 /\ job[f].via = "network"
      BY <2>2, <3>3 DEF Transfer, Start, BeginCopy, FailCopy, EndCopy, Fetch, HashFile,
         GoAround, Drop, Only, Commit
    <3>4. CASE \E g \in File : Sweep(g)
      BY <3>4 DEF Sweep, memory
    <3> QED
      BY <2>1, <2>3, <3>1, <3>2, <3>3, <3>4 DEF Session
  <2>4. CASE Launch
    BY <2>4 DEF Launch, Resume, Pin
  <2>5. CASE Disturb
    <3>1. CASE Decline \/ Crash
      BY <2>0, <3>1 DEF Decline, Crash, Leave, Fresh, Bytes
    <3>2. CASE \E g \in File : CommitUnsaved(g)
      BY <2>2, <3>2 DEF CommitUnsaved
    <3>3. CASE StopReconcile \/ Halt \/ LoseLedger
      BY <3>3 DEF StopReconcile, Halt, LoseLedger, Only, memory
    <3> QED
      BY <2>5, <3>1, <3>2, <3>3
      DEF Disturb, HandOff, Damage, ForcePin, DryRun
  <2> QED
    BY <1>1, <2>3, <2>4, <2>5 DEF Next
<1>2. IInv /\ [Next]_vars => [Twice]_vars
  BY <1>1
<1> QED
  BY <1>2, Inductive, PTL DEF Spec, MismatchNeedsTwoFetches

\* A hand-off is undone only by verified bytes or a fresh ledger (reconcile's
\* two exceptions for handed-off records).
THEOREM HandOffIsKept == Spec => HandOffKept
<1> DEFINE Kept == \A f \in File :
          saved[f] = "handed_off" /\ saved'[f] # "handed_off"
          => \/ saved'[f] \in Bytes /\ Agrees(f, saved'[f]) /\ payload[f] = saved'[f]
             \/ saved' = Fresh
<1>1. ASSUME IInv, Next PROVE Kept
  <2> SUFFICES ASSUME NEW f \in File, saved[f] = "handed_off", saved'[f] # "handed_off",
                      saved' # Fresh
               PROVE  saved'[f] \in Bytes /\ Agrees(f, saved'[f]) /\ payload[f] = saved'[f]
    OBVIOUS
  <2>0. /\ files \in [File -> Rec] /\ saved \in [File -> Rec] /\ payload \in [File -> OnDisk]
        /\ pc # "idle" => files[f] = "handed_off"
        /\ pc = "transfer" => job[f].at = "none"
    BY <1>1 DEF IInv, TypeOK, MemoryInv, HandOffsKnown, JobsInv, InFlightIsMissing
  <2>1. ASSUME NEW g \in File, Reconcile(g)
        PROVE  saved'[f] \in Bytes /\ Agrees(f, saved'[f]) /\ payload[f] = saved'[f]
    <3>1. \/ saved' = saved
          \/ \E r \in {"missing", payload[g]} :
                /\ saved' = [files EXCEPT ![g] = r]
                /\ files[g] = "handed_off" => payload[g] \in Bytes /\ r = payload[g] /\ Agrees(g, r)
      BY <2>0, <2>1 DEF Reconcile, ReconcileAbsent, ReconcileVerified, ReconcileWrongSize,
         ReconcileUnverified, Verified, Bytes, OnDisk, Trust, Record, Reject, disk
    <3> QED
      BY <2>0, <2>1, <3>1 DEF Reconcile
  <2>2. CASE Session
    <3>1. CASE BeginSession \/ SaveLedger \/ FinishSession
      BY <2>0, <3>1 DEF BeginSession, SaveLedger, FinishSession
    <3>2. CASE Unlink \/ SweepDone \/ BeginTransfer \/ EndTransfer \/ Register
      BY <3>2 DEF Unlink, SweepDone, BeginTransfer, EndTransfer, Register, disk
    <3>3. ASSUME NEW g \in File, Transfer(g) PROVE FALSE
      BY <2>0, <3>3 DEF Transfer, Start, BeginCopy, FailCopy, EndCopy, Fetch, HashFile,
         GoAround, Drop, Only, Commit, JobStep
    <3>4. CASE \E g \in File : Sweep(g)
      BY <3>4 DEF Sweep
    <3> QED
      BY <2>1, <2>2, <3>1, <3>2, <3>3, <3>4 DEF Session
  <2>3. CASE Launch
    BY <2>3 DEF Launch, Resume, Pin, disk
  <2>4. CASE Disturb
    <3>1. CASE Decline
      BY <2>0, <3>1 DEF Decline
    <3>2. CASE LoseLedger \/ \E scope \in Scopes, r \in BOOLEAN : ForcePin(scope, r) \/ DryRun(scope)
      BY <3>2 DEF LoseLedger, ForcePin, DryRun
    <3>3. CASE \E g \in File : HandOff(g)
      BY <2>0, <3>3 DEF HandOff
    <3>4. CASE StopReconcile \/ Halt \/ Crash \/ \E g \in File : CommitUnsaved(g) \/ \E b \in OnDisk : Damage(g, b)
      BY <3>4 DEF StopReconcile, Halt, Crash, CommitUnsaved, Damage, Only, disk
    <3> QED
      BY <2>4, <3>1, <3>2, <3>3, <3>4 DEF Disturb
  <2> QED
    BY <1>1, <2>2, <2>3, <2>4 DEF Next
<1>2. IInv /\ [Next]_vars => [Kept]_vars
  BY <1>1
<1> QED
  BY <1>2, Inductive, PTL DEF Spec, HandOffKept

\* A session that walked the whole pin registers what is there (reconcile and
\* _register_bundle).
THEOREM RegistrationSees == Spec => RegisterSeesEveryFile
<1> DEFINE Sees == ~registered /\ registered' /\ todo = {} =>
        \A f \in pin : /\ payload[f] # "absent"
                       /\ (f \notin touched \/ rehash) => payload[f] = manifest'[f]
<1>1. ASSUME IInv, Next PROVE Sees
  <2> SUFFICES ASSUME ~registered, registered', todo = {} PROVE Sees
    OBVIOUS
  <2>1. Register
    <3>1. CASE Launch
      BY <3>1 DEF Launch, Resume, Pin, disk
    <3>2. CASE Disturb
      BY <3>2 DEF Disturb, StopReconcile, Decline, Halt, Crash, LoseLedger, CommitUnsaved,
         HandOff, Damage, ForcePin, DryRun, Only, disk
    <3>3. CASE Session
      <4>1. ASSUME NEW f \in File, Reconcile(f) PROVE registered' = registered
        BY <4>1 DEF Reconcile, ReconcileAbsent, ReconcileVerified, ReconcileWrongSize,
           ReconcileUnverified, Trust, Record, Reject, disk
      <4> QED
        BY <3>3, <4>1 DEF Session, Unlink, BeginSession, SweepDone, SaveLedger,
           BeginTransfer, EndTransfer, FinishSession, Sweep, Transfer, Start, BeginCopy,
           FailCopy, EndCopy, Fetch, HashFile, GoAround, Commit, Drop, Only, disk
    <3> QED
      BY <1>1, <3>1, <3>2, <3>3 DEF Next
  <2> QED
    BY <1>1, <2>1 DEF Register, IInv, TypeOK, ControlInv, RecordsArePinned, Complete,
       MemoryInv, WalkedIsThere
<1>2. IInv /\ [Next]_vars => [Sees]_vars
  BY <1>1
<1> QED
  BY <1>2, Inductive, PTL DEF Spec, RegisterSeesEveryFile

-----------------------------------------------------------------------------
\* The refinement of ArchivePromise.

LEMMA SavingLearns ==
    ASSUME IInv, pc \notin {"idle", "unlink"}, saved' = files,
           UNCHANGED <<pin, registered, manifest>>
    PROVE  [Promise!Next]_(Promise!vars)
<1>1. CASE saved = files
  BY <1>1 DEF Promise!vars
<1>2. CASE saved # files
  <2>0. files \in [File -> Rec] /\ saved \in [File -> Rec] /\ ~registered
    BY DEF IInv, TypeOK, ControlInv, SessionUnregistered
  <2>1. PICK g \in File : \A f \in File \ {g} : saved[f] = files[f]
    BY <1>2 DEF IInv, MemoryInv, OneBehind
  <2>2. saved' = [saved EXCEPT ![g] = files[g]] /\ saved[g] # files[g]
    BY <1>2, <2>0, <2>1
  <2>3. g \in pin
    BY <2>2 DEF IInv, ControlInv, RecordsArePinned
  <2>4. files[g] = "handed_off" <=> saved[g] = "handed_off"
    BY DEF IInv, MemoryInv, HandOffsKnown
  <2>5. Promise!Learn(g, files[g])
    BY <2>0, <2>2, <2>3, <2>4 DEF Promise!Learn
  <2> QED
    BY <2>0, <2>5 DEF Promise!Next, Rec
<1> QED
  BY <1>1, <1>2

LEMMA RecordingLearns ==
    ASSUME TypeOK, ~registered, NEW f \in pin, NEW r \in Rec, saved' = [saved EXCEPT ![f] = r],
           r = "missing" => saved[f] # "handed_off",
           r = "handed_off" => saved[f] \in Bytes,
           UNCHANGED <<pin, registered, manifest>>
    PROVE  [Promise!Next]_(Promise!vars)
BY DEF Promise!Next, Promise!Learn, TypeOK, Rec

LEMMA StepKeepsPromise == IInv /\ [Next]_vars => [Promise!Next]_(Promise!vars)
<1> SUFFICES ASSUME IInv, [Next]_vars PROVE [Promise!Next]_(Promise!vars)
  OBVIOUS
<1>0. /\ TypeOK
      /\ pc \notin {"idle", "unlink"} => ~registered
      /\ pc \in {"sweep", "reconcile", "register"} => saved = files
  BY DEF IInv, ControlInv, SessionUnregistered, MemorySaved
<1>1. CASE Launch
  BY <1>0, <1>1 DEF Launch, Resume, Pin, Scopes, TypeOK, disk, Fresh, Promise!vars, Promise!Next,
     Promise!Repin, Promise!Unknown
<1>2. CASE Session
  <2>1. CASE Unlink
    BY <1>0, <2>1 DEF Unlink, IInv, ControlInv, SessionUnregistered, RecordsArePinned, Fresh, Promise!vars,
       Promise!Next, Promise!Unseal, Promise!Unknown
  <2>2. CASE BeginSession \/ SaveLedger \/ FinishSession
    BY <2>2, SavingLearns DEF BeginSession, SaveLedger, FinishSession
  <2>3. CASE SweepDone \/ BeginTransfer \/ EndTransfer \/ \E f \in File : Sweep(f)
    BY <2>3 DEF SweepDone, BeginTransfer, EndTransfer, Sweep, disk, Promise!vars
  <2>4. ASSUME NEW f \in File, Reconcile(f) PROVE [Promise!Next]_(Promise!vars)
    <3>1. \/ saved' = saved /\ UNCHANGED <<pin, registered, manifest>>
          \/ \E r \in {"missing", payload[f]} :
                /\ Record(f, r) /\ r \in Rec \ {"handed_off"}
                /\ files[f] = "handed_off" => r # "missing"
      BY <1>0, <2>4 DEF Reconcile, ReconcileAbsent, ReconcileVerified, ReconcileWrongSize,
         ReconcileUnverified, Trust, Reject, TypeOK, OnDisk, Rec, Bytes, disk
    <3>2. f \in pin /\ saved = files /\ ~registered
      BY <1>0, <2>4 DEF Reconcile, IInv, ControlInv, RecordsArePinned
    <3>3. CASE saved' = saved /\ UNCHANGED <<pin, registered, manifest>>
      BY <3>3 DEF Promise!vars
    <3>4. ASSUME NEW r \in Rec \ {"handed_off"}, Record(f, r),
                 files[f] = "handed_off" => r # "missing"
          PROVE  [Promise!Next]_(Promise!vars)
      BY <1>0, <3>2, <3>4, RecordingLearns DEF Record
    <3> QED
      BY <3>1, <3>3, <3>4
  <2>5. ASSUME NEW f \in File, Transfer(f) PROVE [Promise!Next]_(Promise!vars)
    <3>1. CASE Commit(f)
      <4>1. f \in pin /\ saved[f] = "missing" /\ saved = files /\ ~registered
        BY <1>0, <3>1 DEF Commit, JobStep, Collecting, IInv, JobsInv, InFlightIsMissing,
           ControlInv, MemorySaved
      <4>2. job[f].sha \in Bytes
        BY <3>1 DEF Commit, JobStep, IInv, JobsInv, JobsShaped, JobShape
      <4>3. job[f].sha \in Rec /\ job[f].sha \notin {"missing", "handed_off"}
        BY <4>2 DEF Rec, Bytes
      <4> QED
        BY <1>0, <3>1, <4>1, <4>3, RecordingLearns DEF Commit, Only
    <3>2. CASE ~Commit(f)
      BY <2>5, <3>2 DEF Transfer, Start, BeginCopy, FailCopy, EndCopy, Fetch, HashFile,
         GoAround, Drop, Only, Promise!vars
    <3> QED
      BY <3>1, <3>2
  <2>6. CASE Register
    <3>1. manifest' = saved /\ \A f \in pin : saved[f] \in Bytes
      BY <1>0, <2>6 DEF Register, TypeOK, IInv, ControlInv, RecordsArePinned, Complete, Verified
    <3> QED
      BY <1>0, <2>6, <3>1 DEF Register, Promise!vars, Promise!Next, Promise!Seal
  <2> QED
    BY <1>2, <2>1, <2>2, <2>3, <2>4, <2>5, <2>6 DEF Session
<1>3. CASE Disturb
  <2>1. CASE Decline
    BY <2>1, SavingLearns DEF Decline
  <2>2. CASE LoseLedger \/ \E scope \in Scopes : DryRun(scope) \/ \E r \in BOOLEAN : ForcePin(scope, r)
    BY <1>0, <2>2 DEF LoseLedger, DryRun, ForcePin, Scopes, Fresh, Promise!vars, Promise!Next,
       Promise!Repin, Promise!Unknown
  <2>3. ASSUME NEW f \in File, HandOff(f) PROVE [Promise!Next]_(Promise!vars)
    <3>1. "handed_off" \in Rec /\ f \in pin /\ saved[f] \in Bytes
      BY <2>3 DEF HandOff, Rec, Verified
    <3> QED
      BY <1>0, <2>3, <3>1, RecordingLearns DEF HandOff
  <2>4. CASE StopReconcile \/ Halt \/ Crash \/ \E f \in File : CommitUnsaved(f) \/ \E b \in OnDisk : Damage(f, b)
    BY <2>4 DEF StopReconcile, Halt, Crash, CommitUnsaved, Damage, Only, disk, Promise!vars
  <2> QED
    BY <1>3, <2>1, <2>2, <2>3, <2>4 DEF Disturb
<1>4. CASE UNCHANGED vars
  BY <1>4 DEF vars, disk, Promise!vars
<1> QED
  BY <1>1, <1>2, <1>3, <1>4 DEF Next

\* The sessions implement the promise: records and seal change only as
\* ArchivePromise allows, across every crash.
THEOREM PromiseIsKept == Spec => PromiseKept
<1>1. Init => Promise!Init
  BY DEF Init, Fresh, Promise!Init, Promise!Unknown
<1> QED
  BY <1>1, Inductive, StepKeepsPromise, PTL DEF Spec, PromiseKept, Promise!Spec
=============================================================================
