------------------------------ MODULE PartsProofs ------------------------------
(***************************************************************************)
(* Proofs about the link, the record, the environments, the selection, the *)
(* board and the panel, for any files, processes, machines and sizes: of   *)
(* each part alone, and of the parts side by side.                         *)
(***************************************************************************)
EXTENDS Parts, FiniteSetTheorems, SequenceTheorems, WellFoundedInduction, TLAPS

-----------------------------------------------------------------------------
(* The link.                                                                *)

\* What the end of an outage rests on: a path is entered as retrying only by
\* an attempt begun in this very outage, unless one was entered too late.
RetryingTried == retrying # {} => lateAttempt \/ (offline /\ tried)

\* An outage ends only by a byte that came in when an attempt had begun in the
\* outage (Link.online, with the entries of link.retrying and link.lost): bytes
\* that were on their way before the drop do not end it.
THEOREM OutageEndsByTrial == Network!Spec => Network!NoEndUntried
<1>1. Network!Init => RetryingTried
  BY DEF Network!Init, RetryingTried
<1>2. ASSUME RetryingTried, [Network!Next]_Network!vars
      PROVE RetryingTried' /\ (offline /\ ~offline' => tried \/ lateAttempt)
  <2> USE <1>2 DEF RetryingTried, Network!Known, Network!World
  <2>1. ASSUME NEW f \in LinkFile, Network!Online
        PROVE RetryingTried' /\ (offline /\ ~offline' => tried \/ lateAttempt)
    BY <2>1 DEF Network!Online, Network!Proves
  <2>2. ASSUME NEW f \in LinkFile, Network!Lose(f)
        PROVE RetryingTried' /\ (offline /\ ~offline' => tried \/ lateAttempt)
    BY <2>2 DEF Network!Lose
  <2>3. ASSUME NEW f \in LinkFile, Network!Work(f)
        PROVE RetryingTried' /\ (offline /\ ~offline' => tried \/ lateAttempt)
    <3>1. CASE Network!Start(f) \/ Network!Begin(f) \/ Network!Connect(f) \/ Network!Wait(f)
      BY <3>1 DEF Network!Start, Network!Begin, Network!Connect, Network!Wait
    <3>2. CASE Network!Mark(f)
      BY <3>2 DEF Network!Mark
    <3>3. CASE Network!Complete(f)
      BY <3>3, <2>1 DEF Network!Complete
    <3>4. CASE Network!Unreachable(f)
      BY <3>4, <2>2 DEF Network!Unreachable
    <3> QED
      BY <2>3, <3>1, <3>2, <3>3, <3>4 DEF Network!Work
  <2>4. ASSUME NEW f \in LinkFile, Network!Chunk(f)
        PROVE RetryingTried' /\ (offline /\ ~offline' => tried \/ lateAttempt)
    BY <2>4, <2>1 DEF Network!Chunk
  <2>5. ASSUME NEW f \in LinkFile, Network!Stumble(f)
        PROVE RetryingTried' /\ (offline /\ ~offline' => tried \/ lateAttempt)
    BY <2>5, <2>2 DEF Network!Stumble
  <2>6. CASE \/ Network!Tick \/ Network!Drop \/ Network!Return \/ Network!Stop
             \/ UNCHANGED Network!vars
    BY <2>6 DEF Network!Tick, Network!Drop, Network!Return, Network!Stop, Network!vars
  <2> QED
    BY <2>3, <2>4, <2>5, <2>6 DEF Network!Next
<1>3. RetryingTried /\ [Network!Next]_Network!vars
        => [offline /\ ~offline' => tried \/ lateAttempt]_Network!vars
  BY <1>2
<1> QED
  BY <1>1, <1>2, <1>3, PTL DEF Network!Spec, Network!NoEndUntried

-----------------------------------------------------------------------------
(* The record.                                                              *)

Histories == SUBSET (Nat \cup {Book!Torn})
Schemas   == {"older", "current"}
Records   == [schema : Schemas, integrity : Book!Integrity, check : Nat, smoke : Nat, tested : Nat]
RecordJobs == [pc : {"idle", "work", "note", "reread", "write", "report"}, cmd : Book!Commands, run : Nat,
               read : Records, seen : Records, runs : Histories, good : BOOLEAN]

\* What the files and the commands hold; wrote has the shape of the record, the
\* verdict aside, and of the run history.
RecordsTyped ==
  /\ manifest \in Records /\ history \in Histories /\ recordRuns \in Nat
  /\ wrote \in [schema : Schemas, check : Nat, smoke : Nat, tested : Nat, runs : Histories]
  /\ recordProc \in [RecordProc -> RecordJobs]

\* A command about to write holds the record as it last read it; one that is not
\* a migration has read a record of the current schema, and the record has been
\* in it ever since.
HoldsCurrent(job) ==
  /\ job.read = job.seen
  /\ job.pc # "idle" /\ job.cmd # "migrate"
       => job.read.schema = "current" /\ manifest.schema = "current"
  /\ job.pc = "reread" => job.cmd \in {"verify", "run"}
ReadsCurrent == \A p \in RecordProc : HoldsCurrent(recordProc[p])

RecordInv == RecordsTyped /\ ReadsCurrent /\ Book!RecordsSurvive

\* A command that does nothing is a job like any other.
LEMMA IdleJob ==
  Book!Idle \in RecordJobs /\ Book!Idle.pc = "idle" /\ HoldsCurrent(Book!Idle)
  BY DEF Book!Idle, RecordJobs, Book!NoRun, Book!Archived, Records, Book!Integrity, Book!Commands,
         Histories, Schemas, HoldsCurrent

LEMMA RecordInvIsInductive == RecordInv /\ [Book!Next]_Book!vars => RecordInv'
<1> SUFFICES ASSUME RecordInv, [Book!Next]_Book!vars PROVE RecordInv'
  OBVIOUS
<1> USE DEF RecordInv, RecordsTyped, Book!WriteManifest
\* A step that moves one process and leaves the files alone.
<1>0. ASSUME NEW p \in RecordProc, NEW job \in RecordJobs, recordProc' = [recordProc EXCEPT ![p] = job],
             UNCHANGED <<manifest, report, history, wrote, stale>>, recordRuns' \in Nat,
             recordProc[p].pc # "report", HoldsCurrent(job)
      PROVE  RecordInv'
  BY <1>0 DEF ReadsCurrent, HoldsCurrent, Book!RecordsSurvive, RecordJobs
<1>1. ASSUME NEW p \in RecordProc, NEW cmd \in Book!Commands, Book!Start(p, cmd) PROVE RecordInv'
  <2> DEFINE job == [pc |-> "work", cmd |-> cmd, run |-> recordRuns + 1, read |-> manifest,
                     seen |-> manifest, runs |-> history, good |-> FALSE]
  <2>1. job \in RecordJobs
    BY DEF RecordJobs
  <2>2. recordProc' = [recordProc EXCEPT ![p] = job] /\ recordRuns' \in Nat
    BY <1>1 DEF Book!Start
  <2>3. UNCHANGED <<manifest, report, history, wrote, stale>> /\ recordProc[p].pc # "report"
    BY <1>1 DEF Book!Start, Book!Idle
  <2>4. HoldsCurrent(job)
    BY <1>1 DEF Book!Start, Book!Loads, HoldsCurrent
  <2> HIDE DEF job
  <2> QED
    BY <1>0, <2>1, <2>2, <2>3, <2>4
<1>2. ASSUME NEW p \in RecordProc, Book!WorkEnds(p) PROVE RecordInv'
  <2>1. PICK good \in BOOLEAN :
          recordProc' = [recordProc EXCEPT ![p].pc = CASE recordProc[p].cmd \in {"hydrate", "run"} -> "note"
                                           [] recordProc[p].cmd = "verify" -> "reread"
                                           [] OTHER -> "write",
                               ![p].good = good]
    BY <1>2 DEF Book!WorkEnds
  <2> DEFINE onto == CASE recordProc[p].cmd \in {"hydrate", "run"} -> "note"
                       [] recordProc[p].cmd = "verify" -> "reread"
                       [] OTHER -> "write"
             job  == [recordProc[p] EXCEPT !.pc = onto, !.good = good]
  <2>2. onto \in {"note", "reread", "write"} /\ (onto = "reread" => recordProc[p].cmd = "verify")
    OBVIOUS
  <2>3. recordProc' = [recordProc EXCEPT ![p] = job]
    BY <2>1 DEF RecordJobs
  <2>4. /\ UNCHANGED <<manifest, report, history, wrote, stale, recordRuns>>
        /\ recordProc[p].pc = "work"
    BY <1>2 DEF Book!WorkEnds
  <2> HIDE DEF onto
  <2>5. job \in RecordJobs /\ HoldsCurrent(job)
    BY <2>2, <2>4 DEF RecordJobs, ReadsCurrent, HoldsCurrent
  <2> HIDE DEF job
  <2> QED
    BY <1>0, <2>3, <2>4, <2>5
<1>3. ASSUME NEW p \in RecordProc, Book!Reread(p) PROVE RecordInv'
  <2> DEFINE job == [recordProc[p] EXCEPT !.pc = "write", !.read = manifest, !.seen = manifest]
  <2>1. recordProc' = [recordProc EXCEPT ![p] = job]
    BY <1>3 DEF Book!Reread, Book!Fresh, RecordJobs
  <2>2. /\ UNCHANGED <<manifest, report, history, wrote, stale, recordRuns>>
        /\ recordProc[p].pc = "reread"
    BY <1>3 DEF Book!Reread
  <2>3. recordProc[p].cmd \in {"verify", "run"} /\ manifest.schema = "current"
    BY <2>2 DEF ReadsCurrent, HoldsCurrent
  <2>4. job \in RecordJobs /\ HoldsCurrent(job)
    BY <2>3 DEF RecordJobs, HoldsCurrent
  <2> HIDE DEF job
  <2> QED
    BY <1>0, <2>1, <2>2, <2>4
<1>4. ASSUME NEW p \in RecordProc, Book!Report(p) PROVE RecordInv'
  <2>1. /\ recordProc' = [recordProc EXCEPT ![p] = Book!Idle]
        /\ UNCHANGED <<manifest, history, recordRuns, wrote>>
        /\ stale' \in {stale \cup {"report"}, stale \ {"report"}}
        /\ "report" \notin stale' => report' = manifest.check
    BY <1>4 DEF Book!Report
  <2>2. ReadsCurrent'
    BY <2>1, IdleJob DEF ReadsCurrent, HoldsCurrent
  <2>3. Book!RecordsSurvive'
    BY <2>1 DEF Book!RecordsSurvive, Book!Sections
  <2> QED
    BY <2>1, <2>2, <2>3, IdleJob
<1>5. ASSUME NEW p \in RecordProc, Book!Note(p) PROVE RecordInv'
  <2> DEFINE onto == IF recordProc[p].cmd = "run" THEN "reread" ELSE "write"
             job  == [recordProc[p] EXCEPT !.pc = onto]
  <2>1. recordProc' = [recordProc EXCEPT ![p] = job]
    BY <1>5 DEF Book!Note, RecordJobs
  <2>2. recordProc[p].pc = "note" /\ UNCHANGED <<manifest, report, recordRuns>>
    BY <1>5 DEF Book!Note
  <2>3. job \in RecordJobs /\ HoldsCurrent(job)
    BY <2>2 DEF RecordJobs, ReadsCurrent, HoldsCurrent
  <2>4. job.pc # "report"
    BY DEF RecordJobs
  <2> HIDE DEF job
  <2>5. history' \in Histories
    BY <1>5 DEF Book!Note, Book!Noted, RecordJobs, Histories
  <2>6. /\ wrote' \in [schema : Schemas, check : Nat, smoke : Nat, tested : Nat, runs : Histories]
        /\ wrote'.check = wrote.check /\ wrote'.schema = wrote.schema
        /\ wrote'.smoke = wrote.smoke /\ wrote'.tested = wrote.tested
    BY <1>5 DEF Book!Note, RecordJobs, Histories
  <2>7. /\ stale' \in {stale, stale \cup {"runs"}}
        /\ "runs" \notin stale' => history = recordProc[p].runs
    BY <1>5 DEF Book!Note
  <2>8. "runs" \notin stale' => history' = wrote'.runs
    BY <1>5, <2>7 DEF Book!Note, Book!Noted, Book!RecordsSurvive
  <2>9. ReadsCurrent'
    BY <2>1, <2>2, <2>3 DEF ReadsCurrent, HoldsCurrent
  <2>10. Book!RecordsSurvive'
    BY <2>1, <2>2, <2>6, <2>7, <2>8 DEF Book!RecordsSurvive, Book!Sections
  <2> QED
    BY <2>1, <2>2, <2>3, <2>5, <2>6, <2>9, <2>10
<1>6. ASSUME NEW p \in RecordProc, Book!WriteBack(p) PROVE RecordInv'
  <2> DEFINE job == IF recordProc[p].cmd = "verify" THEN [recordProc[p] EXCEPT !.pc = "report"] ELSE Book!Idle
  <2>1. /\ recordProc' = [recordProc EXCEPT ![p] = job] /\ recordProc[p].pc = "write"
        /\ UNCHANGED <<report, history, recordRuns>>
        /\ stale' = (stale \ Book!Sets(p)) \cup Book!Undone(p)
        /\ manifest' = Book!Rewritten(p)
    BY <1>6 DEF Book!WriteBack
  <2>2. /\ recordProc[p].read \in Records /\ recordProc[p].read = recordProc[p].seen
        /\ recordProc[p].run \in Nat /\ recordProc[p].good \in BOOLEAN
    BY DEF RecordJobs, ReadsCurrent, HoldsCurrent
  <2>3. job \in RecordJobs /\ job.read = job.seen /\ job.pc \in {"report", "idle"}
        /\ (job.pc = "report" => job.cmd = "verify")
    BY <2>2, IdleJob DEF RecordJobs, HoldsCurrent
  <2>4. job.pc = "report" => job.read.schema = "current" /\ job.run = recordProc[p].run
    BY <2>1, IdleJob DEF RecordJobs, ReadsCurrent, HoldsCurrent
  <2>5. recordProc[p].cmd = "verify" => job.pc = "report" /\ job.run = recordProc[p].run
    BY DEF RecordJobs
  <2> HIDE DEF job
  \* What is written, section by section.
  <2>6. manifest' \in Records
    BY <2>1, <2>2 DEF Book!Rewritten, Book!Judged, Book!Checked, Book!Smoked, Book!Tested, Book!Migrated,
                      Records, Schemas, Book!Integrity
  <2>7. wrote' \in [schema : Schemas, check : Nat, smoke : Nat, tested : Nat, runs : Histories]
    BY <1>6, <2>2 DEF Book!WriteBack, Book!Checked, Book!Smoked, Book!Tested, Book!Migrated, Schemas
  <2>8. /\ wrote'.runs = wrote.runs
        /\ manifest'.schema = wrote'.schema /\ manifest'.schema = "current"
    <3>1. CASE recordProc[p].cmd = "migrate"
      BY <1>6, <2>1, <2>2, <3>1 DEF Book!WriteBack, Book!Rewritten, Book!Migrated, Records
    <3>2. CASE recordProc[p].cmd # "migrate"
      <4>1. recordProc[p].read.schema = "current" /\ wrote.schema = "current"
        BY <2>1, <3>2 DEF ReadsCurrent, HoldsCurrent, Book!RecordsSurvive
      <4> QED
        BY <1>6, <2>1, <2>2, <3>2, <4>1 DEF Book!WriteBack, Book!Rewritten, Book!Judged, Book!Checked,
                                            Book!Smoked, Book!Tested, Records
    <3> QED
      BY <3>1, <3>2
  <2>9. manifest'.check = IF recordProc[p].cmd = "verify" THEN recordProc[p].run ELSE recordProc[p].seen.check
    BY <2>1, <2>2 DEF Book!Rewritten, Book!Judged, Book!Checked, Book!Smoked, Book!Tested, Book!Migrated, Records
  <2>10. wrote'.check = IF recordProc[p].cmd = "verify" THEN recordProc[p].run ELSE wrote.check
    BY <1>6, <2>2 DEF Book!WriteBack, Book!Checked, Book!Smoked, Book!Tested, Book!Migrated
  <2>11. "check" \notin stale' => manifest'.check = wrote'.check
    BY <2>1, <2>9, <2>10 DEF Book!Sets, Book!Undone, Book!Sections, Book!RecordsSurvive
  <2>12. manifest'.smoke = IF recordProc[p].cmd = "smoke" THEN recordProc[p].run ELSE recordProc[p].seen.smoke
    BY <2>1, <2>2 DEF Book!Rewritten, Book!Judged, Book!Checked, Book!Smoked, Book!Tested, Book!Migrated, Records
  <2>13. wrote'.smoke = IF recordProc[p].cmd = "smoke" THEN recordProc[p].run ELSE wrote.smoke
    BY <1>6, <2>2 DEF Book!WriteBack, Book!Checked, Book!Smoked, Book!Tested, Book!Migrated
  <2>14. "smoke" \notin stale' => manifest'.smoke = wrote'.smoke
    BY <2>1, <2>12, <2>13 DEF Book!Sets, Book!Undone, Book!Sections, Book!RecordsSurvive
  <2>15. manifest'.tested = IF recordProc[p].cmd = "run" /\ recordProc[p].good THEN recordProc[p].run
                            ELSE recordProc[p].seen.tested
    BY <2>1, <2>2 DEF Book!Rewritten, Book!Judged, Book!Checked, Book!Smoked, Book!Tested, Book!Migrated, Records
  <2>16. wrote'.tested = IF recordProc[p].cmd = "run" /\ recordProc[p].good THEN recordProc[p].run
                         ELSE wrote.tested
    BY <1>6, <2>2 DEF Book!WriteBack, Book!Checked, Book!Smoked, Book!Tested, Book!Migrated
  <2>17. "tested" \notin stale' => manifest'.tested = wrote'.tested
    BY <2>1, <2>15, <2>16 DEF Book!Sets, Book!Undone, Book!Sections, Book!RecordsSurvive
  \* A verify that wrote its verdict has still to report it; any other command
  \* leaves the verdict as it was, or marks it.
  <2>18. stale' \cap {"check", "report"} = {} /\ report' # manifest'.check
           => \E q \in RecordProc : recordProc'[q].pc = "report" /\ recordProc'[q].run = manifest'.check
    <3>1. CASE recordProc[p].cmd = "verify"
      BY <2>1, <2>5, <2>9, <3>1
    <3>2. CASE recordProc[p].cmd # "verify"
      <4> SUFFICES ASSUME stale' \cap {"check", "report"} = {}, report' # manifest'.check
                   PROVE  \E q \in RecordProc : recordProc'[q].pc = "report" /\ recordProc'[q].run = manifest'.check
        OBVIOUS
      <4>1. manifest.check = recordProc[p].seen.check /\ stale \cap {"check", "report"} = {}
        BY <2>1, <3>2 DEF Book!Sets, Book!Undone, Book!Sections
      <4>2. manifest'.check = manifest.check
        BY <2>9, <3>2, <4>1
      <4>3. PICK q \in RecordProc : recordProc[q].pc = "report" /\ recordProc[q].run = manifest.check
        BY <2>1, <4>1, <4>2 DEF Book!RecordsSurvive
      <4>4. q # p /\ recordProc'[q] = recordProc[q]
        BY <2>1, <4>3
      <4> QED
        BY <4>2, <4>3, <4>4
    <3> QED
      BY <3>1, <3>2
  <2>19. "runs" \notin stale' => history' = wrote'.runs
    BY <2>1, <2>8 DEF Book!Sets, Book!RecordsSurvive
  <2>20. ReadsCurrent'
    <3> SUFFICES ASSUME NEW q \in RecordProc PROVE HoldsCurrent(recordProc[q])'
      BY DEF ReadsCurrent
    <3>1. CASE q = p
      BY <2>1, <2>3, <2>4, <2>8, <3>1 DEF HoldsCurrent
    <3>2. CASE q # p
      BY <2>1, <2>8, <3>2 DEF ReadsCurrent, HoldsCurrent
    <3> QED
      BY <3>1, <3>2
  <2>21. Book!RecordsSurvive'
    BY <2>8, <2>11, <2>14, <2>17, <2>18, <2>19 DEF Book!RecordsSurvive, Book!Sections
  <2> QED
    BY <2>1, <2>3, <2>6, <2>7, <2>20, <2>21
<1>7. CASE Book!Dehydrate
  <2>1. {} \in Histories
    BY DEF Histories
  <2>2. /\ UNCHANGED <<manifest, report, recordProc, recordRuns>> /\ history' = {}
        /\ wrote' = [wrote EXCEPT !.runs = {}] /\ stale' = stale \ {"runs"}
    BY <1>7 DEF Book!Dehydrate
  <2>3. /\ wrote'.schema = wrote.schema /\ wrote'.check = wrote.check /\ wrote'.smoke = wrote.smoke
        /\ wrote'.tested = wrote.tested /\ wrote'.runs = {}
    BY <2>2
  <2>4. Book!RecordsSurvive'
    BY <2>2, <2>3 DEF Book!RecordsSurvive, Book!Sections
  <2> QED
    BY <2>1, <2>2, <2>4 DEF ReadsCurrent, HoldsCurrent
<1>8. ASSUME NEW p \in RecordProc, Book!Crash(p) PROVE RecordInv'
  <2>1. /\ recordProc' = [recordProc EXCEPT ![p] = Book!Idle]
        /\ UNCHANGED <<manifest, recordRuns, wrote>>
        /\ history' \in {history, {Book!Torn}}
        /\ stale \subseteq stale'
        /\ recordProc[p].pc = "report" => "report" \in stale'
        /\ recordProc[p].pc # "report" => report' = report
        /\ "runs" \notin stale' => history' = history
    BY <1>8 DEF Book!Crash
  <2>2. {Book!Torn} \in Histories
    BY DEF Histories
  <2>3. ReadsCurrent'
    BY <2>1, IdleJob DEF ReadsCurrent, HoldsCurrent
  <2>4. stale' \cap {"check", "report"} = {} /\ report' # manifest'.check
          => \E q \in RecordProc : recordProc'[q].pc = "report" /\ recordProc'[q].run = manifest'.check
    BY <2>1 DEF Book!RecordsSurvive
  <2>5. Book!RecordsSurvive'
    BY <2>1, <2>4 DEF Book!RecordsSurvive
  <2> QED
    BY <2>1, <2>2, <2>3, <2>5, IdleJob
<1>9. CASE Book!Change \/ UNCHANGED Book!vars
  BY <1>9 DEF Book!Change, Book!vars, ReadsCurrent, HoldsCurrent, Book!RecordsSurvive
<1> QED
  BY <1>1, <1>2, <1>3, <1>4, <1>5, <1>6, <1>7, <1>8, <1>9 DEF Book!Next, Book!Step

\* Whatever verify, smoke, hydrate, run and migrate do beside each other, a
\* migrated record stays migrated, and what a finished command recorded stays in
\* its section until that section is written anew, unless another command had
\* read the record before and wrote it back after
\* (verify.record_verification, hydrate.hydrate_bundle and run_bundle,
\* smoke.run_smoke, migrate.migrate_bundle).
THEOREM RecordsAlwaysSurvive == Book!Spec => []Book!RecordsSurvive
<1>1. Book!Init => RecordInv
  <2> SUFFICES ASSUME Book!Init PROVE RecordInv
    OBVIOUS
  <2>1. {} \in Histories
    BY DEF Histories
  <2>2. manifest \in Records /\ manifest.check = Book!NoRun /\ manifest.smoke = Book!NoRun
        /\ manifest.tested = Book!NoRun
    BY DEF Book!Init, Book!Archived, Records, Book!Integrity, Book!NoRun, Schemas
  <2>3. ReadsCurrent
    BY IdleJob DEF Book!Init, ReadsCurrent
  <2>4. Book!RecordsSurvive
    BY <2>2 DEF Book!Init, Book!RecordsSurvive, Book!Sections, Book!NoRun
  <2>5. RecordsTyped
    BY <2>1, <2>2, IdleJob DEF Book!Init, RecordsTyped, Book!NoRun, Records
  <2> QED
    BY <2>3, <2>4, <2>5 DEF RecordInv
<1>2. RecordInv => Book!RecordsSurvive
  BY DEF RecordInv
<1> QED
  BY <1>1, <1>2, RecordInvIsInductive, PTL DEF Book!Spec

-----------------------------------------------------------------------------
(* The environments.                                                        *)

EnvJobs == [pc : {"idle", "ensure", "clear", "fail", "sweep", "mkdir", "install", "register",
               "probe", "infer", "prune"},
         bundle : EnvBundle \cup {VaultOf[b] : b \in EnvBundle} \cup {Envs!None},
         key : Envs!Keys \cup {Envs!None}, force : BOOLEAN, run : BOOLEAN, list : SUBSET Envs!Keys]

\* What the commands hold and what the bundles name are keys.
EnvsTyped == envProc \in [EnvProc -> EnvJobs] /\ hydration \in [EnvBundle -> Envs!Keys \cup {Envs!None}]

\* Unless a hydration was recorded under a prune, no bundle of the prune's vault
\* names an env that is still on its list.
Unnamed(p) ==
  \A k \in envProc[p].list : \A b \in EnvBundle : VaultOf[b] = envProc[p].bundle => hydration[b] # k
ListedUnnamed == lateName \/ \A p \in EnvProc : envProc[p].pc \in {"prune", "sweep"} => Unnamed(p)

\* What a prune has listed stays unnamed, and what the commands hold stays typed.
LEMMA PruneStands == Envs!Spec => []EnvsTyped /\ Envs!PruneKeepsListed
<1> DEFINE Kind == (\A p \in EnvProc : (envProc[p].pc # "sweep" /\ envProc'[p].pc = "sweep") =>
        \/ lateName
        \/ \A b \in EnvBundle : VaultOf[b] = envProc[p].bundle => hydration[b] # envProc'[p].key)
           Good == EnvsTyped' /\ ListedUnnamed' /\ Kind
<1>0. Envs!Idle \in EnvJobs /\ Envs!Idle.pc = "idle"
  BY DEF Envs!Idle, EnvJobs
<1>1. Envs!Init => EnvsTyped /\ ListedUnnamed
  BY <1>0 DEF Envs!Init, EnvsTyped, ListedUnnamed
<1>2. ASSUME EnvsTyped, ListedUnnamed, [Envs!Next]_Envs!vars PROVE Good
  <2> USE <1>0, <1>2 DEF EnvsTyped
  <2>1. ASSUME NEW p \in EnvProc, NEW job \in EnvJobs, job.pc \notin {"prune", "sweep"},
               Envs!Command(p, job)
        PROVE Good
    BY <2>1 DEF Envs!Command, ListedUnnamed, Unnamed
  <2>2. ASSUME NEW b \in EnvBundle, NEW force \in BOOLEAN
        PROVE Envs!ToHydrate(b, force) \in EnvJobs /\ Envs!ToHydrate(b, force).pc = "ensure"
    BY <2>2 DEF Envs!ToHydrate, Envs!KeyFor, Envs!Idle, EnvJobs, Envs!Keys
  <2>3. ASSUME NEW p \in EnvProc, NEW b \in EnvBundle, Envs!Run(p, b) PROVE Good
    <3> DEFINE job == [(IF Envs!Stale(b) THEN Envs!ToHydrate(b, FALSE)
                        ELSE [Envs!Idle EXCEPT !.bundle = b, !.key = hydration[b], !.pc = "infer"])
                       EXCEPT !.run = TRUE]
    <3>1. job \in EnvJobs /\ job.pc \in {"ensure", "infer"}
      BY <2>2 DEF EnvJobs, Envs!Idle
    <3>2. Envs!Command(p, job)
      BY <2>3 DEF Envs!Run
    <3> QED
      BY <2>1, <3>1, <3>2
  <2>4. ASSUME NEW p \in EnvProc, NEW b \in EnvBundle, NEW force \in BOOLEAN, Envs!Hydrate(p, b, force)
        PROVE Good
    BY <2>1, <2>2, <2>4 DEF Envs!Hydrate
  <2>5. ASSUME NEW p \in EnvProc, NEW v \in {VaultOf[b] : b \in EnvBundle}, Envs!Prune(p, v) PROVE Good
    <3> DEFINE job == [Envs!Idle EXCEPT !.pc = "prune", !.bundle = v,
                                   !.list = {k \in Envs!Keys : env[k].marker} \ Envs!References(v)]
    <3>1. job \in EnvJobs /\ job.pc = "prune" /\ job.bundle = v
      BY DEF EnvJobs, Envs!Idle
    <3>2. \A k \in job.list : \A b \in EnvBundle : VaultOf[b] = v => hydration[b] # k
      BY DEF Envs!References, Envs!Idle
    <3> HIDE DEF job
    <3>3. envProc' = [envProc EXCEPT ![p] = job] /\ UNCHANGED <<hydration, lateName>>
      BY <2>5 DEF Envs!Prune, Envs!Command, job
    <3> QED
      BY <3>1, <3>2, <3>3 DEF ListedUnnamed, Unnamed
  <2>6. ASSUME NEW p \in EnvProc,
               Envs!Ensure(p) \/ Envs!Mkdir(p) \/ Envs!Install(p) \/ Envs!RegisterEnv(p)
        PROVE Good
    <3>1. UNCHANGED <<hydration, lateName>>
      BY <2>6 DEF Envs!Ensure, Envs!Mkdir, Envs!Install, Envs!RegisterEnv, Envs!Still
    <3>2. \E job \in EnvJobs : job.pc \notin {"prune", "sweep"} /\ envProc' = [envProc EXCEPT ![p] = job]
      BY <2>6 DEF Envs!Ensure, Envs!Mkdir, Envs!Install, Envs!RegisterEnv, Envs!Goto, EnvJobs
    <3> QED
      BY <3>1, <3>2 DEF ListedUnnamed, Unnamed
  <2>7. ASSUME NEW p \in EnvProc, Envs!RemoveEntry(p) PROVE Good
    BY <2>7 DEF Envs!RemoveEntry, Envs!Still, ListedUnnamed, Unnamed
  <2>8. ASSUME NEW p \in EnvProc, Envs!RemoveEnds(p) PROVE Good
    <3>1. UNCHANGED <<hydration, lateName>>
      BY <2>8 DEF Envs!RemoveEnds, Envs!Still
    <3>2. CASE envProc' = [envProc EXCEPT ![p].pc = "mkdir"]
      BY <3>1, <3>2 DEF ListedUnnamed, Unnamed, EnvJobs
    <3>3. CASE envProc' = [envProc EXCEPT ![p] = Envs!Idle]
      BY <3>1, <3>3 DEF ListedUnnamed, Unnamed
    <3>4. CASE envProc[p].pc = "sweep" /\ envProc' = [envProc EXCEPT ![p].pc = "prune", ![p].key = Envs!None]
      <4> DEFINE job == [envProc[p] EXCEPT !.pc = "prune", !.key = Envs!None]
      <4>1. job \in EnvJobs /\ job.pc = "prune"
        BY DEF EnvJobs
      <4>2. job.list = envProc[p].list /\ job.bundle = envProc[p].bundle
        BY DEF EnvJobs
      <4>3. envProc' = [envProc EXCEPT ![p] = job]
        BY <3>4 DEF EnvJobs
      <4> HIDE DEF job
      <4>4. EnvsTyped' /\ envProc'[p] = job /\ \A q \in EnvProc \ {p} : envProc'[q] = envProc[q]
        BY <3>1, <4>1, <4>3
      <4>5. lateName \/ \A q \in EnvProc : envProc'[q].pc \in {"prune", "sweep"} => Unnamed(q)'
        BY <3>4, <3>1, <4>1, <4>2, <4>4 DEF ListedUnnamed, Unnamed
      <4>6. Kind
        BY <4>1, <4>4
      <4> QED
        BY <3>1, <4>4, <4>5, <4>6 DEF ListedUnnamed
    <3> QED
      BY <2>8, <3>2, <3>3, <3>4 DEF Envs!RemoveEnds
  <2>9. ASSUME NEW p \in EnvProc, Envs!WriteHydration(p) \/ Envs!RecordRun(p) PROVE Good
    <3>1. /\ hydration' = [hydration EXCEPT ![envProc[p].bundle] = envProc[p].key]
          /\ lateName' = (lateName \/ \E q \in EnvProc : envProc[q].pc \in {"prune", "sweep"})
      BY <2>9 DEF Envs!WriteHydration, Envs!RecordRun, Envs!Names
    <3>2. \E job \in EnvJobs : job.pc \notin {"prune", "sweep"} /\ envProc' = [envProc EXCEPT ![p] = job]
      BY <2>9 DEF Envs!WriteHydration, Envs!RecordRun, EnvJobs
    <3>3. hydration' \in [EnvBundle -> Envs!Keys \cup {Envs!None}]
      BY <3>1 DEF EnvJobs
    <3> QED
      BY <3>1, <3>2, <3>3 DEF ListedUnnamed
  <2>10. ASSUME NEW p \in EnvProc, Envs!RunnerMissing(p) \/ Envs!Crash(p) PROVE Good
    BY <2>10 DEF Envs!RunnerMissing, Envs!Crash, Envs!Still, ListedUnnamed, Unnamed
  <2>11. ASSUME NEW p \in EnvProc, Envs!PruneNext(p) PROVE Good
    <3>1. UNCHANGED <<hydration, lateName>>
      BY <2>11 DEF Envs!PruneNext, Envs!Still
    <3>2. CASE envProc' = [envProc EXCEPT ![p] = Envs!Idle]
      BY <3>1, <3>2 DEF ListedUnnamed, Unnamed
    <3>3. ASSUME NEW k \in envProc[p].list,
                 envProc' = [envProc EXCEPT ![p].pc = "sweep", ![p].key = k, ![p].list = @ \ {k}]
          PROVE Good
      <4> DEFINE job == [envProc[p] EXCEPT !.pc = "sweep", !.key = k, !.list = @ \ {k}]
      <4>1. job \in EnvJobs /\ job.pc = "sweep" /\ job.key = k
        BY <3>3 DEF EnvJobs
      <4>2. job.list \subseteq envProc[p].list /\ job.bundle = envProc[p].bundle
        BY DEF EnvJobs
      <4>3. envProc' = [envProc EXCEPT ![p] = job]
        BY <3>3 DEF EnvJobs
      <4>4. lateName \/ Unnamed(p)
        BY <2>11 DEF Envs!PruneNext, ListedUnnamed
      <4> HIDE DEF job
      <4>5. EnvsTyped' /\ envProc'[p] = job /\ \A q \in EnvProc \ {p} : envProc'[q] = envProc[q]
        BY <3>1, <4>1, <4>3
      <4>6. lateName \/ \A q \in EnvProc : envProc'[q].pc \in {"prune", "sweep"} => Unnamed(q)'
        BY <4>4, <3>1, <4>1, <4>2, <4>5 DEF ListedUnnamed, Unnamed
      <4>7. Kind
        BY <3>3, <4>1, <4>4, <4>5 DEF Unnamed
      <4> QED
        BY <3>1, <4>5, <4>6, <4>7 DEF ListedUnnamed
    <3> QED
      BY <2>11, <3>2, <3>3 DEF Envs!PruneNext
  <2>12. ASSUME NEW b \in EnvBundle, Envs!Dehydrate(b) PROVE Good
    BY <2>12 DEF Envs!Dehydrate, ListedUnnamed, Unnamed, EnvJobs, Envs!Keys, Envs!None
  <2>13. CASE UNCHANGED Envs!vars
    BY <2>13 DEF Envs!vars, ListedUnnamed, Unnamed
  <2> QED
    BY <2>3, <2>4, <2>5, <2>6, <2>7, <2>8, <2>9, <2>10, <2>11, <2>12, <2>13 DEF Envs!Next, Envs!Step
<1>3. EnvsTyped /\ ListedUnnamed /\ [Envs!Next]_Envs!vars
        => EnvsTyped' /\ ListedUnnamed' /\ [Kind]_Envs!vars
  BY <1>2
<1> QED
  BY <1>1, <1>3, PTL DEF Envs!Spec, Envs!PruneKeepsListed

\* Whatever runs beside it or crashes, prune_envs removes no env that a bundle
\* of its vault names, unless a hydration was recorded while it was under way.
THEOREM PruneIsKind == Envs!Spec => Envs!PruneKeepsListed
BY PruneStands, PTL

Removers  == {"clear", "fail", "sweep"}
Keyed     == {"ensure", "mkdir", "install", "register", "probe", "infer"} \cup Removers
Builders  == {"install", "register"}
Dirs      == [body : {"none", "half", "whole"}, marker : BOOLEAN, by : EnvProc \cup {0}]

\* Each directory is typed, and a command that is at work on one has its key.
DirsTyped == /\ env \in [Envs!Keys -> Dirs]
             /\ \A p \in EnvProc : envProc[p].pc \in Keyed => envProc[p].key \in Envs!Keys

\* What makes a marker a proof: a registered env is whole or being removed, and
\* one that is being installed is there, built by one command, and whole once
\* its installer is done.
MarkersHold  == \A k \in Envs!Keys : env[k].marker => env[k].body = "whole" \/ Envs!Removing(k)
BuildersOwn  ==
  \A p \in EnvProc : envProc[p].pc \in Builders =>
    /\ env[envProc[p].key].by = p /\ env[envProc[p].key].body # "none"
    /\ envProc[p].pc = "register" => env[envProc[p].key].body = "whole"
WholeInv == DirsTyped /\ (swept \/ halfClear \/ (MarkersHold /\ BuildersOwn))

\* A step of one command keeps what others rest on if it changes no directory
\* and neither begins to build nor stops to remove.
LEMMA WholeMove ==
  ASSUME EnvsTyped, EnvsTyped', WholeInv, NEW p \in EnvProc, UNCHANGED env,
         swept => swept', halfClear => halfClear',
         \A q \in EnvProc \ {p} : envProc'[q] = envProc[q],
         envProc[p].pc \in Removers => envProc'[p].pc = envProc[p].pc /\ envProc'[p].key = envProc[p].key,
         envProc'[p].pc \in Keyed => envProc'[p].key \in Envs!Keys,
         envProc'[p].pc \in Builders => envProc'[p] = envProc[p]
  PROVE  WholeInv'
<1>1. DirsTyped'
  BY DEF WholeInv, DirsTyped
<1>2. ASSUME MarkersHold PROVE MarkersHold'
  <2>1. ASSUME NEW k \in Envs!Keys, Envs!Removing(k) PROVE Envs!Removing(k)'
    BY <2>1 DEF Envs!Removing, Removers
  <2> QED
    BY <1>2, <2>1 DEF MarkersHold
<1>3. ASSUME BuildersOwn PROVE BuildersOwn'
  BY <1>3 DEF BuildersOwn
<1> QED
  BY <1>1, <1>2, <1>3 DEF WholeInv

\* Every step keeps it.
LEMMA WholeStep ==
  ASSUME EnvsTyped, EnvsTyped', WholeInv, [Envs!Next]_Envs!vars
  PROVE  WholeInv'
<1>0. Envs!Idle \in EnvJobs /\ Envs!Idle.pc = "idle"
  BY DEF Envs!Idle, EnvJobs
<1>1. ASSUME NEW p \in EnvProc, NEW job, Envs!Command(p, job), job.pc \notin Builders \cup Removers,
             job.pc \in Keyed => job.key \in Envs!Keys
      PROVE  WholeInv'
  <2>1. /\ UNCHANGED <<env, swept, halfClear>> /\ envProc[p] = Envs!Idle
        /\ envProc' = [envProc EXCEPT ![p] = job]
    BY <1>1 DEF Envs!Command
  <2>2. envProc'[p] = job /\ \A q \in EnvProc \ {p} : envProc'[q] = envProc[q]
    BY <2>1 DEF EnvsTyped
  <2> QED
    BY <1>0, <1>1, <2>1, <2>2, WholeMove DEF Removers
<1>2. ASSUME NEW b \in EnvBundle, NEW force \in BOOLEAN
      PROVE Envs!ToHydrate(b, force).pc = "ensure" /\ Envs!ToHydrate(b, force).key \in Envs!Keys
  BY <1>2 DEF Envs!ToHydrate, Envs!KeyFor, Envs!Idle, EnvsTyped, Envs!Keys
<1>3. ASSUME NEW p \in EnvProc, NEW b \in EnvBundle, Envs!Run(p, b) PROVE WholeInv'
  <2> DEFINE job == [(IF Envs!Stale(b) THEN Envs!ToHydrate(b, FALSE)
                      ELSE [Envs!Idle EXCEPT !.bundle = b, !.key = hydration[b], !.pc = "infer"])
                     EXCEPT !.run = TRUE]
  <2>1. job.pc \in {"ensure", "infer"} /\ job.key \in Envs!Keys
    BY <1>2 DEF Envs!Idle, Envs!Stale, EnvsTyped, Envs!ToHydrate
  <2>2. Envs!Command(p, job)
    BY <1>3 DEF Envs!Run
  <2> HIDE DEF job
  <2> QED
    BY <1>1, <2>1, <2>2 DEF Builders, Removers
<1>4. ASSUME NEW p \in EnvProc, NEW b \in EnvBundle, NEW force \in BOOLEAN, Envs!Hydrate(p, b, force)
      PROVE WholeInv'
  BY <1>1, <1>2, <1>4 DEF Envs!Hydrate, Builders, Removers
<1>5. ASSUME NEW p \in EnvProc, NEW v \in {VaultOf[b] : b \in EnvBundle}, Envs!Prune(p, v)
      PROVE WholeInv'
  <2> DEFINE job == [Envs!Idle EXCEPT !.pc = "prune", !.bundle = v,
                                 !.list = {k \in Envs!Keys : env[k].marker} \ Envs!References(v)]
  <2>1. job.pc = "prune"
    BY DEF Envs!Idle
  <2>2. Envs!Command(p, job)
    BY <1>5 DEF Envs!Prune
  <2> HIDE DEF job
  <2> QED
    BY <1>1, <2>1, <2>2 DEF Builders, Removers, Keyed
<1>6. ASSUME NEW p \in EnvProc, Envs!Ensure(p) PROVE WholeInv'
  <2>1. /\ envProc[p].pc = "ensure" /\ UNCHANGED <<env, swept, halfClear>>
        /\ \E place \in {"probe", "mkdir", "clear"} : envProc' = [envProc EXCEPT ![p].pc = place]
    BY <1>6 DEF Envs!Ensure, Envs!Goto, Envs!Still
  <2>2. /\ envProc'[p].pc \notin Builders /\ envProc'[p].key = envProc[p].key
        /\ \A q \in EnvProc \ {p} : envProc'[q] = envProc[q]
    BY <2>1 DEF EnvsTyped, EnvJobs, Builders
  <2> QED
    BY <2>1, <2>2, WholeMove DEF Removers, Keyed, WholeInv, DirsTyped
<1>7. ASSUME NEW p \in EnvProc, Envs!RemoveEntry(p) PROVE WholeInv'
  <2> DEFINE k == envProc[p].key
  <2>1. /\ envProc[p].pc \in Removers /\ UNCHANGED <<envProc, halfClear>>
        /\ swept' = (swept \/ Envs!Others(p, k))
    BY <1>7 DEF Envs!RemoveEntry, Envs!Touch, Envs!Still, Removers
  <2>2. k \in Envs!Keys
    BY <2>1 DEF WholeInv, DirsTyped, Keyed
  <2>3. PICK x : env' = [env EXCEPT ![k] = Envs!Without(@, x)]
    BY <1>7 DEF Envs!RemoveEntry
  <2>4. DirsTyped'
    BY <2>1, <2>2, <2>3 DEF WholeInv, DirsTyped, Dirs, Envs!Without
  <2>5. ASSUME MarkersHold PROVE MarkersHold'
    <3>1. ASSUME NEW l \in Envs!Keys, l = k PROVE Envs!Removing(l)'
      BY <2>1, <3>1 DEF Envs!Removing, Removers
    <3>2. \A l \in Envs!Keys \ {k} : env'[l] = env[l]
      BY <2>2, <2>3 DEF WholeInv, DirsTyped
    <3>3. ASSUME NEW l \in Envs!Keys, Envs!Removing(l) PROVE Envs!Removing(l)'
      BY <2>1, <3>3 DEF Envs!Removing
    <3> QED
      BY <2>5, <3>1, <3>2, <3>3 DEF MarkersHold
  <2>6. ASSUME BuildersOwn, ~Envs!Others(p, k) PROVE BuildersOwn'
    <3>1. \A q \in EnvProc : envProc[q].pc \in Builders => envProc[q].key # k
      BY <2>1, <2>6 DEF Envs!Others, Builders, Removers
    <3>2. \A q \in EnvProc : envProc[q].pc \in Builders => env'[envProc[q].key] = env[envProc[q].key]
      BY <2>2, <2>3, <3>1 DEF WholeInv, DirsTyped, Keyed, Builders
    <3> QED
      BY <2>1, <2>6, <3>2 DEF BuildersOwn
  <2> QED
    BY <2>1, <2>4, <2>5, <2>6 DEF WholeInv
<1>8. ASSUME NEW p \in EnvProc, Envs!RemoveEnds(p) PROVE WholeInv'
  <2> DEFINE k == envProc[p].key
  <2>1. /\ envProc[p].pc \in Removers /\ UNCHANGED <<swept, halfClear>>
        /\ Envs!Entries(env[k]) = {} /\ env' = [env EXCEPT ![k] = Envs!NoEnv]
    BY <1>8 DEF Envs!RemoveEnds, Envs!Still, Removers
  <2>2. k \in Envs!Keys
    BY <2>1 DEF WholeInv, DirsTyped, Keyed
  <2>3. env[k].body = "none"
    <3>1. "body" \notin Envs!Entries(env[k])
      BY <2>1
    <3> QED
      BY <3>1 DEF Envs!Entries
  <2>4. /\ \A q \in EnvProc \ {p} : envProc'[q] = envProc[q]
        /\ envProc'[p].pc \in {"mkdir", "idle", "prune"}
        /\ envProc'[p].pc = "mkdir" => envProc'[p].key = k
    BY <1>0, <1>8, <2>1 DEF Envs!RemoveEnds, EnvsTyped, EnvJobs, Removers
  <2>5. DirsTyped'
    BY <2>1, <2>2, <2>4 DEF WholeInv, DirsTyped, Dirs, Envs!NoEnv, Keyed, Removers
  <2>6. env'[k] = Envs!NoEnv /\ \A l \in Envs!Keys \ {k} : env'[l] = env[l]
    BY <2>1, <2>2 DEF WholeInv, DirsTyped
  <2>7. ASSUME MarkersHold PROVE MarkersHold'
    <3> SUFFICES ASSUME NEW l \in Envs!Keys, env'[l].marker, env'[l].body # "whole"
                 PROVE  Envs!Removing(l)'
      BY DEF MarkersHold
    <3>1. l # k /\ env[l].marker /\ env[l].body # "whole"
      BY <2>6 DEF Envs!NoEnv
    <3>2. PICK q \in EnvProc : envProc[q].key = l /\ envProc[q].pc \in Removers
      BY <2>7, <3>1 DEF MarkersHold, Envs!Removing, Removers
    <3> QED
      BY <2>4, <3>1, <3>2 DEF Envs!Removing, Removers
  <2>8. ASSUME BuildersOwn PROVE BuildersOwn'
    <3>1. \A q \in EnvProc : envProc[q].pc \in Builders => q # p /\ envProc[q].key # k
      BY <2>1, <2>3, <2>8 DEF BuildersOwn, Builders, Removers
    <3>2. \A q \in EnvProc : envProc'[q].pc \in Builders => q # p
      BY <2>4 DEF Builders
    <3>3. \A q \in EnvProc : envProc[q].pc \in Builders => envProc[q].key \in Envs!Keys
      BY DEF WholeInv, DirsTyped, Keyed, Builders
    <3> QED
      BY <2>4, <2>6, <2>8, <3>1, <3>2, <3>3 DEF BuildersOwn
  <2> QED
    BY <2>1, <2>5, <2>7, <2>8 DEF WholeInv
<1>9. ASSUME NEW p \in EnvProc, Envs!Mkdir(p) PROVE WholeInv'
  <2> DEFINE k == envProc[p].key
  <2>1. envProc[p].pc = "mkdir" /\ k \in Envs!Keys /\ UNCHANGED <<swept, halfClear>>
    BY <1>9 DEF Envs!Mkdir, Envs!Still, WholeInv, DirsTyped, Keyed
  <2>2. CASE ~Envs!Absent(k)
    <3>1. envProc' = [envProc EXCEPT ![p] = Envs!Idle] /\ UNCHANGED env
      BY <1>9, <2>2 DEF Envs!Mkdir
    <3>2. envProc'[p].pc = "idle" /\ \A q \in EnvProc \ {p} : envProc'[q] = envProc[q]
      BY <1>0, <3>1 DEF EnvsTyped
    <3> QED
      BY <2>1, <3>1, <3>2, WholeMove DEF Removers, Keyed, Builders
  <2>3. CASE Envs!Absent(k)
    <3>1. /\ env[k] = Envs!NoEnv /\ env' = [env EXCEPT ![k].body = "half", ![k].by = p]
          /\ envProc' = [envProc EXCEPT ![p].pc = "install"]
      BY <1>9, <2>3 DEF Envs!Mkdir, Envs!Absent, Envs!Goto
    <3>2. /\ \A l \in Envs!Keys \ {k} : env'[l] = env[l]
          /\ env'[k].body = "half" /\ env'[k].by = p /\ ~env'[k].marker
      BY <2>1, <3>1 DEF WholeInv, DirsTyped, Dirs, Envs!NoEnv
    <3>3. /\ \A q \in EnvProc \ {p} : envProc'[q] = envProc[q]
          /\ envProc'[p].pc = "install" /\ envProc'[p].key = k
      BY <3>1 DEF EnvsTyped, EnvJobs
    <3>4. DirsTyped'
      BY <2>1, <3>1, <3>3 DEF WholeInv, DirsTyped, Dirs
    <3>5. ASSUME MarkersHold PROVE MarkersHold'
      <4>1. ASSUME NEW l \in Envs!Keys, Envs!Removing(l) PROVE Envs!Removing(l)'
        BY <2>1, <3>3, <4>1 DEF Envs!Removing
      <4> QED
        BY <3>2, <3>5, <4>1 DEF MarkersHold
    <3>6. ASSUME BuildersOwn PROVE BuildersOwn'
      <4>1. \A q \in EnvProc : envProc[q].pc \in Builders => envProc[q].key \in Envs!Keys \ {k}
        BY <3>1, <3>6 DEF BuildersOwn, Envs!NoEnv, WholeInv, DirsTyped, Keyed, Builders
      <4> QED
        BY <3>2, <3>3, <3>6, <4>1 DEF BuildersOwn
    <3> QED
      BY <2>1, <3>4, <3>5, <3>6 DEF WholeInv
  <2> QED
    BY <2>2, <2>3
<1>10. ASSUME NEW p \in EnvProc, Envs!Install(p) PROVE WholeInv'
  <2> DEFINE k == envProc[p].key
  <2>1. envProc[p].pc = "install" /\ k \in Envs!Keys /\ UNCHANGED <<swept, halfClear>>
    BY <1>10 DEF Envs!Install, Envs!Still, WholeInv, DirsTyped, Keyed
  <2>2. CASE Envs!Goto(p, "fail") /\ UNCHANGED env
    <3>1. /\ envProc'[p].pc = "fail" /\ envProc'[p].key = k
          /\ \A q \in EnvProc \ {p} : envProc'[q] = envProc[q]
      BY <2>2 DEF Envs!Goto, EnvsTyped, EnvJobs
    <3> QED
      BY <2>1, <2>2, <3>1, WholeMove DEF Removers, Builders
  <2>3. CASE /\ env[k].body # "none"
             /\ env' = [env EXCEPT ![k].body = IF env[k].by = p THEN "whole" ELSE "half"]
             /\ Envs!Goto(p, "register")
    <3>1. /\ envProc'[p].pc = "register" /\ envProc'[p].key = k
          /\ \A q \in EnvProc \ {p} : envProc'[q] = envProc[q]
      BY <2>3 DEF Envs!Goto, EnvsTyped, EnvJobs
    <3>2. DirsTyped'
      BY <2>1, <2>3, <3>1 DEF WholeInv, DirsTyped, Dirs
    <3>3. /\ \A l \in Envs!Keys \ {k} : env'[l] = env[l]
          /\ env'[k].by = env[k].by /\ env'[k].marker = env[k].marker
          /\ env[k].by = p => env'[k].body = "whole"
      BY <2>1, <2>3 DEF WholeInv, DirsTyped, Dirs
    <3>4. ASSUME MarkersHold, BuildersOwn PROVE MarkersHold' /\ BuildersOwn'
      <4>1. env[k].by = p
        BY <2>1, <3>4 DEF BuildersOwn, Builders
      <4>2. ASSUME NEW l \in Envs!Keys, Envs!Removing(l) PROVE Envs!Removing(l)'
        BY <2>1, <3>1, <4>2 DEF Envs!Removing
      <4>3. \A q \in EnvProc \ {p} : envProc[q].pc \in Builders => envProc[q].key \in Envs!Keys \ {k}
        BY <3>4, <4>1 DEF BuildersOwn, WholeInv, DirsTyped, Keyed, Builders
      <4>4. MarkersHold'
        BY <3>3, <3>4, <4>1, <4>2 DEF MarkersHold
      <4>5. BuildersOwn'
        BY <3>1, <3>3, <3>4, <4>1, <4>3 DEF BuildersOwn
      <4> QED
        BY <4>4, <4>5
    <3> QED
      BY <2>1, <3>2, <3>4 DEF WholeInv
  <2> QED
    BY <1>10, <2>2, <2>3 DEF Envs!Install
<1>11. ASSUME NEW p \in EnvProc, Envs!RegisterEnv(p) PROVE WholeInv'
  <2> DEFINE k == envProc[p].key
  <2>1. envProc[p].pc = "register" /\ k \in Envs!Keys /\ UNCHANGED <<swept, halfClear>>
    BY <1>11 DEF Envs!RegisterEnv, Envs!Still, WholeInv, DirsTyped, Keyed
  <2>2. CASE Envs!Absent(k)
    <3>1. envProc' = [envProc EXCEPT ![p] = Envs!Idle] /\ UNCHANGED env
      BY <1>11, <2>2 DEF Envs!RegisterEnv
    <3>2. envProc'[p].pc = "idle" /\ \A q \in EnvProc \ {p} : envProc'[q] = envProc[q]
      BY <1>0, <3>1 DEF EnvsTyped
    <3> QED
      BY <2>1, <3>1, <3>2, WholeMove DEF Removers, Keyed, Builders
  <2>3. CASE ~Envs!Absent(k)
    <3>1. env' = [env EXCEPT ![k].marker = TRUE] /\ envProc' = [envProc EXCEPT ![p].pc = "probe"]
      BY <1>11, <2>3 DEF Envs!RegisterEnv, Envs!Goto
    <3>2. /\ envProc'[p].pc = "probe" /\ envProc'[p].key = k
          /\ \A q \in EnvProc \ {p} : envProc'[q] = envProc[q]
      BY <3>1 DEF EnvsTyped, EnvJobs
    <3>3. DirsTyped'
      BY <2>1, <3>1, <3>2 DEF WholeInv, DirsTyped, Dirs
    <3>4. /\ \A l \in Envs!Keys \ {k} : env'[l] = env[l]
          /\ env'[k].by = env[k].by /\ env'[k].body = env[k].body
      BY <2>1, <3>1 DEF WholeInv, DirsTyped, Dirs
    <3>5. ASSUME MarkersHold, BuildersOwn PROVE MarkersHold' /\ BuildersOwn'
      <4>1. env[k].body = "whole"
        BY <2>1, <3>5 DEF BuildersOwn, Builders
      <4>2. ASSUME NEW l \in Envs!Keys, Envs!Removing(l) PROVE Envs!Removing(l)'
        BY <2>1, <3>2, <4>2 DEF Envs!Removing
      <4>3. MarkersHold'
        BY <3>4, <3>5, <4>1, <4>2 DEF MarkersHold
      <4>4. BuildersOwn'
        BY <3>2, <3>4, <3>5 DEF BuildersOwn, Builders, WholeInv, DirsTyped, Keyed
      <4> QED
        BY <4>3, <4>4
    <3> QED
      BY <2>1, <3>3, <3>5 DEF WholeInv
  <2> QED
    BY <2>2, <2>3
<1>12. ASSUME NEW p \in EnvProc,
              Envs!WriteHydration(p) \/ Envs!RecordRun(p) \/ Envs!RunnerMissing(p)
       PROVE  WholeInv'
  <2>1. /\ envProc[p].pc \in {"probe", "infer"} /\ UNCHANGED <<env, swept, halfClear>>
        /\ \/ envProc' = [envProc EXCEPT ![p].pc = "infer"]
           \/ envProc' = [envProc EXCEPT ![p] = Envs!Idle]
    BY <1>12 DEF Envs!WriteHydration, Envs!RecordRun, Envs!RunnerMissing, Envs!Names, Envs!Still
  <2>2. /\ envProc'[p].pc \in {"infer", "idle"}
        /\ envProc'[p].pc = "infer" => envProc'[p].key = envProc[p].key
        /\ \A q \in EnvProc \ {p} : envProc'[q] = envProc[q]
    BY <1>0, <2>1 DEF EnvsTyped, EnvJobs
  <2> QED
    BY <2>1, <2>2, WholeMove DEF Removers, Keyed, Builders, WholeInv, DirsTyped
<1>13. ASSUME NEW p \in EnvProc, Envs!PruneNext(p) PROVE WholeInv'
  <2>1. /\ envProc[p].pc = "prune" /\ UNCHANGED <<env, swept, halfClear>>
        /\ \/ envProc' = [envProc EXCEPT ![p] = Envs!Idle]
           \/ \E k \in envProc[p].list :
                envProc' = [envProc EXCEPT ![p].pc = "sweep", ![p].key = k, ![p].list = @ \ {k}]
    BY <1>13 DEF Envs!PruneNext, Envs!Still
  <2>2. /\ envProc'[p].pc \in {"sweep", "idle"}
        /\ envProc'[p].pc = "sweep" => envProc'[p].key \in envProc[p].list
        /\ \A q \in EnvProc \ {p} : envProc'[q] = envProc[q]
    <3>1. CASE envProc' = [envProc EXCEPT ![p] = Envs!Idle]
      BY <1>0, <3>1 DEF EnvsTyped
    <3>2. ASSUME NEW k \in envProc[p].list,
                 envProc' = [envProc EXCEPT ![p].pc = "sweep", ![p].key = k, ![p].list = @ \ {k}]
          PROVE  /\ envProc'[p].pc = "sweep" /\ envProc'[p].key \in envProc[p].list
                 /\ \A q \in EnvProc \ {p} : envProc'[q] = envProc[q]
      BY <3>2 DEF EnvsTyped, EnvJobs
    <3> QED
      BY <2>1, <3>1, <3>2
  <2>3. envProc[p].list \subseteq Envs!Keys
    BY DEF EnvsTyped, EnvJobs
  <2> QED
    BY <2>1, <2>2, <2>3, WholeMove DEF Removers, Keyed, Builders
<1>14. ASSUME NEW p \in EnvProc, Envs!Crash(p) PROVE WholeInv'
  <2>1. /\ UNCHANGED <<env, swept>> /\ envProc' = [envProc EXCEPT ![p] = Envs!Idle]
        /\ halfClear' = (halfClear \/ envProc[p].pc \in Removers)
    BY <1>14 DEF Envs!Crash, Removers
  <2>2. envProc'[p].pc = "idle" /\ \A q \in EnvProc \ {p} : envProc'[q] = envProc[q]
    BY <1>0, <2>1 DEF EnvsTyped
  <2>3. CASE envProc[p].pc \in Removers
    BY <2>1, <2>2, <2>3 DEF WholeInv, DirsTyped, Keyed, Removers
  <2>4. CASE envProc[p].pc \notin Removers
    BY <2>1, <2>2, <2>4, WholeMove DEF Removers, Keyed, Builders
  <2> QED
    BY <2>3, <2>4
<1>15. CASE (\E b \in EnvBundle : Envs!Dehydrate(b)) \/ UNCHANGED Envs!vars
  <2>1. UNCHANGED <<env, envProc, swept, halfClear>>
    BY <1>15 DEF Envs!Dehydrate, Envs!vars
  <2> QED
    BY <2>1 DEF WholeInv, DirsTyped, MarkersHold, BuildersOwn, Envs!Removing
<1> QED
  BY <1>3, <1>4, <1>5, <1>6, <1>7, <1>8, <1>9, <1>10, <1>11, <1>12, <1>13, <1>14, <1>15
     DEF Envs!Next, Envs!Step

\* A command comes to its probe from ensure, when the env has its marker, or
\* from the registration of an env that is there.
LEMMA EntersProbe ==
  ASSUME EnvsTyped, Envs!Next, NEW p \in EnvProc, envProc[p].pc # "probe", envProc'[p].pc = "probe"
  PROVE  \/ envProc[p].key = envProc'[p].key /\ env[envProc[p].key].marker
         \/ envProc[p].pc = "register" /\ envProc[p].key = envProc'[p].key
            /\ env[envProc[p].key] # Envs!NoEnv
<1> USE DEF EnvsTyped
<1>0. Envs!Idle.pc = "idle"
  BY DEF Envs!Idle
<1>1. ASSUME NEW q \in EnvProc, NEW job, Envs!Command(q, job), job.pc # "probe" PROVE FALSE
  BY <1>1 DEF Envs!Command
<1>2. ASSUME NEW q \in EnvProc, NEW b \in EnvBundle, Envs!Run(q, b) PROVE FALSE
  <2> DEFINE job == [(IF Envs!Stale(b) THEN Envs!ToHydrate(b, FALSE)
                      ELSE [Envs!Idle EXCEPT !.bundle = b, !.key = hydration[b], !.pc = "infer"])
                     EXCEPT !.run = TRUE]
  <2>1. job.pc # "probe"
    BY DEF Envs!Idle, Envs!ToHydrate
  <2>2. Envs!Command(q, job)
    BY <1>2 DEF Envs!Run
  <2> HIDE DEF job
  <2> QED
    BY <1>1, <2>1, <2>2
<1>3. ASSUME NEW q \in EnvProc, NEW b \in EnvBundle, NEW force \in BOOLEAN, Envs!Hydrate(q, b, force)
      PROVE FALSE
  <2>1. Envs!ToHydrate(b, force).pc # "probe"
    BY DEF Envs!Idle, Envs!ToHydrate
  <2> QED
    BY <1>1, <1>3, <2>1 DEF Envs!Hydrate
<1>4. ASSUME NEW q \in EnvProc, NEW v \in {VaultOf[b] : b \in EnvBundle}, Envs!Prune(q, v)
      PROVE FALSE
  <2> DEFINE job == [Envs!Idle EXCEPT !.pc = "prune", !.bundle = v,
                                 !.list = {k \in Envs!Keys : env[k].marker} \ Envs!References(v)]
  <2>1. job.pc = "prune"
    BY DEF Envs!Idle
  <2>2. Envs!Command(q, job)
    BY <1>4 DEF Envs!Prune
  <2> HIDE DEF job
  <2> QED
    BY <1>1, <2>1, <2>2
<1>5. ASSUME NEW q \in EnvProc, Envs!RemoveEntry(q) \/ Envs!RemoveEnds(q) \/ Envs!Mkdir(q)
      PROVE FALSE
  BY <1>0, <1>5 DEF Envs!RemoveEntry, Envs!RemoveEnds, Envs!Mkdir, Envs!Goto, EnvJobs
<1>6. ASSUME NEW q \in EnvProc,
             \/ Envs!Install(q) \/ Envs!WriteHydration(q) \/ Envs!RecordRun(q)
             \/ Envs!RunnerMissing(q) \/ Envs!Crash(q)
      PROVE FALSE
  BY <1>0, <1>6 DEF Envs!Install, Envs!WriteHydration, Envs!RecordRun, Envs!RunnerMissing, Envs!Crash,
                    Envs!Goto, EnvJobs
<1>7. ASSUME NEW q \in EnvProc, Envs!PruneNext(q) PROVE FALSE
  <2>1. CASE envProc' = [envProc EXCEPT ![q] = Envs!Idle]
    BY <1>0, <2>1
  <2>2. ASSUME NEW k,
               envProc' = [envProc EXCEPT ![q].pc = "sweep", ![q].key = k, ![q].list = @ \ {k}]
        PROVE  FALSE
    BY <2>2 DEF EnvJobs
  <2> QED
    BY <1>7, <2>1, <2>2 DEF Envs!PruneNext
<1>8. ASSUME NEW q \in EnvProc, Envs!Ensure(q)
      PROVE  envProc[p].key = envProc'[p].key /\ env[envProc[p].key].marker
  BY <1>8 DEF Envs!Ensure, Envs!Goto, Envs!Registered, EnvJobs
<1>9. ASSUME NEW q \in EnvProc, Envs!RegisterEnv(q)
      PROVE  envProc[p].pc = "register" /\ envProc[p].key = envProc'[p].key
             /\ env[envProc[p].key] # Envs!NoEnv
  BY <1>0, <1>9 DEF Envs!RegisterEnv, Envs!Goto, Envs!Absent, EnvJobs
<1>10. ASSUME NEW b \in EnvBundle, Envs!Dehydrate(b) PROVE FALSE
  BY <1>10 DEF Envs!Dehydrate
<1> QED
  BY <1>2, <1>3, <1>4, <1>5, <1>6, <1>7, <1>8, <1>9, <1>10 DEF Envs!Next, Envs!Step

\* A command goes on to its probe or its inference in an env that is whole, is
\* being removed, or was: it reuses what has a marker, or has built it itself,
\* whatever other commands and crashes did (hydrate.ensure_env, run_bundle).
THEOREM ProbesFindWhole == Envs!Spec => Envs!ProbedIsWhole
<1> DEFINE Whole(k) == env[k].body = "whole" \/ Envs!Removing(k) \/ swept \/ halfClear
           Probed == \A p \in EnvProc :
             (Envs!Uses(p, "probe") \/ (Envs!Uses(p, "infer") /\ env[envProc'[p].key].marker)) =>
               LET k == envProc'[p].key IN \/ env[k].body = "whole"
                                           \/ Envs!Removing(k) \/ swept \/ halfClear
<1>1. Envs!Init => WholeInv
  BY DEF Envs!Init, Envs!Idle, Envs!NoEnv, WholeInv, DirsTyped, Dirs, MarkersHold, BuildersOwn,
         Keyed, Builders, Removers
<1>2. ASSUME EnvsTyped, EnvsTyped', WholeInv, Envs!Next PROVE Probed
  <2>0. \A k \in Envs!Keys : env[k].marker => Whole(k)
    BY <1>2 DEF WholeInv, MarkersHold
  <2>1. WholeInv'
    BY <1>2, WholeStep
  <2> SUFFICES ASSUME NEW p \in EnvProc,
                      Envs!Uses(p, "probe") \/ (Envs!Uses(p, "infer") /\ env[envProc'[p].key].marker)
               PROVE  Whole(envProc'[p].key)
    OBVIOUS
  <2>2. envProc'[p].key \in Envs!Keys
    BY <2>1 DEF WholeInv, DirsTyped, Keyed, Envs!Uses
  <2>3. CASE env[envProc'[p].key].marker
    BY <2>0, <2>2, <2>3
  <2>4. CASE ~env[envProc'[p].key].marker
    <3>1. envProc[p].pc # "probe" /\ envProc'[p].pc = "probe"
      BY <2>4 DEF Envs!Uses
    <3>2. \/ envProc[p].key = envProc'[p].key /\ env[envProc[p].key].marker
          \/ envProc[p].pc = "register" /\ envProc[p].key = envProc'[p].key
             /\ env[envProc[p].key] # Envs!NoEnv
      BY <1>2, <3>1, EntersProbe
    <3>3. CASE envProc[p].pc = "register"
      BY <1>2, <2>2, <3>2, <3>3 DEF WholeInv, BuildersOwn, Builders
    <3> QED
      BY <2>4, <3>2, <3>3
  <2> QED
    BY <2>3, <2>4
<1>3. EnvsTyped /\ EnvsTyped' /\ WholeInv /\ [Envs!Next]_Envs!vars
        => WholeInv' /\ [Probed]_Envs!vars
  BY <1>2, WholeStep
<1> QED
  BY <1>1, <1>3, PruneStands, PTL DEF Envs!Spec, Envs!ProbedIsWhole

-----------------------------------------------------------------------------
(* The classification.                                                      *)

\* What is known once the indexes have been asked for.
Facts ==
  /\ hash \in [Default!Compared -> Digest \cup {Default!Unknown}]
  /\ found \in Seq({"read", "failed"})

\* Classification counts with the operators of FiniteSets.
LEMMA SameCounting ==
  ASSUME NEW S
  PROVE  /\ (Default!IsFiniteSet(S) <=> IsFiniteSet(S))
         /\ Default!Cardinality(S) = Cardinality(S)
BY DEF Default!IsFiniteSet, IsFiniteSet, Default!Cardinality, Cardinality

\* A weight that is not fetched has its published digest in one that is: the
\* sets are disjoint, so the twin that is nearest to the root is nobody's twin
\* at a shorter distance, and all of it stays.
LEMMA TwinIsKept ==
  ASSUME Default!ClassificationAssumption, Facts, Len(found) = Len(Index),
         NEW f \in Published \ Default!Fetched
  PROVE  /\ f \in Default!Compared /\ hash[f] # Default!Unknown
         /\ \E g \in Default!Fetched \cap Default!Compared : hash[g] = hash[f]
<1> USE DEF Default!ClassificationAssumption, Facts
<1>1. ASSUME NEW S \in SUBSET Nat, S # {} PROVE \E x \in S : \A y \in S : x <= y
  <2>1. IsWellFoundedOn({ss \in Nat \X Nat : ss[1] < ss[2]}, Nat)
    BY NatLessThanWellFounded DEF OpToRel
  <2>2. PICK x \in S : \A y \in S : <<y, x>> \notin {ss \in Nat \X Nat : ss[1] < ss[2]}
    BY <1>1, <2>1, WFMin
  <2>3. \A y \in S : ~(y < x)
    BY <2>2
  <2> QED
    BY <2>3
<1>2. DOMAIN found = DOMAIN Index /\ Default!ReadIndexes \subseteq DOMAIN Index
  BY DEF Default!ReadIndexes
<1>3. \A i \in Default!ReadIndexes : Index[i] \subseteq Default!Compared
  BY <1>2 DEF Default!Compared, Default!Weights, Default!Kinds
<1>4. \A s \in Default!Sets : s \subseteq Default!Compared /\ s # {}
  BY <1>3 DEF Default!Sets, Default!Members, Default!Unclaimed, Default!Compared
<1>5. \A s, t \in Default!Sets : s \cap t # {} => s = t
  <2>1. ASSUME NEW i \in Default!ReadIndexes, NEW j \in Default!ReadIndexes,
               Default!Members(i) \cap Default!Members(j) # {}
        PROVE  i = j
    <3>1. i \in Nat /\ j \in Nat
      BY <1>2
    <3>2. ~(i < j) /\ ~(j < i)
      BY <2>1 DEF Default!Members
    <3> QED
      BY <3>1, <3>2
  <2>2. ASSUME NEW i \in Default!ReadIndexes, NEW g \in Default!Compared
        PROVE  Default!Members(i) \cap Default!Unclaimed(g) = {}
    BY DEF Default!Members, Default!Unclaimed, Default!Claimed
  <2>3. ASSUME NEW g \in Default!Compared, NEW h \in Default!Compared,
               Default!Unclaimed(g) \cap Default!Unclaimed(h) # {}
        PROVE  Default!Unclaimed(g) = Default!Unclaimed(h)
    BY <2>3 DEF Default!Unclaimed
  <2> QED
    BY <2>1, <2>2, <2>3 DEF Default!Sets
<1>6. \A s \in Default!Sets : Default!First(s) \in Nat
  <2> SUFFICES ASSUME NEW s \in Default!Sets PROVE Default!First(s) \in Nat
    OBVIOUS
  <2> DEFINE places == {g.place : g \in s}
  <2>1. places \in SUBSET Nat /\ places # {}
    BY <1>4 DEF Default!Compared, Default!Weights
  <2>2. \E x \in places : \A y \in places : x <= y
    BY <1>1, <2>1
  <2> QED
    BY <2>1, <2>2 DEF Default!First, Default!Min
<1>7. PICK s \in Default!Sets :
        f \in s /\ \E t \in Default!Sets : Default!Twins(s, t) /\ Default!First(t) < Default!First(s)
  BY DEF Default!Fetched, Default!Skipped
<1> DEFINE twins == {t \in Default!Sets : Default!Twins(s, t)}
<1>8. PICK t \in twins : \A u \in twins : Default!First(t) <= Default!First(u)
  <2> DEFINE firsts == {Default!First(u) : u \in twins}
  <2>1. firsts \in SUBSET Nat /\ firsts # {}
    BY <1>6, <1>7
  <2>2. PICK x \in firsts : \A y \in firsts : x <= y
    BY <1>1, <2>1
  <2> QED
    BY <2>2
<1>9. t \notin Default!Skipped
  <2> SUFFICES ASSUME NEW u \in Default!Sets, Default!Twins(t, u),
                      Default!First(u) < Default!First(t)
               PROVE  FALSE
    BY DEF Default!Skipped
  <2>1. u \in twins
    BY <1>8 DEF Default!Twins
  <2>2. Default!First(t) <= Default!First(u) /\ Default!First(t) \in Nat /\ Default!First(u) \in Nat
    BY <1>6, <1>8, <2>1
  <2> QED
    BY <2>2
<1>10. t \subseteq Default!Fetched
  BY <1>4, <1>5, <1>8, <1>9 DEF Default!Fetched, Default!Skipped, Default!Compared, Default!Weights
<1>11. f \in Default!Compared /\ hash[f] # Default!Unknown /\ hash[f] \in Digest
  BY <1>4, <1>7 DEF Default!Twins, Default!Hashed
<1>12. PICK g \in t : hash[g] = hash[f]
  <2> SUFFICES ASSUME {g \in t : hash[g] = hash[f]} = {} PROVE FALSE
    OBVIOUS
  <2>1. Default!Contents(s)[hash[f]] = Default!Contents(t)[hash[f]]
    BY <1>8 DEF Default!Twins
  <2>2. Cardinality({g \in s : hash[g] = hash[f]}) = Cardinality({g \in t : hash[g] = hash[f]})
    BY <1>11, <2>1, SameCounting DEF Default!Contents
  <2>3. IsFiniteSet({g \in s : hash[g] = hash[f]})
    BY <1>4, FS_Subset, SameCounting DEF Default!Compared, Default!Weights
  <2> QED
    BY <1>7, <2>2, <2>3, FS_EmptySet
<1> QED
  BY <1>4, <1>8, <1>10, <1>11, <1>12

\* Whatever the repository is and whichever indexes can be read, what the
\* default selection leaves out is kept elsewhere in the pin (classify.py,
\* build_sets, evaluate and attach_selection).
THEOREM NothingUniqueIsSkipped ==
  ASSUME Default!ClassificationAssumption PROVE Default!Spec => []Default!NothingUniqueSkipped
<1>1. Default!Init => Facts /\ Default!NothingUniqueSkipped
  BY DEF Default!Init, Facts, Default!NothingUniqueSkipped
<1>2. ASSUME Facts, Default!NothingUniqueSkipped, [Default!Next]_Default!vars
      PROVE  Facts' /\ Default!NothingUniqueSkipped'
  <2>1. CASE Default!ReadIndex
    BY <1>2, <2>1 DEF Default!ReadIndex, Facts, Default!NothingUniqueSkipped
  <2>2. CASE Default!Decide
    <3>1. pinned' = Default!Selection /\ UNCHANGED <<hash, found>> /\ Len(found) = Len(Index)
      BY <2>2 DEF Default!Decide
    <3>2. Default!Selection \in {Published, Default!Fetched}
      <4> DEFINE lists == <<Default!Compact(FALSE), Default!Compact(TRUE), Default!Explicit>>
                 held  == {i \in DOMAIN lists : Default!Verified(lists[i])}
      <4>1. held \subseteq 1..3
        OBVIOUS
      <4>2. held # {} => Default!Min(held) \in held
        <5> SUFFICES ASSUME held # {} PROVE \E x \in held : \A y \in held : x <= y
          BY DEF Default!Min
        <5>0. held # {} /\ \A x \in held : x \in 1..3
          BY <4>1
        <5> HIDE DEF held
        <5>1. CASE 1 \in held
          BY <5>0, <5>1
        <5>2. CASE 1 \notin held /\ 2 \in held
          BY <5>0, <5>2
        <5>3. CASE 1 \notin held /\ 2 \notin held /\ 3 \in held
          BY <5>0, <5>3
        <5> QED
          BY <5>0, <5>1, <5>2, <5>3
      <4>3. \A i \in held : Default!Selected(lists[i]) = Default!Fetched
        BY DEF Default!Verified
      <4> QED
        BY <4>2, <4>3 DEF Default!Selection
    <3>3. CASE Default!Selection = Published
      BY <3>1, <3>3, <1>2 DEF Facts, Default!NothingUniqueSkipped
    <3>4. CASE Default!Selection = Default!Fetched
      BY <3>1, <3>4, <1>2, TwinIsKept DEF Facts, Default!NothingUniqueSkipped
    <3> QED
      BY <3>2, <3>3, <3>4
  <2>3. CASE Default!Full
    BY <1>2, <2>3 DEF Default!Full, Facts, Default!NothingUniqueSkipped
  <2>4. CASE UNCHANGED Default!vars
    BY <1>2, <2>4
    DEF Default!vars, Facts, Default!NothingUniqueSkipped, Default!Compared, Default!Weights
  <2> QED
    BY <1>2, <2>1, <2>2, <2>3, <2>4 DEF Default!Next
<1> QED
  BY <1>1, <1>2, PTL DEF Default!Spec

-----------------------------------------------------------------------------
(* The board.                                                               *)

\* What is claimed, fetched and reported are rows.
Slots == [pc : {"idle", "pick", "lock", "transfer", "boundary"}, row : 0..BoardRows,
          next : SUBSET Volunteers!Row, seen : SUBSET Volunteers!Row, reporting : BOOLEAN]
Claims == [client : Volunteers!Client \cup {"none"}, state : {"none", "archiving", "paused", "done"},
           left : BOOLEAN]
BoardTyped ==
  /\ claim \in [Volunteers!Row -> Claims]
  /\ bundle \in [Volunteers!Client -> SUBSET Volunteers!Row]
  /\ boardProc \in [BoardProc -> Slots]
  /\ \A p \in BoardProc : boardProc[p].row # 0 <=> boardProc[p].pc \in {"lock", "transfer", "boundary"}
  /\ flight \in [BoardProc -> 0..BoardRows]

\* A report is in flight only during the transfer of its row, unless it was slow.
ReportsJoined ==
  \A p \in BoardProc : flight[p] # Volunteers!NoFlight
    => flight[p] \in shaken \/ (boardProc[p].row = flight[p] /\ boardProc[p].pc = "transfer")

\* A machine that is at a row has a claim on it that is not done - unless the
\* row was shaken or handed back, or another command of the machine has
\* registered it while this one was before the lock, which will refuse it.
Mine(r, c) == claim[r].client = c /\ claim[r].state # "done"
Held(p) ==
  LET r == boardProc[p].row
      c == ClientOf[p] IN
  r # 0 => \/ r \in shaken \cup handedBack
           \/ Mine(r, c)
           \/ boardProc[p].pc = "lock" /\ r \in bundle[c]
\* The lock of a bundle lets one command of a machine in.
OneInTransfer ==
  \A p, q \in BoardProc :
    boardProc[p].row = boardProc[q].row /\ ClientOf[p] = ClientOf[q]
      /\ {boardProc[p].pc, boardProc[q].pc} \subseteq {"transfer", "boundary"} => p = q

BoardInv ==
  /\ BoardTyped /\ ReportsJoined /\ OneInTransfer /\ Volunteers!NoDanglingClaim
  /\ \A p \in BoardProc : Held(p)

\* What a claim, a report and a release leave on the board.
LEMMA ClaimIsTyped ==
  /\ Volunteers!NoClaim \in Claims
  /\ \A c \in Volunteers!Client, state \in {"archiving", "paused", "done"} :
       [client |-> c, state |-> state, left |-> FALSE] \in Claims
BY DEF Volunteers!NoClaim, Claims

\* A set of numbers has a least one.
LEMMA LeastExists ==
  ASSUME NEW S \in SUBSET Nat, S # {} PROVE \E x \in S : \A y \in S : x <= y
<1>1. IsWellFoundedOn({ss \in Nat \X Nat : ss[1] < ss[2]}, Nat)
  BY NatLessThanWellFounded DEF OpToRel
<1>2. PICK x \in S : \A y \in S : <<y, x>> \notin {ss \in Nat \X Nat : ss[1] < ss[2]}
  BY <1>1, WFMin
<1>3. \A y \in S : ~(y < x)
  BY <1>2
<1> QED
  BY <1>3

\* A claim or a report that the board accepts for one machine takes no row from
\* a process of another.
LEMMA ClaimKeeps ==
  ASSUME Volunteers!BoardAssumption, BoardInv, NEW r \in Volunteers!Row, NEW p \in BoardProc, NEW b \in BOOLEAN,
         NEW state \in {"archiving", "paused"},
         Volunteers!Accepts(r, ClientOf[p], b), Volunteers!Claimed(r, ClientOf[p], state),
         NEW q \in BoardProc, boardProc[q].row # 0, boardProc'[q] = boardProc[q], bundle' = bundle,
         shaken \subseteq shaken', handedBack' = handedBack
  PROVE  Held(q)'
<1> DEFINE s == boardProc[q].row
<1>1. s \in Volunteers!Row /\ ClientOf[q] # "none" /\ ClientOf[q] \in Volunteers!Client
  BY DEF BoardInv, BoardTyped, Claims, Slots, Volunteers!BoardAssumption, Volunteers!Client, Volunteers!Row
<1>2. CASE s # r
  BY <1>1, <1>2 DEF BoardInv, BoardTyped, Claims, Held, Mine, Volunteers!Claimed
<1>3. CASE s = r /\ ClientOf[q] = ClientOf[p]
  BY <1>1, <1>3 DEF BoardInv, BoardTyped, Claims, Held, Mine, Volunteers!Claimed
<1>4. CASE s = r /\ ClientOf[q] # ClientOf[p]
  BY <1>1, <1>4 DEF BoardInv, BoardTyped, Claims, Held, Mine, Volunteers!Claimed, Volunteers!Accepts
<1> QED
  BY <1>2, <1>3, <1>4

\* An empty board satisfies the invariant.
LEMMA BoardStarts == ASSUME Volunteers!BoardAssumption, Volunteers!Init PROVE BoardInv
BY DEF Volunteers!BoardAssumption, Volunteers!Init, Volunteers!Idle, Volunteers!NoClaim, Volunteers!NoFlight, Volunteers!NoDanglingClaim, BoardInv,
  BoardTyped, Claims, Slots, ReportsJoined, OneInTransfer, Held

\* Every step of a process, a client or the board keeps it.
LEMMA BoardStep ==
  ASSUME Volunteers!BoardAssumption, BoardInv, [Volunteers!Next]_Volunteers!vars
  PROVE  BoardInv'
<1> USE DEF Volunteers!BoardAssumption, Volunteers!Counts, Volunteers!Remote, Volunteers!NoFlight
<1>0. /\ \A p \in BoardProc : ClientOf[p] \in Volunteers!Client /\ ClientOf[p] # "none"
      /\ Volunteers!Idle \in Slots /\ Volunteers!Idle.row = 0 /\ Volunteers!Idle.pc = "idle"
      /\ 0 \notin Volunteers!Row /\ Volunteers!Row \subseteq 0..BoardRows /\ 0 \in 0..BoardRows
  BY DEF Volunteers!Client, Volunteers!Idle, Slots, Volunteers!Row
<1>1. ASSUME NEW p \in BoardProc, Volunteers!PickNext(p) PROVE BoardInv'
  <2> DEFINE job == [Volunteers!Idle EXCEPT !.pc = "pick",
                            !.next = Volunteers!Row \ bundle[ClientOf[p]],
                            !.seen = {r \in Volunteers!Row : status[r] = "have"}]
  <2>1. job \in Slots /\ job.pc = "pick" /\ job.row = 0
    BY <1>0 DEF Slots, Volunteers!Idle
  <2>2. boardProc' = [boardProc EXCEPT ![p] = job] /\ UNCHANGED <<claim, bundle, flight, shaken, handedBack>>
    BY <1>1 DEF Volunteers!PickNext
  <2>3. boardProc[p].row = 0
    BY <1>0, <1>1 DEF Volunteers!PickNext
  <2> HIDE DEF job
  <2> QED
    BY <2>1, <2>2, <2>3 DEF BoardInv, BoardTyped, Claims, ReportsJoined,
       OneInTransfer, Volunteers!NoDanglingClaim, Held, Mine
<1>2. ASSUME NEW p \in BoardProc, NEW r \in Volunteers!Row, NEW b \in BOOLEAN,
             boardProc[p].row = 0, UNCHANGED <<bundle, flight, shaken, handedBack>>,
             Volunteers!Accepts(r, ClientOf[p], b), Volunteers!Claimed(r, ClientOf[p], "archiving"),
             boardProc' = [boardProc EXCEPT ![p].pc = "lock", ![p].row = r]
      PROVE  BoardInv'
  <2>1. BoardTyped'
    BY <1>0, <1>2 DEF BoardInv, BoardTyped, Claims, Slots, Volunteers!Claimed, Volunteers!Row
  <2>2. boardProc'[p].pc = "lock" /\ boardProc'[p].row = r /\ \A q \in BoardProc \ {p} : boardProc'[q] = boardProc[q]
    BY <1>2 DEF BoardInv, BoardTyped, Claims, Slots
  <2>3. ReportsJoined' /\ OneInTransfer'
    BY <1>2, <2>2 DEF BoardInv, BoardTyped, Claims, ReportsJoined, OneInTransfer
  <2>4. Volunteers!NoDanglingClaim'
    <3>1. /\ claim'[r] = [client |-> ClientOf[p], state |-> "archiving", left |-> FALSE]
          /\ \A s \in Volunteers!Row \ {r} : claim'[s] = claim[s]
      BY <1>2 DEF BoardInv, BoardTyped, Claims, Volunteers!Claimed
    <3>2. \A q \in BoardProc : boardProc[q].row \in Volunteers!Row => boardProc'[q].row = boardProc[q].row
      BY <1>0, <1>2, <2>2
    <3> SUFFICES ASSUME NEW s \in Volunteers!Row, claim'[s].state = "archiving", s \notin shaken', ~claim'[s].left
                 PROVE  \E q \in BoardProc : ClientOf[q] = claim'[s].client /\ boardProc'[q].row = s
      BY DEF Volunteers!NoDanglingClaim
    <3>3. CASE s = r
      BY <2>2, <3>1, <3>3
    <3>4. CASE s # r
      <4>1. PICK q \in BoardProc : ClientOf[q] = claim[s].client /\ boardProc[q].row = s
        BY <1>2, <3>1, <3>4 DEF BoardInv, Volunteers!NoDanglingClaim
      <4> QED
        BY <3>1, <3>2, <3>4, <4>1
    <3> QED
      BY <3>3, <3>4
  <2>5. \A q \in BoardProc \ {p} : Held(q)'
    <3>1. \A q \in BoardProc \ {p} : boardProc[q].row # 0 => Held(q)'
      BY <1>2, <2>2, ClaimKeeps
    <3> QED
      BY <2>2, <3>1 DEF Held
  <2>6. Held(p)'
    BY <1>2, <2>2 DEF Held, Mine, Volunteers!Claimed, BoardInv, BoardTyped
  <2> QED
    BY <2>1, <2>3, <2>4, <2>5, <2>6 DEF BoardInv
<1>3. ASSUME NEW p \in BoardProc, boardProc' = [boardProc EXCEPT ![p] = Volunteers!Idle],
             UNCHANGED <<bundle, flight, claim, handedBack>>,
             shaken' = shaken \/ shaken' = shaken \cup {boardProc[p].row},
             boardProc[p].row # 0 => shaken' = shaken \cup {boardProc[p].row}
      PROVE  BoardInv'
  BY <1>0, <1>3 DEF BoardInv, BoardTyped, Claims, ReportsJoined,
       OneInTransfer, Volunteers!NoDanglingClaim, Held, Mine
<1>4. ASSUME NEW p \in BoardProc, Volunteers!Pick(p) PROVE BoardInv'
  <2> DEFINE r == Volunteers!Min(boardProc[p].next)
  <2>0. boardProc[p].row = 0 /\ boardProc[p].next \subseteq Volunteers!Row
    BY <1>4 DEF Volunteers!Pick, BoardInv, BoardTyped, Claims, Slots
  <2>1. CASE boardProc[p].next = {}
    BY <1>0, <1>4, <2>0, <2>1 DEF Volunteers!Pick, Volunteers!Ends, BoardInv, BoardTyped, ReportsJoined,
       OneInTransfer, Volunteers!NoDanglingClaim, Held, Mine, Volunteers!Lost
  <2>2. CASE boardProc[p].next # {}
    <3>1. r \in Volunteers!Row
      <4>1. \E x \in boardProc[p].next : \A y \in boardProc[p].next : x <= y
        BY <2>0, <2>2, LeastExists DEF Volunteers!Row
      <4> QED
        BY <2>0, <4>1 DEF Volunteers!Min
    <3>2. CASE /\ Volunteers!Accepts(r, ClientOf[p], FALSE)
               /\ Volunteers!Claimed(r, ClientOf[p], "archiving")
               /\ boardProc' = [boardProc EXCEPT ![p].pc = "lock", ![p].row = r]
               /\ UNCHANGED <<bundle, flight, shaken, handedBack>>
      BY <1>2, <2>0, <3>1, <3>2
    <3>3. CASE /\ boardProc' = [boardProc EXCEPT ![p].next = @ \ {r}]
               /\ UNCHANGED <<claim, bundle, flight, shaken, handedBack>>
      <4> DEFINE job == [boardProc[p] EXCEPT !.next = @ \ {r}]
      <4>1. boardProc[p] \in Slots
        BY DEF BoardInv, BoardTyped, Claims
      <4>2. /\ job \in Slots /\ job.pc = boardProc[p].pc /\ job.row = boardProc[p].row
            /\ job.reporting = boardProc[p].reporting
        BY <4>1 DEF Slots
      <4>3. boardProc' = [boardProc EXCEPT ![p] = job]
        BY <3>3
      <4> HIDE DEF job
      <4>4. BoardTyped'
        BY <3>3, <4>2, <4>3 DEF BoardInv, BoardTyped, Claims
      <4>5. \A q \in BoardProc : /\ boardProc'[q].pc = boardProc[q].pc
                               /\ boardProc'[q].row = boardProc[q].row
                               /\ boardProc'[q].reporting = boardProc[q].reporting
        BY <4>2, <4>3 DEF BoardInv, BoardTyped, Claims
      <4>6. ReportsJoined'
        BY <3>3, <4>5 DEF BoardInv, ReportsJoined
      <4>7. \A q \in BoardProc : Held(q)'
        BY <3>3, <4>5 DEF BoardInv, Held, Mine
      <4>8. OneInTransfer' /\ Volunteers!NoDanglingClaim'
        BY <3>3, <4>5 DEF BoardInv, OneInTransfer, Volunteers!NoDanglingClaim
      <4> QED
        BY <4>4, <4>6, <4>7, <4>8 DEF BoardInv
    <3>4. CASE Volunteers!Lost(r) /\ Volunteers!Ends(p) /\ UNCHANGED <<bundle, flight, handedBack>>
      BY <1>0, <2>0, <3>1, <3>4 DEF Volunteers!Lost, Volunteers!Ends, BoardInv, BoardTyped, ReportsJoined,
       OneInTransfer, Volunteers!NoDanglingClaim, Held, Mine
    <3> HIDE DEF r
    <3> QED
      BY <1>4, <2>2, <3>2, <3>3, <3>4 DEF Volunteers!Pick, Volunteers!Taken, r
  <2> QED
    BY <2>1, <2>2
<1>5. ASSUME NEW p \in BoardProc, NEW r \in Volunteers!Row, Volunteers!Name(p, r) PROVE BoardInv'
  <2>1. boardProc[p].row = 0
    BY <1>5, <1>0 DEF Volunteers!Name
  <2>2. CASE Volunteers!Accepts(r, ClientOf[p], TRUE)
    BY <1>5, <2>1, <2>2, <1>2 DEF Volunteers!Name
  <2>3. CASE ~Volunteers!Accepts(r, ClientOf[p], TRUE)
    BY <1>5, <2>3 DEF Volunteers!Name, BoardInv, BoardTyped, ReportsJoined,
       OneInTransfer, Volunteers!NoDanglingClaim, Held, Mine
  <2> QED
    BY <2>2, <2>3
<1>6. ASSUME NEW p \in BoardProc, Volunteers!Begin(p) PROVE BoardInv'
  <2> DEFINE job == [boardProc[p] EXCEPT !.pc = "transfer", !.reporting = TRUE]
  <2>0. boardProc[p] \in Slots /\ boardProc[p].pc = "lock" /\ boardProc[p].row # 0
    BY <1>6 DEF Volunteers!Begin, BoardInv, BoardTyped
  <2>1. job \in Slots /\ job.pc = "transfer" /\ job.row = boardProc[p].row
    BY <2>0 DEF Slots
  <2>2. boardProc' = [boardProc EXCEPT ![p] = job] /\ UNCHANGED <<claim, bundle, flight, shaken, handedBack>>
    BY <1>6 DEF Volunteers!Begin
  <2>3. \A q \in BoardProc \ {p} : ~(boardProc[q].row = boardProc[p].row /\ ClientOf[q] = ClientOf[p]
                                /\ boardProc[q].pc \in {"transfer", "boundary"})
    BY <1>6 DEF Volunteers!Begin, Volunteers!Blocked, Volunteers!Twins, Volunteers!InTransfer
  <2>4. boardProc[p].row \notin bundle[ClientOf[p]]
    BY <1>6 DEF Volunteers!Begin, Volunteers!Blocked
  <2> HIDE DEF job
  <2>5. boardProc'[p] = job /\ \A q \in BoardProc \ {p} : boardProc'[q] = boardProc[q]
    BY <2>2 DEF BoardInv, BoardTyped, Claims
  <2>6. BoardTyped'
    BY <2>0, <2>1, <2>2 DEF BoardInv, BoardTyped, Claims
  <2>7. ReportsJoined' /\ Volunteers!NoDanglingClaim'
    BY <2>0, <2>1, <2>2, <2>5 DEF BoardInv, ReportsJoined, Volunteers!NoDanglingClaim
  <2>8. OneInTransfer'
    BY <2>1, <2>3, <2>5 DEF BoardInv, OneInTransfer
  <2>9. \A q \in BoardProc : Held(q)'
    BY <2>1, <2>2, <2>4, <2>5 DEF BoardInv, Held, Mine
  <2> QED
    BY <2>6, <2>7, <2>8, <2>9 DEF BoardInv

<1>7. ASSUME NEW p \in BoardProc, boardProc[p].pc \in {"lock", "boundary"}, boardProc' = [boardProc EXCEPT ![p] = Volunteers!Idle],
             Volunteers!Released(boardProc[p].row, ClientOf[p]), Volunteers!HandsBack(p), UNCHANGED <<bundle, flight, shaken>>
      PROVE  BoardInv'
  <2> DEFINE r == boardProc[p].row
             c == ClientOf[p]
  <2>0. r \in Volunteers!Row /\ r # 0
    BY <1>7 DEF BoardInv, BoardTyped, Claims, Slots, Volunteers!Row
  <2>1. c \in Volunteers!Client /\ c # "none" /\ boardProc'[p] = Volunteers!Idle
        /\ \A q \in BoardProc \ {p} : boardProc'[q] = boardProc[q]
    BY <1>0, <1>7, <2>0 DEF BoardInv, BoardTyped, Claims
  <2>2. /\ claim' = IF claim[r].client = c
                    THEN [claim EXCEPT ![r] = [client |-> "none", state |-> "none", left |-> FALSE]] ELSE claim
        /\ handedBack \subseteq handedBack'
        /\ \A q \in BoardProc \ {p} : ClientOf[q] = c /\ boardProc[q].row = r => r \in handedBack'
    BY <1>7 DEF Volunteers!Released, Volunteers!NoClaim, Volunteers!HandsBack, Volunteers!Twins
  <2>3. BoardTyped'
    BY <1>0, <1>7, <2>0, <2>1, <2>2 DEF BoardInv, BoardTyped, Claims
  <2>4. ReportsJoined' /\ OneInTransfer'
    BY <1>0, <1>7, <2>0, <2>1 DEF BoardInv, ReportsJoined, OneInTransfer
  <2>5. Volunteers!NoDanglingClaim'
    BY <1>0, <1>7, <2>0, <2>1, <2>2 DEF BoardInv, BoardTyped, Claims, Volunteers!NoDanglingClaim
  <2>6. \A q \in BoardProc : Held(q)'
    <3>1. Held(p)'
      BY <1>0, <2>1 DEF Held
    <3>2. ASSUME NEW q \in BoardProc \ {p} PROVE Held(q)'
      <4>1. CASE ClientOf[q] = c /\ boardProc[q].row = r
        BY <2>1, <2>2, <4>1 DEF Held
      <4>2. CASE ~(ClientOf[q] = c /\ boardProc[q].row = r)
        BY <1>7, <2>0, <2>1, <2>2, <4>2 DEF BoardInv, BoardTyped, Claims, Held, Mine
      <4> QED
        BY <4>1, <4>2
    <3> QED
      BY <3>1, <3>2
  <2> QED
    BY <2>3, <2>4, <2>5, <2>6 DEF BoardInv
<1>8. ASSUME NEW p \in BoardProc, boardProc[p].row # 0, NEW r, Volunteers!Lost(r), r = boardProc[p].row,
             boardProc' = [boardProc EXCEPT ![p] = Volunteers!Idle], UNCHANGED <<flight, handedBack>>,
             bundle' \in [Volunteers!Client -> SUBSET Volunteers!Row], \A c \in Volunteers!Client : bundle[c] \subseteq bundle'[c]
      PROVE  BoardInv'
  BY <1>0, <1>8 DEF Volunteers!Lost, BoardInv, BoardTyped, ReportsJoined,
       OneInTransfer, Volunteers!NoDanglingClaim, Held, Mine
<1>9. ASSUME NEW p \in BoardProc, boardProc[p].row # 0, boardProc[p].pc \in {"lock", "boundary"}, NEW state \in {"paused", "done"},
             boardProc' = [boardProc EXCEPT ![p] = Volunteers!Idle], UNCHANGED <<flight, shaken, handedBack>>,
             IF Volunteers!Accepts(boardProc[p].row, ClientOf[p], FALSE)
               THEN Volunteers!Claimed(boardProc[p].row, ClientOf[p], state) ELSE UNCHANGED Volunteers!Remote,
             bundle' = IF state = "done" THEN [bundle EXCEPT ![ClientOf[p]] = @ \cup {boardProc[p].row}] ELSE bundle,
             state = "done" => boardProc[p].pc = "boundary"
      PROVE  BoardInv'
  <2> DEFINE r == boardProc[p].row
             c == ClientOf[p]
  <2>0. r \in Volunteers!Row /\ r # 0 /\ c \in Volunteers!Client /\ c # "none"
    BY <1>0, <1>9 DEF BoardInv, BoardTyped, Claims, Slots, Volunteers!Row
  <2>1. boardProc'[p] = Volunteers!Idle /\ \A q \in BoardProc \ {p} : boardProc'[q] = boardProc[q]
    BY <1>9 DEF BoardInv, BoardTyped, Claims
  <2>2. \/ claim' = [claim EXCEPT ![r] = [client |-> c, state |-> state, left |-> FALSE]]
        \/ claim' = claim
    BY <1>9 DEF Volunteers!Claimed
  <2>3. bundle' \in [Volunteers!Client -> SUBSET Volunteers!Row] /\ \A d \in Volunteers!Client : bundle[d] \subseteq bundle'[d]
    BY <1>9, <2>0 DEF BoardInv, BoardTyped, Claims
  <2>4. BoardTyped'
    <3>0. [client |-> c, state |-> state, left |-> FALSE] \in Claims
      BY <2>0, ClaimIsTyped
    <3>1. claim' \in [Volunteers!Row -> Claims]
      BY <2>0, <2>2, <3>0 DEF BoardInv, BoardTyped
    <3> QED
      BY <1>0, <1>9, <2>0, <2>1, <2>3, <3>1 DEF BoardInv, BoardTyped
  <2>5. ReportsJoined' /\ OneInTransfer'
    BY <1>0, <1>9, <2>0, <2>1 DEF BoardInv, ReportsJoined, OneInTransfer
  <2>6. ASSUME NEW s \in Volunteers!Row, claim'[s].state = "archiving", s \notin shaken', ~claim'[s].left
        PROVE  \E q \in BoardProc : ClientOf[q] = claim'[s].client /\ boardProc'[q].row = s
    <3>1. claim'[s] = claim[s] /\ (s = r => ~Volunteers!Accepts(r, c, FALSE))
      <4>1. CASE Volunteers!Accepts(r, c, FALSE)
        <5>1. claim' = [claim EXCEPT ![r] = [client |-> c, state |-> state, left |-> FALSE]] /\ state # "archiving"
          BY <1>9, <4>1 DEF Volunteers!Claimed
        <5> QED
          BY <2>0, <2>6, <5>1 DEF BoardInv, BoardTyped, Claims
      <4>2. CASE ~Volunteers!Accepts(r, c, FALSE)
        BY <1>9, <4>2
      <4> QED
        BY <4>1, <4>2
    <3>2. PICK q \in BoardProc : ClientOf[q] = claim[s].client /\ boardProc[q].row = s
      BY <1>9, <2>6, <3>1 DEF BoardInv, Volunteers!NoDanglingClaim
    <3>3. q # p
      BY <2>6, <3>1, <3>2 DEF Volunteers!Accepts
    <3> QED
      BY <2>1, <3>1, <3>2, <3>3
  <2>7. ASSUME NEW q \in BoardProc \ {p}, boardProc[q].row # 0 PROVE Held(q)'
    <3>0. boardProc[q].row \in Volunteers!Row /\ ClientOf[q] \in Volunteers!Client /\ ClientOf[q] # "none"
      BY <1>0, <2>7 DEF BoardInv, BoardTyped, Claims, Slots, Volunteers!Row
    <3>1. CASE boardProc[q].row # r
      BY <1>9, <2>0, <2>1, <2>2, <2>3, <2>7, <3>0, <3>1 DEF BoardInv, BoardTyped, Claims, Held, Mine
    <3>2. CASE boardProc[q].row = r /\ ClientOf[q] = c /\ state = "done"
      <4>1. boardProc[q].pc = "lock"
        BY <1>9, <2>0, <2>7, <3>2 DEF BoardInv, OneInTransfer, BoardTyped
      <4>2. r \in bundle'[c]
        BY <1>9, <2>0, <3>2 DEF BoardInv, BoardTyped, Claims
      <4> QED
        BY <2>1, <3>2, <4>1, <4>2 DEF Held
    <3>3. CASE boardProc[q].row = r /\ ClientOf[q] = c /\ state # "done"
      BY <1>9, <2>0, <2>1, <2>2, <2>3, <2>7, <3>0, <3>3 DEF BoardInv, BoardTyped, Claims, Held, Mine
    <3>4. CASE boardProc[q].row = r /\ ClientOf[q] # c
      BY <1>9, <2>0, <2>1, <2>2, <2>3, <2>7, <3>0, <3>4 DEF BoardInv, BoardTyped, Claims, Held, Mine, Volunteers!Accepts
    <3> QED
      BY <3>1, <3>2, <3>3, <3>4
  <2>8. \A q \in BoardProc : Held(q)'
    BY <1>0, <2>1, <2>7 DEF Held
  <2> QED
    BY <2>4, <2>5, <2>6, <2>8 DEF BoardInv, Volunteers!NoDanglingClaim
<1>10. ASSUME NEW p \in BoardProc, Volunteers!Refused(p) PROVE BoardInv'
  BY <1>7, <1>8, <1>10 DEF Volunteers!Refused, Volunteers!Ends, BoardInv, BoardTyped
<1>11. ASSUME NEW p \in BoardProc, Volunteers!Interrupted(p) PROVE BoardInv'
  BY <1>9, <1>11 DEF Volunteers!Interrupted, Volunteers!Ends, BoardInv, BoardTyped
<1>12. ASSUME NEW p \in BoardProc, Volunteers!Boundary(p) PROVE BoardInv'
  <2>1. PICK end \in {"paused", "done", "refused"} :
       /\ bundle' = IF end = "done" THEN [bundle EXCEPT ![ClientOf[p]] = @ \cup {boardProc[p].row}] ELSE bundle
       /\ \/ /\ IF end = "refused" THEN Volunteers!Released(boardProc[p].row, ClientOf[p])
                ELSE IF Volunteers!Accepts(boardProc[p].row, ClientOf[p], FALSE)
                     THEN Volunteers!Claimed(boardProc[p].row, ClientOf[p], end) ELSE UNCHANGED Volunteers!Remote
             /\ IF end = "refused" THEN Volunteers!HandsBack(p) ELSE UNCHANGED handedBack
             /\ UNCHANGED <<boardFaults, shaken>>
          \/ Volunteers!Lost(boardProc[p].row) /\ UNCHANGED handedBack
    BY <1>12 DEF Volunteers!Boundary
  <2>2. boardProc[p].pc = "boundary" /\ boardProc[p].row # 0 /\ boardProc' = [boardProc EXCEPT ![p] = Volunteers!Idle] /\ flight' = flight
    BY <1>12 DEF Volunteers!Boundary, Volunteers!Ends, BoardInv, BoardTyped
  <2>3. CASE Volunteers!Lost(boardProc[p].row) /\ UNCHANGED handedBack
    <3>1. boardProc[p].row \in Volunteers!Row /\ ClientOf[p] \in Volunteers!Client
      BY <1>0, <2>2 DEF BoardInv, BoardTyped, Claims, Slots, Volunteers!Row
    <3>2. bundle' \in [Volunteers!Client -> SUBSET Volunteers!Row] /\ \A d \in Volunteers!Client : bundle[d] \subseteq bundle'[d]
      BY <2>1, <3>1 DEF BoardInv, BoardTyped, Claims
    <3> QED
      BY <1>8, <2>2, <2>3, <3>2
  <2>4. CASE end = "refused" /\ ~(Volunteers!Lost(boardProc[p].row) /\ UNCHANGED handedBack)
    BY <1>7, <2>1, <2>2, <2>4
  <2>5. CASE end # "refused" /\ ~(Volunteers!Lost(boardProc[p].row) /\ UNCHANGED handedBack)
    BY <1>9, <2>1, <2>2, <2>5
  <2> QED
    BY <2>3, <2>4, <2>5
<1>13. ASSUME NEW p \in BoardProc, Volunteers!Tick(p) PROVE BoardInv'
  BY <1>13 DEF Volunteers!Tick, BoardInv, BoardTyped, Claims, Slots, ReportsJoined,
       OneInTransfer, Volunteers!NoDanglingClaim, Held, Mine
<1>14. ASSUME NEW p \in BoardProc, Volunteers!StopReports(p) PROVE BoardInv'
  <2> DEFINE job == [boardProc[p] EXCEPT !.pc = "boundary", !.reporting = FALSE]
  <2>0. boardProc[p] \in Slots /\ boardProc[p].pc = "transfer" /\ boardProc[p].row # 0
    BY <1>14 DEF Volunteers!StopReports, BoardInv, BoardTyped
  <2>1. job \in Slots /\ job.pc = "boundary" /\ job.row = boardProc[p].row
    BY <2>0 DEF Slots
  <2>2. /\ boardProc' = [boardProc EXCEPT ![p] = job] /\ UNCHANGED <<claim, bundle, flight, handedBack>>
        /\ shaken \subseteq shaken'
        /\ flight[p] # 0 => boardProc[p].row \in shaken'
    BY <1>14 DEF Volunteers!StopReports, Volunteers!Joined
  <2> HIDE DEF job
  <2>3. boardProc'[p] = job /\ \A q \in BoardProc \ {p} : boardProc'[q] = boardProc[q]
    BY <2>2 DEF BoardInv, BoardTyped, Claims
  <2>4. BoardTyped'
    BY <2>0, <2>1, <2>2 DEF BoardInv, BoardTyped, Claims
  <2>5. ReportsJoined' /\ OneInTransfer'
    BY <2>0, <2>1, <2>2, <2>3 DEF BoardInv, ReportsJoined, OneInTransfer
  <2>6. Volunteers!NoDanglingClaim'
    BY <2>0, <2>1, <2>2, <2>3 DEF BoardInv, Volunteers!NoDanglingClaim
  <2>7. \A q \in BoardProc : Held(q)'
    BY <2>0, <2>1, <2>2, <2>3 DEF BoardInv, Held, Mine
  <2> QED
    BY <2>4, <2>5, <2>6, <2>7 DEF BoardInv
<1>15. ASSUME NEW p \in BoardProc, Volunteers!Crash(p) PROVE BoardInv'
  BY <1>0, <1>15 DEF Volunteers!Crash, Volunteers!Ends, BoardInv, BoardTyped, ReportsJoined,
       OneInTransfer, Volunteers!NoDanglingClaim, Held, Mine
<1>16. ASSUME NEW r \in Volunteers!Row, Volunteers!Expire(r) PROVE BoardInv'
  BY <1>16, ClaimIsTyped DEF Volunteers!Expire, Volunteers!NoClaim, BoardInv, BoardTyped, ReportsJoined,
       OneInTransfer, Volunteers!NoDanglingClaim, Held, Mine
<1>17. CASE UNCHANGED Volunteers!vars \/ \E r \in Volunteers!Row : Volunteers!CheckOff(r)
  BY <1>17 DEF Volunteers!CheckOff, Volunteers!vars, BoardInv, BoardTyped, ReportsJoined,
       OneInTransfer, Volunteers!NoDanglingClaim, Held, Mine
<1>18. ASSUME NEW p \in BoardProc, Volunteers!Arrive(p) PROVE BoardInv'
  <2> DEFINE r == flight[p]
             c == ClientOf[p]
  <2>0. r \in Volunteers!Row /\ r # 0 /\ c \in Volunteers!Client /\ c # "none"
    BY <1>0, <1>18 DEF Volunteers!Arrive, BoardInv, BoardTyped, Volunteers!Row
  <2>1. flight' = [flight EXCEPT ![p] = 0] /\ UNCHANGED <<bundle, handedBack>> /\ shaken \subseteq shaken'
    BY <1>18 DEF Volunteers!Arrive, Volunteers!Lost
  <2>2. /\ boardProc' \in [BoardProc -> Slots]
        /\ \A q \in BoardProc : boardProc'[q].row = boardProc[q].row /\ boardProc'[q].pc = boardProc[q].pc
    <3>1. PICK ok \in BOOLEAN :
            boardProc' = boardProc \/ boardProc' = [boardProc EXCEPT ![p].reporting = boardProc[p].reporting /\ ok]
      <4>1. Volunteers!Accepts(r, c, FALSE) \in BOOLEAN
        BY DEF Volunteers!Accepts
      <4> QED
        BY <1>18, <4>1 DEF Volunteers!Arrive
    <3>2. CASE boardProc' = boardProc
      BY <3>2 DEF BoardInv, BoardTyped, Claims
    <3>3. CASE boardProc' = [boardProc EXCEPT ![p].reporting = boardProc[p].reporting /\ ok]
      <4> DEFINE on  == boardProc[p].reporting /\ ok
                 job == [boardProc[p] EXCEPT !.reporting = on]
      <4>1. boardProc[p] \in Slots
        BY DEF BoardInv, BoardTyped, Claims
      <4>2. on \in BOOLEAN
        OBVIOUS
      <4> HIDE DEF on
      <4>3. job \in Slots /\ job.pc = boardProc[p].pc /\ job.row = boardProc[p].row
        BY <4>1, <4>2 DEF Slots
      <4>4. boardProc' = [boardProc EXCEPT ![p] = job]
        BY <3>3 DEF on
      <4> HIDE DEF job
      <4> QED
        BY <4>3, <4>4 DEF BoardInv, BoardTyped, Claims
    <3> QED
      BY <3>1, <3>2, <3>3
  <2>3. /\ \/ claim' = claim
           \/ /\ Volunteers!Accepts(r, c, FALSE)
              /\ claim'[r].client = c /\ claim'[r].state = "archiving"
              /\ \A s \in Volunteers!Row \ {r} : claim'[s] = claim[s]
        /\ claim' \in [Volunteers!Row -> Claims]
    <3>1. \/ claim' = claim
          \/ Volunteers!Accepts(r, c, FALSE) /\ claim' = [claim EXCEPT ![r] = [client |-> c, state |-> "archiving", left |-> FALSE]]
      BY <1>18 DEF Volunteers!Arrive, Volunteers!Claimed, Volunteers!Lost
    <3>2. CASE claim' = claim
      BY <3>2 DEF BoardInv, BoardTyped, Claims
    <3>3. CASE /\ Volunteers!Accepts(r, c, FALSE)
               /\ claim' = [claim EXCEPT ![r] = [client |-> c, state |-> "archiving", left |-> FALSE]]
      BY <2>0, <3>3, ClaimIsTyped DEF BoardInv, BoardTyped
    <3> QED
      BY <3>1, <3>2, <3>3
  <2>9. r \in shaken \/ boardProc[p].row = r
    BY <2>0 DEF BoardInv, ReportsJoined
  <2> HIDE DEF r, c
  <2>4. BoardTyped'
    <3>1. flight' \in [BoardProc -> 0..BoardRows] /\ bundle' \in [Volunteers!Client -> SUBSET Volunteers!Row]
      BY <1>0, <2>1 DEF BoardInv, BoardTyped, Claims
    <3>2. \A q \in BoardProc : boardProc'[q].row # 0 <=> boardProc'[q].pc \in {"lock", "transfer", "boundary"}
      BY <2>2 DEF BoardInv, BoardTyped, Claims
    <3> QED
      BY <2>2, <2>3, <3>1, <3>2 DEF BoardTyped
  <2>5. ReportsJoined' /\ OneInTransfer'
    BY <2>0, <2>1, <2>2 DEF BoardInv, BoardTyped, Claims, ReportsJoined, OneInTransfer
  <2>6. Volunteers!NoDanglingClaim'
    <3> SUFFICES ASSUME NEW s \in Volunteers!Row, claim'[s].state = "archiving", s \notin shaken', ~claim'[s].left
                 PROVE  \E q \in BoardProc : ClientOf[q] = claim'[s].client /\ boardProc'[q].row = s
      BY DEF Volunteers!NoDanglingClaim
    <3>1. CASE claim' # claim /\ s = r
      BY <2>1, <2>2, <2>3, <2>9, <3>1 DEF c
    <3>2. CASE claim' = claim \/ s # r
      <4>1. claim'[s] = claim[s]
        BY <2>3, <3>2
      <4>2. PICK q \in BoardProc : ClientOf[q] = claim[s].client /\ boardProc[q].row = s
        BY <2>1, <4>1 DEF BoardInv, Volunteers!NoDanglingClaim
      <4> QED
        BY <2>2, <4>1, <4>2
    <3> QED
      BY <3>1, <3>2
  <2>7. ASSUME NEW q \in BoardProc, boardProc[q].row # 0 PROVE Held(q)'
    <3>0. boardProc[q].row \in Volunteers!Row /\ ClientOf[q] \in Volunteers!Client /\ ClientOf[q] # "none"
      BY <1>0, <2>7 DEF BoardInv, BoardTyped, Claims, Slots, Volunteers!Row
    <3>1. CASE boardProc[q].row # r \/ claim' = claim
      <4>1. claim'[boardProc[q].row] = claim[boardProc[q].row]
        BY <2>3, <3>0, <3>1
      <4> QED
        BY <2>1, <2>2, <3>0, <4>1 DEF BoardInv, Held, Mine
    <3>2. CASE boardProc[q].row = r /\ ClientOf[q] = c /\ claim' # claim
      BY <2>2, <2>3, <3>2 DEF Held, Mine
    <3>3. CASE boardProc[q].row = r /\ ClientOf[q] # c /\ claim' # claim
      BY <2>0, <2>1, <2>2, <2>3, <2>7, <3>0, <3>3 DEF BoardInv, BoardTyped, Claims, Held, Mine, Volunteers!Accepts
    <3> QED
      BY <3>1, <3>2, <3>3
  <2>8. \A q \in BoardProc : Held(q)'
    BY <2>2, <2>7 DEF Held
  <2> QED
    BY <2>4, <2>5, <2>6, <2>8 DEF BoardInv
<1>19. ASSUME NEW p \in BoardProc, Volunteers!Leave(p) PROVE BoardInv'
  <2> DEFINE r == boardProc[p].row
             c == ClientOf[p]
  <2>0. r \in Volunteers!Row /\ r # 0 /\ c \in Volunteers!Client /\ boardProc[p].pc \in {"lock", "boundary"}
    BY <1>0, <1>19 DEF Volunteers!Leave, BoardInv, BoardTyped, Claims, Slots, Volunteers!Row
  <2>1. boardProc'[p] = Volunteers!Idle /\ \A q \in BoardProc \ {p} : boardProc'[q] = boardProc[q]
    BY <1>19 DEF Volunteers!Leave, Volunteers!Ends, BoardInv, BoardTyped
  <2>2. /\ claim' = IF claim[r].client = c THEN [claim EXCEPT ![r].left = TRUE] ELSE claim
        /\ UNCHANGED <<flight, shaken, handedBack>>
        /\ boardProc' = [boardProc EXCEPT ![p] = Volunteers!Idle]
        /\ bundle' \in {bundle, [bundle EXCEPT ![c] = @ \cup {r}]}
    BY <1>19 DEF Volunteers!Leave, Volunteers!Ends
  <2>3. /\ bundle' \in [Volunteers!Client -> SUBSET Volunteers!Row]
        /\ \A d \in Volunteers!Client : bundle[d] \subseteq bundle'[d]
    BY <2>0, <2>2 DEF BoardInv, BoardTyped, Claims
  <2>4. /\ claim' \in [Volunteers!Row -> Claims]
        /\ \A s \in Volunteers!Row : claim'[s].client = claim[s].client /\ claim'[s].state = claim[s].state
        /\ \A s \in Volunteers!Row \ {r} : claim'[s] = claim[s]
        /\ claim[r].client = c => claim'[r].left
        /\ claim[r].client # c => claim' = claim
    <3> DEFINE record == [claim[r] EXCEPT !.left = TRUE]
    <3>1. claim \in [Volunteers!Row -> Claims]
      BY DEF BoardInv, BoardTyped
    <3>2. /\ record \in Claims /\ record.client = claim[r].client /\ record.state = claim[r].state
          /\ record.left
      BY <2>0, <3>1 DEF Claims
    <3>3. claim' = IF claim[r].client = c THEN [claim EXCEPT ![r] = record] ELSE claim
      BY <2>2
    <3> HIDE DEF record
    <3> QED
      BY <2>0, <3>1, <3>2, <3>3
  <2>5. BoardTyped'
    BY <1>0, <2>2, <2>3, <2>4 DEF BoardInv, BoardTyped, Claims
  <2>6. ReportsJoined' /\ OneInTransfer'
    BY <1>0, <2>0, <2>1, <2>2 DEF BoardInv, ReportsJoined, OneInTransfer
  <2>7. Volunteers!NoDanglingClaim'
    <3> SUFFICES ASSUME NEW s \in Volunteers!Row, claim'[s].state = "archiving", s \notin shaken', ~claim'[s].left
                 PROVE  \E q \in BoardProc : ClientOf[q] = claim'[s].client /\ boardProc'[q].row = s
      BY DEF Volunteers!NoDanglingClaim
    <3>1. claim'[s] = claim[s] /\ (s = r => claim[s].client # c)
      <4>1. CASE s = r
        BY <2>4, <4>1
      <4>2. CASE s # r
        BY <2>4, <4>2
      <4> QED
        BY <4>1, <4>2
    <3>2. PICK q \in BoardProc : ClientOf[q] = claim[s].client /\ boardProc[q].row = s
      BY <2>2, <3>1 DEF BoardInv, Volunteers!NoDanglingClaim
    <3>3. q # p
      BY <3>1, <3>2
    <3> QED
      BY <2>1, <3>1, <3>2, <3>3
  <2>8. \A q \in BoardProc : Held(q)'
    <3> SUFFICES ASSUME NEW q \in BoardProc \ {p}, boardProc[q].row # 0 PROVE Held(q)'
      BY <1>0, <2>1 DEF Held
    <3>1. boardProc[q].row \in Volunteers!Row /\ ClientOf[q] \in Volunteers!Client
      BY <1>0 DEF BoardInv, BoardTyped, Claims, Slots, Volunteers!Row
    <3> QED
      BY <2>1, <2>2, <2>3, <2>4, <3>1 DEF BoardInv, Held, Mine
  <2> QED
    BY <2>5, <2>6, <2>7, <2>8 DEF BoardInv
<1> QED
  BY <1>1, <1>4, <1>5, <1>6, <1>10, <1>11, <1>12, <1>13, <1>14, <1>15, <1>16, <1>17, <1>18, <1>19
  DEF Volunteers!Next, Volunteers!Step

\* Two machines transfer one row only after a claim on it was lost or given back, and
\* a row claimed as being archived has somebody at it, unless a call or a command was
\* lost, or the command ended by an error that gives nothing back (cli.cmd_archive).
THEOREM BoardsHold ==
  ASSUME Volunteers!BoardAssumption
  PROVE  Volunteers!Spec => [](Volunteers!NoCollision /\ Volunteers!NoDanglingClaim)
<1>1. BoardInv => Volunteers!NoCollision /\ Volunteers!NoDanglingClaim
  BY DEF BoardInv, BoardTyped, Held, Mine, Volunteers!NoCollision, Volunteers!InTransfer, Slots, Volunteers!Row
<1> QED
  BY BoardStarts, BoardStep, <1>1, PTL DEF Volunteers!Spec

-----------------------------------------------------------------------------
(* The progress display.                                                    *)

\* The panel is the last item of the screen while it is up, and nowhere else.
PanelLast(s, upon) ==
  /\ upon => Len(s) > 0
  /\ \A i \in 1..Len(s) : s[i] = Terminal!ThePanel <=> (upon /\ i = Len(s))

LogCount(t) == IF echo[t] = "-" THEN 0 ELSE 1

\* Types.
PanelTyped ==
  /\ screen \in Seq(Nat) /\ texts \in Nat /\ buf \in Seq(Nat \ {0}) /\ lateText \in BOOLEAN
  /\ drawn \in BOOLEAN /\ hidden \in BOOLEAN /\ caught \in BOOLEAN /\ stopping \in BOOLEAN
  /\ panelMain \in {"start", "starting", "run", "join", "release", "restore", "left"}
\* suspended counts the threads that log.
Counted ==
  /\ echo \in [{"main", "reporter"} -> {"-", "print", "resume"}]
  /\ suspended = LogCount("main") + LogCount("reporter")
  /\ panelMain \in {"start", "starting"} => suspended = 0
\* The panel is down as long as a thread logs, and on the screen if it is up.
Upright == (drawn => suspended = 0) /\ (lateText \/ PanelLast(screen, drawn))
\* What the main thread has done by the time it gets to a place, unless it was struck.
Gates ==
  /\ panelMain \in {"join", "release", "restore", "left"} /\ struck # "starting" => stopping
  /\ panelMain \in {"restore", "left"} => ~caught \/ struck \in {"starting", "join", "release"}
  /\ panelMain = "left" =>
       (~hidden /\ ~drawn) \/ struck \in {"starting", "join", "release", "restore"}
PanelInv == PanelTyped /\ Counted /\ Upright /\ Gates

\* All items of a sequence but the last.
LEMMA FrontOf ==
  ASSUME NEW s \in Seq(Nat), Len(s) > 0
  PROVE  LET t == Terminal!Front(s) IN
           t \in Seq(Nat) /\ Len(t) = Len(s) - 1 /\ \A i \in 1..Len(t) : t[i] = s[i]
<1> DEFINE t == Terminal!Front(s)
<1>1. t = SubSeq(s, 1, Len(s) - 1) /\ Len(s) - 1 \in 0..Len(s) /\ 1 \in 1..Len(s) + 1
  BY DEF Terminal!Front
<1>2. 1 \in Int /\ Len(s) - 1 \in Int /\ \A i \in 1..Len(s) - 1 : s[i] \in Nat
  OBVIOUS
<1>3. /\ SubSeq(s, 1, Len(s) - 1) \in Seq(Nat)
      /\ Len(SubSeq(s, 1, Len(s) - 1)) = IF 1 <= Len(s) - 1 THEN Len(s) - 1 - 1 + 1 ELSE 0
      /\ \A i \in 1..Len(s) - 1 - 1 + 1 : SubSeq(s, 1, Len(s) - 1)[i] = s[1 + i - 1]
  BY <1>2, SubSeqProperties
<1> HIDE DEF t
<1>4. Len(t) = Len(s) - 1
  <2>1. Len(s) \in Nat /\ t = SubSeq(s, 1, Len(s) - 1)
    BY <1>1
  <2>2. Len(t) = IF 1 <= Len(s) - 1 THEN Len(s) - 1 - 1 + 1 ELSE 0
    BY <1>3, <2>1
  <2>3. ASSUME NEW n \in Nat, n > 0
        PROVE  (IF 1 <= n - 1 THEN n - 1 - 1 + 1 ELSE 0) = n - 1
    BY <2>3
  <2>4. (IF 1 <= Len(s) - 1 THEN Len(s) - 1 - 1 + 1 ELSE 0) = Len(s) - 1
    BY <2>1, <2>3
  <2> QED
    BY <2>2, <2>4
<1> QED
  BY <1>1, <1>3, <1>4 DEF t

\* What the operations on the screen do to the panel at its end.
LEMMA ScreenSteps ==
  ASSUME NEW s \in Seq(Nat), NEW x \in Nat \ {0}
  PROVE  /\ Append(s, x) \in Seq(Nat) /\ Append(s, 0) \in Seq(Nat)
         /\ Terminal!Front(s) \in Seq(Nat)
         /\ Append(Terminal!Front(s), 0) \in Seq(Nat)
         /\ Terminal!Front(s) \o <<x, 0>> \in Seq(Nat)
         /\ PanelLast(s, FALSE) => /\ PanelLast(Append(s, x), FALSE)
                                   /\ PanelLast(Append(s, 0), TRUE)
         /\ PanelLast(s, TRUE) => /\ PanelLast(Terminal!Front(s), FALSE)
                                  /\ PanelLast(Append(Terminal!Front(s), 0), TRUE)
                                  /\ PanelLast(Terminal!Front(s) \o <<x, 0>>, TRUE)
<1>1. Append(s, x) \in Seq(Nat) /\ Append(s, 0) \in Seq(Nat)
  OBVIOUS
<1>2. PanelLast(s, FALSE) => PanelLast(Append(s, x), FALSE) /\ PanelLast(Append(s, 0), TRUE)
  BY DEF PanelLast, Terminal!ThePanel
<1>3. CASE Len(s) = 0
  <2>1. Terminal!Front(s) = <<>>
    BY <1>3 DEF Terminal!Front
  <2> QED
    BY <1>1, <1>2, <1>3, <2>1 DEF PanelLast
<1>4. CASE Len(s) > 0
  <2> DEFINE t == Terminal!Front(s)
  <2>1. t \in Seq(Nat) /\ Len(t) = Len(s) - 1 /\ \A i \in 1..Len(t) : t[i] = s[i]
    BY <1>4, FrontOf
  <2>2. PanelLast(s, TRUE) => PanelLast(t, FALSE)
    BY <1>4, <2>1 DEF PanelLast, Terminal!ThePanel
  <2> HIDE DEF t
  <2>3. Append(t, 0) \in Seq(Nat) /\ t \o <<x, 0>> \in Seq(Nat)
    BY <2>1
  <2>4. ASSUME PanelLast(t, FALSE) PROVE PanelLast(Append(t, 0), TRUE) /\ PanelLast(t \o <<x, 0>>, TRUE)
    <3>1. \A i \in 1..Len(t) : t[i] # 0
      BY <2>1, <2>4 DEF PanelLast, Terminal!ThePanel
    <3>2. LET u == Append(t, 0) IN
            /\ Len(u) = Len(t) + 1 /\ u[Len(t) + 1] = 0 /\ \A i \in 1..Len(t) : u[i] = t[i]
      BY <2>1
    <3>3. PanelLast(Append(t, 0), TRUE)
      BY <2>1, <3>1, <3>2 DEF PanelLast, Terminal!ThePanel
    <3> DEFINE u == t \o <<x, 0>>
               n == Len(t)
    <3>4. /\ Len(u) = n + 2 /\ u[n + 1] = x /\ u[n + 2] = 0
          /\ n \in Nat /\ \A i \in 1..n : u[i] = t[i]
      BY <2>1
    <3> HIDE DEF u, n
    <3>5. PanelLast(u, TRUE)
      <4>1. \A i \in 1..n : u[i] # 0
        BY <3>1, <3>4 DEF n
      <4>2. \A i \in 1..n + 2 : i \in 1..n \/ i = n + 1 \/ i = n + 2
        BY <3>4
      <4>3. \A i \in 1..n + 2 : u[i] = 0 <=> i = n + 2
        BY <3>4, <4>1, <4>2
      <4> QED
        BY <3>4, <4>3 DEF PanelLast, Terminal!ThePanel
    <3> QED
      BY <3>3, <3>5 DEF u
  <2> QED
    BY <1>1, <1>2, <2>1, <2>2, <2>3, <2>4 DEF t
<1>5. Len(s) = 0 \/ Len(s) > 0
  OBVIOUS
<1> QED
  BY <1>3, <1>4, <1>5

\* Painting and taking down the panel, and a text above it.
LEMMA ScreenKept ==
  ASSUME PanelInv
  PROVE  /\ Terminal!Painted(screen) \in Seq(Nat) /\ Terminal!Restored(screen) \in Seq(Nat)
         /\ lateText \/ PanelLast(Terminal!Painted(screen), TRUE)
         /\ lateText \/ PanelLast(Terminal!Restored(screen), FALSE)
         /\ \A x \in Nat \ {0} : Terminal!EmitAbove(x)
              => /\ screen' \in Seq(Nat) /\ lateText' \in BOOLEAN /\ (lateText => lateText')
                 /\ lateText' \/ PanelLast(screen', drawn)
<1>1. 1 \in Nat \ {0}
  OBVIOUS
<1>2. /\ Terminal!Painted(screen) \in Seq(Nat) /\ Terminal!Restored(screen) \in Seq(Nat)
      /\ lateText \/ PanelLast(Terminal!Painted(screen), TRUE)
      /\ lateText \/ PanelLast(Terminal!Restored(screen), FALSE)
  BY <1>1, ScreenSteps DEF PanelInv, PanelTyped, Upright, Terminal!Painted, Terminal!Restored, Terminal!ThePanel
<1>3. ASSUME NEW x \in Nat \ {0}, Terminal!EmitAbove(x)
      PROVE  /\ screen' \in Seq(Nat) /\ lateText' \in BOOLEAN /\ (lateText => lateText')
             /\ lateText' \/ PanelLast(screen', drawn)
  <2>1. CASE drawn /\ suspended = 0 /\ ~stopping
    BY <1>3, <2>1, ScreenSteps DEF PanelInv, PanelTyped, Upright, Terminal!EmitAbove, Terminal!Restored, Terminal!ThePanel
  <2>2. CASE ~(drawn /\ suspended = 0 /\ ~stopping)
    <3>1. screen' = Append(screen, x) /\ lateText' = (lateText \/ (stopping /\ drawn))
      BY <1>3, <2>2 DEF Terminal!EmitAbove
    <3>2. lateText' \/ ~drawn
      BY <2>2, <3>1 DEF PanelInv, PanelTyped, Upright
    <3> QED
      BY <3>1, <3>2, ScreenSteps DEF PanelInv, PanelTyped, Upright
  <2> QED
    BY <2>1, <2>2
<1> QED
  BY <1>2, <1>3

\* None of them takes a text away.
LEMMA ScreenStands ==
  ASSUME PanelInv, ~lateText
  PROVE  /\ Terminal!Stands(screen, screen)
         /\ Terminal!Stands(screen, Terminal!Painted(screen))
         /\ Terminal!Stands(screen, Terminal!Restored(screen))
         /\ \A x \in Nat : Terminal!EmitAbove(x) => Terminal!Stands(screen, screen')
<1> USE DEF Terminal!Stands, Terminal!ThePanel
<1>1. /\ screen \in Seq(Nat)
      /\ drawn => Len(screen) > 0
      /\ \A i \in 1..Len(screen) : screen[i] = 0 <=> (drawn /\ i = Len(screen))
  BY DEF PanelInv, PanelTyped, Upright, PanelLast
<1>2. CASE ~drawn
  <2>1. \A x \in Nat : Terminal!Stands(screen, Append(screen, x))
    BY <1>1, <1>2
  <2> QED
    BY <1>1, <1>2, <2>1 DEF Terminal!Painted, Terminal!Restored, Terminal!EmitAbove
<1>3. CASE drawn
  <2> DEFINE s == Terminal!Front(screen)
  <2>1. s \in Seq(Nat) /\ Len(s) = Len(screen) - 1 /\ \A i \in 1..Len(s) : s[i] = screen[i]
    BY <1>1, <1>3, FrontOf
  <2>2. \A i \in 1..Len(screen) : screen[i] # 0 => i \in 1..Len(s)
    BY <1>1, <1>3, <2>1
  <2> HIDE DEF s
  <2>3. Terminal!Stands(screen, s) /\ Terminal!Stands(screen, Append(s, 0))
    BY <1>1, <1>3, <2>1, <2>2
  <2>4. ASSUME NEW x \in Nat
        PROVE  Terminal!Stands(screen, s \o <<x, 0>>) /\ Terminal!Stands(screen, Append(screen, x))
    <3> DEFINE u == s \o <<x, 0>>
    <3>1. u \in Seq(Nat) /\ Len(u) = Len(s) + 2 /\ \A i \in 1..Len(s) : u[i] = s[i]
      BY <2>1
    <3> HIDE DEF u
    <3>2. Terminal!Stands(screen, u)
      BY <1>1, <1>3, <2>1, <2>2, <3>1
    <3>3. Terminal!Stands(screen, Append(screen, x))
      BY <1>1, <1>3
    <3> QED
      BY <3>2, <3>3 DEF u
  <2> QED
    BY <1>1, <1>3, <2>3, <2>4 DEF s, Terminal!Painted, Terminal!Restored, Terminal!EmitAbove
<1> QED
  BY <1>2, <1>3

\* Every step of a thread, and the signal, keeps the invariant of the display.
LEMMA PanelStep == ASSUME PanelInv, [Terminal!Next]_Terminal!vars PROVE PanelInv'
<1> USE DEF Terminal!Display
<1>0. /\ suspended \in Nat
      /\ \A t \in {"main", "reporter"} : echo[t] # "-" => suspended >= 1
  BY DEF PanelInv, Counted, LogCount
<1>1. CASE Terminal!Prepare
  BY <1>1 DEF Terminal!Prepare, PanelInv, PanelTyped, Counted, Upright, Gates, LogCount
<1>2. CASE Terminal!Start
  <2>1. PanelTyped' /\ Upright'
    BY <1>2, ScreenKept DEF Terminal!Start, PanelInv, PanelTyped, Counted, Upright
  <2>2. Counted' /\ Gates'
    BY <1>2 DEF Terminal!Start, PanelInv, Counted, LogCount, Gates
  <2> QED
    BY <2>1, <2>2 DEF PanelInv
<1>3. ASSUME NEW t \in {"main", "reporter"}, Terminal!Suspend(t) PROVE PanelInv'
  <2>1. PanelTyped' /\ Gates'
    BY <1>3, ScreenKept DEF Terminal!Suspend, PanelInv, PanelTyped, Gates
  <2>2. Upright'
    <3>1. CASE suspended = 0
      BY <1>3, <3>1, ScreenKept DEF Terminal!Suspend, PanelInv, Upright
    <3>2. CASE suspended # 0
      BY <1>3, <3>2 DEF Terminal!Suspend, PanelInv, Upright
    <3> QED
      BY <3>1, <3>2
  <2>3. Counted'
    <3>1. /\ echo[t] = "-" /\ echo' = [echo EXCEPT ![t] = "print"] /\ suspended' = suspended + 1
          /\ panelMain' = panelMain /\ panelMain \notin {"start", "starting"}
      BY <1>3 DEF Terminal!Suspend
    <3> QED
      BY <3>1 DEF PanelInv, Counted, LogCount
  <2> QED
    BY <2>1, <2>2, <2>3 DEF PanelInv
<1>4. ASSUME NEW t \in {"main", "reporter"}, Terminal!Echo(t) PROVE PanelInv'
  <2>1. texts + 1 \in Nat \ {0} /\ Terminal!EmitAbove(texts + 1)
    BY <1>4 DEF Terminal!Echo, PanelInv, PanelTyped
  <2>2. PanelTyped' /\ Upright' /\ Gates'
    BY <1>4, <2>1, ScreenKept DEF Terminal!Echo, PanelInv, PanelTyped, Upright, Gates
  <2>3. Counted'
    BY <1>4 DEF Terminal!Echo, PanelInv, Counted, LogCount
  <2> QED
    BY <2>2, <2>3 DEF PanelInv
<1>5. ASSUME NEW t \in {"main", "reporter"}, Terminal!Resume(t) PROVE PanelInv'
  <2>1. PanelTyped'
    BY <1>5, ScreenKept DEF Terminal!Resume, PanelInv, PanelTyped
  <2>2. Upright'
    <3>1. CASE Terminal!Resumes
      <4>1. /\ suspended' = 0 /\ screen' = Terminal!Painted(screen) /\ drawn' = TRUE /\ lateText' = lateText
        BY <1>0, <1>5, <3>1 DEF Terminal!Resume, Terminal!Resumes
      <4> QED
        BY <4>1, ScreenKept DEF Upright
    <3>2. CASE ~Terminal!Resumes
      BY <1>0, <1>5, <3>2 DEF Terminal!Resume, PanelInv, Upright
    <3> QED
      BY <3>1, <3>2
  <2>3. Counted'
    <3>1. /\ echo[t] = "resume" /\ echo' = [echo EXCEPT ![t] = "-"] /\ suspended' = suspended - 1
          /\ panelMain' = panelMain
      BY <1>5 DEF Terminal!Resume
    <3> QED
      BY <1>0, <3>1 DEF PanelInv, Counted, LogCount
  <2>4. Gates'
    <3>1. UNCHANGED <<panelMain, stopping, caught, struck>> /\ (stopping => UNCHANGED <<hidden, drawn>>)
      BY <1>5 DEF Terminal!Resume, Terminal!Resumes
    <3> QED
      BY <3>1 DEF PanelInv, Gates
  <2> QED
    BY <2>1, <2>2, <2>3, <2>4 DEF PanelInv
<1>6. CASE Terminal!Stop \/ Terminal!Join
  <2>1. UNCHANGED <<screen, drawn, suspended, lateText>>
    BY <1>6 DEF Terminal!Stop, Terminal!Join
  <2>2. PanelTyped' /\ Gates'
    BY <1>6 DEF Terminal!Stop, Terminal!Join, Terminal!TransferEnds, PanelInv, PanelTyped, Gates
  <2>3. Counted'
    BY <1>6 DEF Terminal!Stop, Terminal!Join, PanelInv, Counted, LogCount
  <2> QED
    BY <2>1, <2>2, <2>3 DEF PanelInv, Upright
<1>7. CASE Terminal!Release
  <2>1. PanelTyped' /\ Upright'
    <3>1. CASE buf = <<>>
      BY <1>7, <3>1 DEF Terminal!Release, Terminal!Drain, PanelInv, PanelTyped, Upright
    <3>2. CASE buf # <<>>
      <4>1. buf[1] \in Nat \ {0} /\ Terminal!EmitAbove(buf[1])
        BY <1>7, <3>2 DEF Terminal!Release, Terminal!Drain, PanelInv, PanelTyped
      <4>0. buf' = <<>> /\ <<>> \in Seq(Nat \ {0})
        BY <1>7 DEF Terminal!Release, Terminal!Drain
      <4>2. PanelTyped'
        BY <4>0, <1>7, <4>1, ScreenKept DEF Terminal!Release, Terminal!Drain, PanelInv, PanelTyped
      <4>3. Upright'
        BY <1>7, <4>1, ScreenKept DEF Terminal!Release, PanelInv, Upright
      <4> QED
        BY <4>2, <4>3
    <3> QED
      BY <3>1, <3>2
  <2>2. Counted' /\ Gates'
    BY <1>7 DEF Terminal!Release, PanelInv, Counted, LogCount, Gates
  <2> QED
    BY <2>1, <2>2 DEF PanelInv
<1>8. CASE Terminal!Restore
  <2>1. PanelTyped' /\ Upright'
    BY <1>8, ScreenKept DEF Terminal!Restore, PanelInv, PanelTyped, Upright
  <2>2. Counted' /\ Gates'
    BY <1>8 DEF Terminal!Restore, PanelInv, Counted, LogCount, Gates
  <2> QED
    BY <2>1, <2>2 DEF PanelInv
<1>9. CASE Terminal!Strike
  <2>1. PanelTyped' /\ Upright'
    BY <1>9 DEF Terminal!Strike, PanelInv, PanelTyped, Upright
  <2>2. Counted'
    <3>1. UNCHANGED suspended /\ panelMain # "start"
      BY <1>9 DEF Terminal!Strike
    <3>2. CASE panelMain = "run" /\ echo' = [echo EXCEPT !["main"] = IF @ = "-" THEN "-" ELSE "resume"] /\ panelMain' = panelMain
      BY <3>1, <3>2 DEF PanelInv, Counted, LogCount
    <3>3. CASE panelMain' = "left" /\ echo' = echo
      BY <3>1, <3>3 DEF PanelInv, Counted, LogCount
    <3> QED
      BY <1>9, <3>2, <3>3 DEF Terminal!Strike
  <2>3. Gates'
    <3>1. UNCHANGED <<stopping, caught, hidden, drawn>> /\ struck = "-" /\ struck' = panelMain
          /\ panelMain \notin {"start", "left"}
          /\ panelMain' = IF panelMain = "run" THEN panelMain ELSE "left"
      BY <1>9 DEF Terminal!Strike
    <3> QED
      BY <3>1 DEF PanelInv, PanelTyped, Gates
  <2> QED
    BY <2>1, <2>2, <2>3 DEF PanelInv
<1>10. CASE Terminal!Tick \/ Terminal!Take \/ UNCHANGED Terminal!vars
  BY <1>10 DEF Terminal!Tick, Terminal!Take, Terminal!vars, PanelInv, PanelTyped, Counted, Upright, Gates, LogCount
<1>11. CASE Terminal!Refresh
  <2>1. PanelTyped' /\ Upright'
    BY <1>11, ScreenKept DEF Terminal!Refresh, Terminal!MayPaint, PanelInv, PanelTyped, Upright
  <2>2. Counted' /\ Gates'
    BY <1>11 DEF Terminal!Refresh, Terminal!MayPaint, PanelInv, Counted, LogCount, Gates
  <2> QED
    BY <2>1, <2>2 DEF PanelInv
<1>12. CASE Terminal!Write
  <2>1. texts + 1 \in Nat \ {0}
    BY DEF PanelInv, PanelTyped
  <2>2. PanelTyped' /\ Upright'
    <3>1. CASE Terminal!EmitAbove(texts + 1) /\ UNCHANGED buf
      BY <1>12, <2>1, <3>1, ScreenKept DEF Terminal!Write, PanelInv, PanelTyped, Upright
    <3>2. CASE buf' = <<texts + 1>> /\ UNCHANGED <<screen, lateText>>
      BY <1>12, <2>1, <3>2 DEF Terminal!Write, PanelInv, PanelTyped, Upright
    <3> QED
      BY <1>12, <3>1, <3>2 DEF Terminal!Write
  <2>3. Counted' /\ Gates'
    BY <1>12 DEF Terminal!Write, PanelInv, Counted, LogCount, Gates
  <2> QED
    BY <2>2, <2>3 DEF PanelInv
<1>13. CASE Terminal!WriteNewline
  <2>1. buf[1] \in Nat \ {0} /\ Terminal!EmitAbove(buf[1])
    BY <1>13 DEF Terminal!WriteNewline, PanelInv, PanelTyped
  <2>2. PanelTyped' /\ Upright'
    <3>1. PanelTyped'
      BY <1>13, <2>1, ScreenKept DEF Terminal!WriteNewline, PanelInv, PanelTyped
    <3>2. Upright'
      BY <1>13, <2>1, ScreenKept DEF Terminal!WriteNewline, PanelInv, Upright
    <3> QED
      BY <3>1, <3>2
  <2>3. Counted' /\ Gates'
    BY <1>13 DEF Terminal!WriteNewline, PanelInv, Counted, LogCount, Gates
  <2> QED
    BY <2>2, <2>3 DEF PanelInv
<1>14. DOMAIN echo = {"main", "reporter"}
  BY DEF PanelInv, Counted
<1> QED
  BY <1>1, <1>2, <1>3, <1>4, <1>5, <1>6, <1>7, <1>8, <1>9, <1>10, <1>11, <1>12, <1>13, <1>14
  DEF Terminal!Next

\* An empty terminal satisfies it.
LEMMA PanelStarts == Terminal!Init => PanelInv
<1>1. Terminal!Init => PanelInv
  <2> SUFFICES ASSUME Terminal!Init PROVE PanelInv
    OBVIOUS
  <2>1. PanelTyped
    <3>1. <<>> \in Seq(Nat) /\ <<>> \in Seq(Nat \ {0})
      OBVIOUS
    <3> QED
      BY <3>1 DEF Terminal!Init, PanelTyped
  <2>2. Counted /\ Gates
    BY DEF Terminal!Init, Counted, LogCount, Gates
  <2>3. Upright
    BY DEF Terminal!Init, Upright, PanelLast
  <2> QED
    BY <2>1, <2>2, <2>3 DEF PanelInv
<1> QED
  BY <1>1

\* When the display is gone no panel is left on the screen, the cursor is visible
\* and stderr its own, also if the painter outlived the join - unless a second
\* Ctrl-C struck its start or its stop (TransferDisplay.start, stop).
THEOREM TerminalIsGivenBack == Terminal!Spec => []Terminal!TerminalGivenBack
<1>1. PanelInv => Terminal!TerminalGivenBack
  BY DEF PanelInv, PanelTyped, Upright, Gates, PanelLast, Terminal!TerminalGivenBack
<1> QED
  BY <1>1, PanelStarts, PanelStep, PTL DEF Terminal!Spec

\* Every text that is on the terminal stays where it is, and the panel is never
\* left behind above one, in whatever order the threads print, repaint and log,
\* until something is written under the panel of a display that stops
\* (TransferDisplay.emit_above).
THEOREM TextsStand == Terminal!Spec => Terminal!TextStands
<1>1. ASSUME PanelInv, ~lateText, Terminal!Next PROVE Terminal!Stands(screen, screen')
  <2>1. PanelTyped /\ DOMAIN echo = {"main", "reporter"}
    BY <1>1 DEF PanelInv, Counted
  <2>2. CASE \/ screen' = screen \/ screen' = Terminal!Painted(screen)
             \/ screen' = Terminal!Restored(screen)
    BY <1>1, <2>2, ScreenStands
  <2>3. ASSUME NEW x \in Nat, Terminal!EmitAbove(x) PROVE Terminal!Stands(screen, screen')
    BY <1>1, <2>3, ScreenStands
  <2>4. CASE \/ Terminal!Prepare \/ Terminal!Start \/ Terminal!Stop \/ Terminal!Join
             \/ Terminal!Restore \/ Terminal!Strike \/ Terminal!Tick \/ Terminal!Refresh
             \/ Terminal!Take
    BY <2>2, <2>4 DEF Terminal!Prepare, Terminal!Start, Terminal!Stop, Terminal!Join,
       Terminal!Restore, Terminal!Strike, Terminal!Tick, Terminal!Refresh, Terminal!Take,
       Terminal!Display
  <2>5. ASSUME NEW t, Terminal!Suspend(t) \/ Terminal!Resume(t) PROVE Terminal!Stands(screen, screen')
    BY <2>2, <2>5 DEF Terminal!Suspend, Terminal!Resume
  <2>6. ASSUME NEW t, Terminal!Echo(t) PROVE Terminal!Stands(screen, screen')
    BY <2>1, <2>3, <2>6 DEF Terminal!Echo, PanelTyped
  <2>7. CASE Terminal!Release \/ Terminal!WriteNewline
    <3>1. CASE UNCHANGED screen
      BY <2>2, <3>1
    <3>2. CASE buf # <<>> /\ Terminal!EmitAbove(buf[1])
      BY <2>1, <2>3, <3>2 DEF PanelTyped
    <3> QED
      BY <2>7, <3>1, <3>2 DEF Terminal!Release, Terminal!Drain, Terminal!WriteNewline
  <2>8. CASE Terminal!Write
    <3>1. CASE Terminal!EmitAbove(texts + 1)
      BY <2>1, <2>3, <3>1 DEF PanelTyped
    <3> QED
      BY <2>2, <2>8, <3>1 DEF Terminal!Write
  <2> QED
    BY <1>1, <2>1, <2>4, <2>5, <2>6, <2>7, <2>8 DEF Terminal!Next
<1>2. PanelInv /\ [Terminal!Next]_Terminal!vars
        => [lateText \/ Terminal!Stands(screen, screen')]_Terminal!vars
  BY <1>1
<1> QED
  BY <1>2, PanelStarts, PanelStep, PTL DEF Terminal!Spec, Terminal!TextStands

-----------------------------------------------------------------------------
(* The parts side by side.                                                  *)

\* The link behaves as it does alone, or nothing of it moves.
OnLink == part = "link"
LEMMA LinkAlone ==
  PartsSpec => \/ Network!Spec /\ []OnLink
               \/ []~OnLink /\ [][FALSE]_Network!vars
<1>1. PartsInit => Network!Init
  BY DEF PartsInit
<1>2. [PartsNext]_partsVars =>
        \/ OnLink /\ OnLink' /\ [Network!Next]_Network!vars
        \/ ~OnLink /\ ~OnLink' /\ [FALSE]_Network!vars
  BY DEF PartsNext, partsVars, OnLink, Network!vars, vars, mains, jobs, signals, linkVars, panelVars,
         recordVars, envVars, boardVars, catalogVars, roomVars, classVars, lockVars
<1> QED
  BY <1>1, <1>2, PTL DEF PartsSpec, Network!Spec

\* Of the parts together: an outage ends only after an attempt has begun in it
\* (Link.online).
THEOREM NoOutageEndsUntried == PartsSpec => NoEndUntried
BY LinkAlone, OutageEndsByTrial, PTL DEF NoEndUntried, Network!NoEndUntried

\* The record behaves as it does alone, or nothing of it moves.
OnRecord == part = "record"
LEMMA RecordAlone ==
  PartsSpec => \/ Book!Spec /\ []OnRecord
               \/ []~OnRecord /\ [][FALSE]_Book!vars
<1>1. PartsInit => Book!Init
  BY DEF PartsInit
<1>2. [PartsNext]_partsVars =>
        \/ OnRecord /\ OnRecord' /\ [Book!Next]_Book!vars
        \/ ~OnRecord /\ ~OnRecord' /\ [FALSE]_Book!vars
  BY DEF PartsNext, partsVars, OnRecord, Book!vars, vars, mains, jobs, signals, linkVars, panelVars,
         recordVars, envVars, boardVars, catalogVars, roomVars, classVars, lockVars
<1> QED
  BY <1>1, <1>2, PTL DEF PartsSpec, Book!Spec

\* Of the parts together: what commands recorded in a section of a manifest
\* survives, unless another one read the record before and wrote it after
\* (verify.record_verification, hydrate_bundle, run_bundle, run_smoke).
THEOREM PartsKeepRecords == PartsSpec => []RecordsSurvive
<1>1. Book!Spec => []Book!RecordsSurvive
  BY RecordsAlwaysSurvive, PTL
<1>2. Book!RecordsSurvive \/ ~OnRecord => RecordsSurvive
  BY DEF RecordsSurvive, OnRecord
<1> QED
  BY <1>1, <1>2, RecordAlone, PTL

\* The environments behave as it does alone, or nothing of it moves.
OnEnvs == part = "environments"
LEMMA EnvsAlone ==
  PartsSpec => \/ Envs!Spec /\ []OnEnvs
               \/ []~OnEnvs /\ [][FALSE]_Envs!vars
<1>1. PartsInit => Envs!Init
  BY DEF PartsInit
<1>2. [PartsNext]_partsVars =>
        \/ OnEnvs /\ OnEnvs' /\ [Envs!Next]_Envs!vars
        \/ ~OnEnvs /\ ~OnEnvs' /\ [FALSE]_Envs!vars
  BY DEF PartsNext, partsVars, OnEnvs, Envs!vars, vars, mains, jobs, signals, linkVars, panelVars,
         recordVars, envVars, boardVars, catalogVars, roomVars, classVars, lockVars
<1> QED
  BY <1>1, <1>2, PTL DEF PartsSpec, Envs!Spec

\* Of the parts together: prune removes no environment that a bundle of its vault
\* names, unless a hydration was recorded meanwhile (hydrate.prune_envs).
THEOREM PartsPruneKindly == PartsSpec => PruneKeepsListed
BY EnvsAlone, PruneIsKind, PTL DEF PruneKeepsListed, Envs!PruneKeepsListed

\* Of the parts together: a command goes on to its probe or its inference in a
\* whole environment only (hydrate.ensure_env, run_bundle).
THEOREM PartsProbeWhole == PartsSpec => ProbedIsWhole
BY EnvsAlone, ProbesFindWhole, PTL DEF ProbedIsWhole, Envs!ProbedIsWhole

\* The default selection behaves as it does alone, or nothing of it moves.
OnClass == part = "classification"
LEMMA ClassAlone ==
  PartsSpec => \/ Default!Spec /\ []OnClass
               \/ []~OnClass /\ [][FALSE]_Default!vars
<1>1. PartsInit => Default!Init
  BY DEF PartsInit
<1>2. [PartsNext]_partsVars =>
        \/ OnClass /\ OnClass' /\ [Default!Next]_Default!vars
        \/ ~OnClass /\ ~OnClass' /\ [FALSE]_Default!vars
  BY DEF PartsNext, partsVars, OnClass, Default!vars, vars, mains, jobs, signals, linkVars, panelVars,
         recordVars, envVars, boardVars, catalogVars, roomVars, classVars, lockVars
<1> QED
  BY <1>1, <1>2, PTL DEF PartsSpec, Default!Spec

\* Of the parts together: a pin leaves out no weights whose published bytes it
\* does not keep (classify.attach_selection).
THEOREM PinsKeepWhatIsUnique == PartsSpec => []NothingUniqueSkipped
<1>1. Default!Spec => []Default!NothingUniqueSkipped
  <2>1. Default!ClassificationAssumption
    BY PartsAssumption
  <2> QED
    BY <2>1, NothingUniqueIsSkipped, PTL
<1>2. Default!NothingUniqueSkipped \/ ~OnClass => NothingUniqueSkipped
  BY DEF NothingUniqueSkipped, OnClass
<1> QED
  BY <1>1, <1>2, ClassAlone, PTL

\* The board behaves as it does alone, or nothing of it moves.
OnBoard == part = "board"
LEMMA BoardAlone ==
  PartsSpec => \/ Volunteers!Spec /\ []OnBoard
               \/ []~OnBoard /\ [][FALSE]_Volunteers!vars
<1>1. PartsInit => Volunteers!Init
  BY DEF PartsInit
<1>2. [PartsNext]_partsVars =>
        \/ OnBoard /\ OnBoard' /\ [Volunteers!Next]_Volunteers!vars
        \/ ~OnBoard /\ ~OnBoard' /\ [FALSE]_Volunteers!vars
  BY DEF PartsNext, partsVars, OnBoard, Volunteers!vars, vars, mains, jobs, signals, linkVars, panelVars,
         recordVars, envVars, boardVars, catalogVars, roomVars, classVars, lockVars
<1> QED
  BY <1>1, <1>2, PTL DEF PartsSpec, Volunteers!Spec

\* Of the parts together: two machines transfer one row only after a claim on it
\* expired, or a call or the row was lost or given back (board.claim).
THEOREM VolunteersKeepApart == PartsSpec => []NoCollision
<1>1. Volunteers!Spec => []Volunteers!NoCollision
  <2>1. Volunteers!BoardAssumption
    BY PartsAssumption
  <2> QED
    BY <2>1, BoardsHold, PTL
<1>2. Volunteers!NoCollision \/ ~OnBoard => NoCollision
  BY DEF NoCollision, OnBoard
<1> QED
  BY <1>1, <1>2, BoardAlone, PTL

\* Of the parts together: a row that is claimed as being archived is being
\* archived, unless a call or a command was lost, or the command ended by an error
\* that gives nothing back (board.ProgressReporter, cli.cmd_archive).
THEOREM ClaimsHaveHolders == PartsSpec => []NoDanglingClaim
<1>1. Volunteers!Spec => []Volunteers!NoDanglingClaim
  <2>1. Volunteers!BoardAssumption
    BY PartsAssumption
  <2> QED
    BY <2>1, BoardsHold, PTL
<1>2. Volunteers!NoDanglingClaim \/ ~OnBoard => NoDanglingClaim
  BY DEF NoDanglingClaim, OnBoard
<1> QED
  BY <1>1, <1>2, BoardAlone, PTL

\* The panel behaves as it does alone, or nothing of it moves.
OnPanel == part = "panel"
LEMMA PanelAlone ==
  PartsSpec => \/ Terminal!Spec /\ []OnPanel
               \/ []~OnPanel /\ [][FALSE]_Terminal!vars
<1>1. PartsInit => Terminal!Init
  BY DEF PartsInit
<1>2. [PartsNext]_partsVars =>
        \/ OnPanel /\ OnPanel' /\ [Terminal!Next]_Terminal!vars
        \/ ~OnPanel /\ ~OnPanel' /\ [FALSE]_Terminal!vars
  BY DEF PartsNext, partsVars, OnPanel, Terminal!vars, vars, mains, jobs, signals, linkVars, panelVars,
         recordVars, envVars, boardVars, catalogVars, roomVars, classVars, lockVars
<1> QED
  BY <1>1, <1>2, PTL DEF PartsSpec, Terminal!Spec

\* Of the parts together: when the display is gone the terminal is as it was
\* (TransferDisplay.stop).
THEOREM PartsGiveTerminalBack == PartsSpec => []TerminalGivenBack
<1>1. Terminal!Spec => []Terminal!TerminalGivenBack
  BY TerminalIsGivenBack, PTL
<1>2. Terminal!TerminalGivenBack \/ ~OnPanel => TerminalGivenBack
  BY DEF TerminalGivenBack, OnPanel
<1> QED
  BY <1>1, <1>2, PanelAlone, PTL

\* Of the parts together: no text that reached the terminal is overwritten or
\* moved by the panel (TransferDisplay.emit_above).
THEOREM PartsKeepTexts == PartsSpec => TextStands
BY PanelAlone, TextsStand, PTL DEF TextStands, Terminal!TextStands
=============================================================================
