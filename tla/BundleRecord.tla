---------------------------- MODULE BundleRecord ----------------------------
(***************************************************************************)
(* manifest.json of one registered bundle, and the two histories beside it *)
(* (verification.json, hydration.json).  Five commands read the record,    *)
(* work for minutes and write it back whole: verify and run read it again  *)
(* when their work is done, smoke, hydrate and migrate write what they     *)
(* read at their start.  Only migrate takes the bundle's lock, so another  *)
(* command may write between any read and the write that follows it.       *)
(* Every write of the record is atomic (a rename).                         *)
(***************************************************************************)
EXTENDS Naturals, FiniteSets, Sequences

CONSTANTS Proc,      \* processes, each runs one command at a time
          MaxRuns,   \* commands started
          MaxFaults  \* crashes, and changes of the payload

VARIABLES manifest,   \* the record
          report,     \* verification.json: which verify it reports last; or torn
          hydration,  \* hydration.json: the runs it lists
          payload,    \* whether every payload file hashes as recorded
          proc,       \* what each process is doing
          runs, faults,
          wrote,      \* what finished commands recorded last, section by section
          stale,      \* sections written back from before another's write, or cut off
          mismatch    \* what the archive found when it checked against upstream

vars == <<manifest, report, hydration, payload, proc, runs, faults, wrote, stale, mismatch>>

Run == 1..MaxRuns
NoRun == 0
Torn == MaxRuns + 1
Commands == {"verify", "smoke", "hydrate", "run", "migrate"}

\* A reader finds the record as it was or as it is now, never part of it.
WriteManifest(record) == manifest' = record

\* integrity_status as the archive set it (archiver.py:815-822); the sections
\* hold the number of the command that wrote them last.
Archived(schema, integrity) ==
  [schema |-> schema, integrity |-> integrity, check |-> NoRun,
   smoke |-> NoRun, tested |-> NoRun]
Integrity == {"upstream-mismatch", "verified", "compromised"}

\* What one command records and another carries over.
Sections == {"check", "smoke", "tested"}

\* read is the record a command holds, seen the record at its last reading.
Idle == [pc |-> "idle", cmd |-> "verify", run |-> NoRun, read |-> Archived("older", "verified"),
         seen |-> Archived("older", "verified"), runs |-> {}, good |-> FALSE]

TypeOK ==
  /\ manifest \in [schema : {"older", "current"}, integrity : Integrity, check : Run \cup {NoRun},
                   smoke : Run \cup {NoRun}, tested : Run \cup {NoRun}]
  /\ report \in 0..Torn /\ hydration \subseteq 1..Torn
  /\ payload \in BOOLEAN /\ stale \subseteq Sections \cup {"runs", "report"}
  /\ \A p \in Proc : proc[p].cmd \in Commands /\ proc[p].run \in 0..MaxRuns

Init ==
  /\ mismatch \in BOOLEAN
  /\ \E schema \in {"older", "current"} :
       manifest = Archived(schema, IF mismatch THEN "upstream-mismatch" ELSE "verified")
  /\ report = NoRun /\ hydration = {} /\ payload = TRUE
  /\ proc = [p \in Proc |-> Idle]
  /\ runs = 0 /\ faults = 0
  /\ wrote = [schema |-> manifest.schema, check |-> NoRun, smoke |-> NoRun, tested |-> NoRun,
              runs |-> {}]
  /\ stale = {}

-----------------------------------------------------------------------------
(* A command begins by reading the record; load_manifest refuses one of an   *)
(* older major, which only migrate's plan reads.                             *)
Loads(cmd) == manifest.schema = IF cmd = "migrate" THEN "older" ELSE "current"

\* load_hydration fails on a file a crash left cut off.
Readable(cmd) == cmd \in {"hydrate", "run"} => Torn \notin hydration

Start(p, cmd) ==
  /\ proc[p] = Idle /\ runs < MaxRuns
  /\ Loads(cmd) /\ Readable(cmd)
  /\ proc' = [proc EXCEPT ![p] = [pc |-> "work", cmd |-> cmd, run |-> runs + 1,
                                  read |-> manifest, seen |-> manifest, runs |-> hydration,
                                  good |-> FALSE]]
  /\ runs' = runs + 1
  /\ UNCHANGED <<manifest, report, hydration, payload, faults, wrote, stale, mismatch>>

\* Hashing, probing, generating, a smoke test: what a verify finds is the
\* payload, what the others find depends on more than that.
WorkEnds(p) ==
  /\ proc[p].pc = "work"
  /\ \E good \in BOOLEAN :
       /\ proc[p].cmd = "verify" => good = payload
       /\ proc' = [proc EXCEPT ![p].pc = CASE proc[p].cmd \in {"hydrate", "run"} -> "note"
                                           [] proc[p].cmd = "verify" -> "reread"
                                           [] OTHER -> "write",
                               ![p].good = good]
  /\ UNCHANGED <<manifest, report, hydration, payload, runs, faults, wrote, stale, mismatch>>

-----------------------------------------------------------------------------
(* verify and run read the record again when their work is done             *)
(* (record_verification, the end of run_bundle) and write that one back.     *)
\* Mutated: they keep the record of their start.
FreshNever(p) == proc[p].read
Fresh(p) == manifest

Reread(p) ==
  /\ proc[p].pc = "reread" /\ Loads(proc[p].cmd)
  /\ proc' = [proc EXCEPT ![p].pc = "write", ![p].read = Fresh(p), ![p].seen = manifest]
  /\ UNCHANGED <<manifest, report, hydration, payload, runs, faults, wrote, stale, mismatch>>

\* verify sets its verdict, smoke its results, run on a pass this machine's entry
\* in tested_hardware, migrate the current schema; hydrate sets nothing another
\* reads.  Every other section is written as it was read.
Checked(m, run) == [m EXCEPT !.check = run]
Judged(m, run, good) ==
  [Checked(m, run) EXCEPT !.integrity = IF ~good THEN "compromised"
                                        ELSE IF @ # "upstream-mismatch" THEN "verified" ELSE @]
Smoked(m, run) == [m EXCEPT !.smoke = run]
Tested(m, run) == [m EXCEPT !.tested = run]
Migrated(m)    == [m EXCEPT !.schema = "current"]

Rewritten(p) ==
  CASE proc[p].cmd = "verify"  -> Judged(proc[p].read, proc[p].run, proc[p].good)
    [] proc[p].cmd = "smoke"   -> Smoked(proc[p].read, proc[p].run)
    [] proc[p].cmd = "run"     -> IF proc[p].good THEN Tested(proc[p].read, proc[p].run)
                                  ELSE proc[p].read
    [] proc[p].cmd = "migrate" -> Migrated(proc[p].read)
    [] OTHER                   -> proc[p].read

\* The sections it sets, and those it carries over although they have changed
\* since it read them.
Sets(p) == CASE proc[p].cmd = "verify"                -> {"check"}
             [] proc[p].cmd = "smoke"                 -> {"smoke"}
             [] proc[p].cmd = "run" /\ proc[p].good -> {"tested"}
             [] OTHER                                 -> {}
Undone(p) == {s \in Sections \ Sets(p) : manifest[s] # proc[p].seen[s]}

WriteBack(p) ==
  /\ proc[p].pc = "write"
  /\ WriteManifest(Rewritten(p))
  /\ wrote' = CASE proc[p].cmd = "verify"               -> Checked(wrote, proc[p].run)
                [] proc[p].cmd = "smoke"                -> Smoked(wrote, proc[p].run)
                [] proc[p].cmd = "run" /\ proc[p].good -> Tested(wrote, proc[p].run)
                [] proc[p].cmd = "migrate"              -> Migrated(wrote)
                [] OTHER                                -> wrote
  /\ stale' = (stale \ Sets(p)) \cup Undone(p)
  /\ proc' = [proc EXCEPT ![p] = IF proc[p].cmd = "verify" THEN [@ EXCEPT !.pc = "report"] ELSE Idle]
  /\ UNCHANGED <<report, hydration, payload, runs, faults, mismatch>>

\* write_verification_report reads verification.json and writes it anew; one
\* that a crash cut off ends every later verify here.
Report(p) ==
  /\ proc[p].pc = "report"
  /\ report' = IF report = Torn THEN Torn ELSE proc[p].run
  /\ proc' = [proc EXCEPT ![p] = Idle]
  /\ stale' = IF report = Torn \/ manifest.check # proc[p].run
              THEN stale \cup {"report"} ELSE stale \ {"report"}
  /\ UNCHANGED <<manifest, hydration, payload, runs, faults, wrote, mismatch>>

(* hydrate and run note their outcome in hydration.json, from the runs that  *)
(* were in it when they began.                                               *)
Noted(p) == IF proc[p].cmd = "run" THEN proc[p].runs \cup {proc[p].run} ELSE proc[p].runs

Note(p) ==
  /\ proc[p].pc = "note"
  /\ hydration' = Noted(p)
  /\ stale' = IF hydration # proc[p].runs THEN stale \cup {"runs"} ELSE stale
  /\ wrote' = [wrote EXCEPT !.runs = IF proc[p].cmd = "run" THEN @ \cup {proc[p].run} ELSE @]
  /\ proc' = [proc EXCEPT ![p].pc = IF proc[p].cmd = "run" THEN "reread" ELSE "write"]
  /\ UNCHANGED <<manifest, report, payload, runs, faults, mismatch>>

\* dehydrate unlinks hydration.json, the run history included, readable or not.
Dehydrate ==
  /\ hydration # {}
  /\ hydration' = {}
  /\ wrote' = [wrote EXCEPT !.runs = {}]
  /\ stale' = stale \ {"runs"}
  /\ UNCHANGED <<manifest, report, payload, proc, runs, faults, mismatch>>

-----------------------------------------------------------------------------
(* A crash may cut off the two histories, which are written in place.        *)
Crash(p) ==
  /\ proc[p] # Idle /\ faults < MaxFaults
  /\ faults' = faults + 1
  /\ report' \in IF proc[p].pc = "report" THEN {report, Torn} ELSE {report}
  /\ hydration' \in IF proc[p].pc = "note" THEN {hydration, {Torn}} ELSE {hydration}
  /\ proc' = [proc EXCEPT ![p] = Idle]
  /\ stale' = stale \cup (IF proc[p].pc = "report" THEN {"report"} ELSE {})
                    \cup (IF proc[p].pc = "note" THEN {"runs"} ELSE {})
  /\ UNCHANGED <<manifest, payload, runs, wrote, mismatch>>

\* A payload file changes, or comes back from a replica.
Change ==
  /\ faults < MaxFaults /\ faults' = faults + 1
  /\ payload' = ~payload
  /\ UNCHANGED <<manifest, report, hydration, proc, runs, wrote, stale, mismatch>>

Step(p) ==
  \/ \E cmd \in Commands : Start(p, cmd)
  \/ WorkEnds(p) \/ Reread(p) \/ WriteBack(p) \/ Report(p) \/ Note(p) \/ Crash(p)

Next == (\E p \in Proc : Step(p)) \/ Dehydrate \/ Change

Spec == Init /\ [][Next]_vars

-----------------------------------------------------------------------------
(* A migrated record never goes back to the older schema, although commands  *)
(* write back what they read: they refuse to start on one.  And whatever     *)
(* runs beside it, what a finished verify, smoke, run or migrate recorded    *)
(* stays in its section until that section is written anew, with one         *)
(* exception: another command read the record before and wrote it back       *)
(* after (verify.py:87-150, hydrate.py:610-704 and 886-890, smoke.py:195-232 *)
(* read and write without a lock).  For verify and run that is the instant   *)
(* between their second reading and their write; all that happened during    *)
(* their work they keep.  The histories: hydration.json lists the runs noted *)
(* since dehydrate unless a note wrote over another one or a crash cut it    *)
(* off, and verification.json reports the verify of the record unless two    *)
(* verifies reported in the other order or one died before its report.       *)
RecordsSurvive ==
  /\ manifest.schema = wrote.schema
  /\ \A s \in Sections \ stale : manifest[s] = wrote[s]
  /\ "runs" \notin stale => hydration = wrote.runs
  /\ stale \cap {"check", "report"} = {} /\ report # manifest.check
       => \E p \in Proc : proc[p].pc = "report" /\ proc[p].run = manifest.check

(* A bundle that did not match upstream when it was archived never passes    *)
(* for verified against upstream: the mismatch "is a recorded fact and       *)
(* stays" (verify.py:135-136).                                               *)
UpstreamMismatchStays == mismatch => manifest.integrity # "verified"
=============================================================================
