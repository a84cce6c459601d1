------------------------------ MODULE Repairs ------------------------------
(***************************************************************************)
(* The doctor (doctor.py): it scans the bundles of a vault, and repairs    *)
(* what is derived or disposable: it regenerates README.md and SHA256SUMS  *)
(* and quarantines dead transfer locks and dangling hydration records.     *)
(* Every change is journaled before and after; `undo` plays a journal      *)
(* backwards.  Doctors exclude each other by a lock of the operating       *)
(* system; other commands go on, and change the same files.                *)
(*                                                                         *)
(* A file is the class its bytes are in; a backup is the "before" of the   *)
(* journaled action, since it is verified before the action is journaled.  *)
(***************************************************************************)
EXTENDS Naturals, Sequences

CONSTANTS Bundle,     \* bundles of the vault, numbered in path order
          Leaf,       \* files of a bundle that a fixer may touch
          MaxRuns,    \* bound on journaled runs
          MaxFaults   \* bound on crashes, i/o errors and changes by others

Generated == Leaf \cap {"README.md", "SHA256SUMS"}
Quarantined == Leaf \cap {"transfer.lock", "hydration.json"}

ASSUME RepairsAssumption ==
    /\ Bundle \subseteq Nat /\ MaxRuns \in Nat /\ MaxFaults \in Nat
    /\ {"transfer.lock"} \subseteq Leaf
    /\ Leaf \subseteq {"README.md", "SHA256SUMS", "transfer.lock", "hydration.json"}

VARIABLES
    file,      \* vault: the class of each file's bytes
    sound,     \* vault: what the manifest and the payload look like
    session,   \* how far the archive of each bundle is with its lock
    blank,     \* who made the lock under the name and has not written its owner yet
    runs,      \* .doctor/runs: the journals
    pc,        \* doctor: where it is; "idle" when none runs
    mode,      \* doctor: fix, undo or rollback
    plans,     \* doctor: mutations to make
    wanted,    \* doctor: bundle locks to take
    held,      \* doctor: bundle locks taken
    source,    \* doctor: the run it undoes
    moved,     \* doctor: what the rename put into the quarantine
    exit,      \* how the command is about to end
    start,     \* ghost: the files when the running command began
    others,    \* ghost: files others changed since
    raced,     \* ghost: a file changed between last look and rename
    faults     \* ghost: bounds the model

doctor == <<pc, mode, plans, wanted, held, source, moved>>
ghosts == <<start, others, raced>>
vars   == <<file, sound, session, blank, runs, doctor, exit, ghosts, faults>>

Lock    == "transfer.lock"
Target  == Bundle \X Leaf
At(t)   == file[t[1]][t[2]]
Contents(leaf) ==
    IF leaf \in Generated THEN {"absent", "stale", "edited", "fresh"}
    ELSE IF leaf = Lock THEN {"absent", "empty", "dead", "live", "doctor", "orphan"}
    ELSE {"absent", "dangling", "good"}
Soundness == {"ok", "unsafe", "broken"}
Outcomes  == {"pending", "ok", "failed", "undone"}
Content   == UNION {Contents(leaf) : leaf \in Leaf}
Action    == [target : Target, before : Content, after : Content, outcome : Outcomes]
Plan      == [target : Target, expect : Content, to : Content, turn : Nat]
Kinds     == {"fix", "undo", "rollback"}

TypeOK ==
    /\ \A t \in Target : At(t) \in Contents(t[2])
    /\ sound \in [Bundle -> Soundness]
    /\ session \in [Bundle -> {"none", "judged", "starting", "runs"}]
    /\ blank \in [Bundle -> {"none", "doctor", "archive"}]
    /\ \A i \in DOMAIN runs : /\ runs[i].kind \in Kinds
                              /\ \A k \in DOMAIN runs[i].acts : runs[i].acts[k] \in Action
    /\ pc \in {"idle", "lock", "unlink", "create", "own", "apply", "check", "commit",
              "verify", "fail", "release"}
    /\ mode \in Kinds /\ plans \subseteq Plan
    /\ wanted \subseteq Bundle /\ held \subseteq Bundle
    /\ source \in 0..Len(runs) /\ moved \in Content
    /\ exit \in {"none", "fixed", "undone", "reverted", "error", "interrupt"}

-----------------------------------------------------------------------------
(***************************************************************************)
(* The scan: which checks find something, and what a fixer may do about it.*)
(***************************************************************************)
Checks == {"bundle.manifest", "bundle.paths", "bundle.payload", "bundle.readme",
           "bundle.sha256sums", "transfer.lock", "runtime.hydration"}
CheckOf(leaf) == CASE leaf = "README.md"      -> "bundle.readme"
                   [] leaf = "SHA256SUMS"     -> "bundle.sha256sums"
                   [] leaf = Lock             -> "transfer.lock"
                   [] leaf = "hydration.json" -> "runtime.hydration"

\* _scan_payload: an unsafe root, path or symlink.  Payload that merely differs
\* from the inventory is reported and hinders no repair.
PayloadFindings(b) == IF sound[b] = "unsafe" THEN {"bundle.paths"} ELSE {}

\* A record that is unreadable, or of an older schema, which needs `migrate`.
ManifestFindings(b) == IF sound[b] = "broken" THEN {"bundle.manifest"} ELSE {}

\* What is generated is compared with its inputs only if they can be trusted,
\* as far as the enabled checks have looked at them.
InputsHealthy(b, checks) ==
    ManifestFindings(b) = {} /\ PayloadFindings(b) \cap checks = {}

\* A lock without an owner is stale: also one that was made a moment ago.
LockState(content) == CASE content = "absent"                    -> "absent"
                        [] content \in {"empty", "dead", "orphan"} -> "stale"
                        [] OTHER                                  -> "live"

Outdated(t, checks) == InputsHealthy(t[1], checks) /\ At(t) # "fresh"

Amiss(t, checks) ==
    /\ CheckOf(t[2]) \in checks
    /\ CASE t[2] \in Generated      -> Outdated(t, checks)
         [] t[2] = Lock             -> LockState(At(t)) = "stale"
         [] t[2] = "hydration.json" -> At(t) = "dangling"

\* --since, or a budget that runs out, leaves bundles unscanned.
Fixable(checks, scanned) == {t \in scanned \X Leaf : Amiss(t, checks)}

\* _preflight_bundle_locks: a live lock blocks, a stale one has to be repaired
\* alone, a vanished one is a change after the diagnosis.
FixersOf(b, found) == {t \in found : t[1] = b}
PreflightOK(found) ==
    \A b \in {t[1] : t \in found} :
        CASE LockState(file[b][Lock]) = "live"  -> FALSE
          [] LockState(file[b][Lock]) = "stale" -> FixersOf(b, found) = {<<b, Lock>>}
          [] OTHER                              -> <<b, Lock>> \notin found
ToLock(found) == {b \in {t[1] : t \in found} : LockState(file[b][Lock]) = "absent"}

Rank(leaf) == CASE leaf = "README.md" -> 1 [] leaf = "SHA256SUMS" -> 2
                [] leaf = "hydration.json" -> 3 [] leaf = Lock -> 0
Before(s, t) ==
    IF (s[2] = Lock) # (t[2] = Lock) THEN s[2] = Lock
    ELSE s[1] < t[1] \/ (s[1] = t[1] /\ Rank(s[2]) < Rank(t[2]))

\* What is undone is undone in the opposite order, the last action first.
Sooner(p, q) == p.turn > q.turn \/ (p.turn = q.turn /\ Before(p.target, q.target))

-----------------------------------------------------------------------------
(***************************************************************************)
(* The journals.                                                           *)
(***************************************************************************)
Pending(act) == act.outcome \in {"pending", "failed"}
Unresolved   == {i \in DOMAIN runs : \E k \in DOMAIN runs[i].acts : Pending(runs[i].acts[k])}
Now          == Len(runs)
NewRun(kind) == Append(runs, [kind |-> kind, acts |-> <<>>])
LastAct      == Len(runs[Now].acts)
Current      == runs[Now].acts[LastAct]
Closed(out)  == [runs EXCEPT ![Now].acts[LastAct].outcome = out]

\* _prepare_undo: what is as it was before is left alone, what is neither as
\* before nor as after refuses the whole undo.
Due(i) == {k \in DOMAIN runs[i].acts : runs[i].acts[k].outcome # "undone"}
ChangedButFirst(i) == {k \in Due(i) : k > 1 /\ At(runs[i].acts[k].target) # runs[i].acts[k].before}
Changed(i) == {k \in Due(i) : At(runs[i].acts[k].target) # runs[i].acts[k].before}
Undoable(i) == \A k \in Changed(i) : At(runs[i].acts[k].target) = runs[i].acts[k].after
InversePlans(i) ==
    {[target |-> runs[i].acts[k].target, expect |-> runs[i].acts[k].after,
      to |-> runs[i].acts[k].before, turn |-> k] : k \in Changed(i)}

\* _action_recovery_state of an interrupted action.
RecoveryStateLater(a) == IF At(a.target) = a.after THEN "after" ELSE "divergent"
RecoveryState(a) == IF At(a.target) = a.before THEN "before"
                    ELSE IF At(a.target) = a.after THEN "after" ELSE "divergent"

-----------------------------------------------------------------------------
Init ==
    /\ file \in [Bundle -> [Leaf -> Content]]
    /\ \A t \in Target :
          At(t) \in Contents(t[2]) \ {"edited", "empty", "live", "doctor", "orphan"}
    /\ sound = [b \in Bundle |-> "ok"]
    /\ session = [b \in Bundle |-> "none"] /\ blank = [b \in Bundle |-> "none"]
    /\ runs = <<>> /\ pc = "idle" /\ mode = "fix" /\ plans = {}
    /\ wanted = {} /\ held = {} /\ source = 0 /\ moved = "absent" /\ exit = "none"
    /\ start = file /\ others = {} /\ raced = FALSE /\ faults = 0

Fault == faults < MaxFaults /\ faults' = faults + 1
Goto(place) == pc' = place
Write(t, content) == file' = [file EXCEPT ![t[1]][t[2]] = content]

Begin(kind, steps, locks, of) ==
    /\ runs' = NewRun(kind) /\ mode' = kind
    /\ plans' = steps /\ wanted' = locks /\ held' = {} /\ source' = of
    /\ Goto("lock")
    /\ start' = file /\ others' = {} /\ exit' = "none"
    /\ UNCHANGED <<file, sound, session, blank, moved, raced, faults>>

\* `doctor --fix`, for all checks or for one of them.  A diagnosis is the same
\* without the plans, and changes nothing but its own evidence.
Fix(checks, scanned) ==
    LET found == Fixable(checks, scanned)
        steps == {[target |-> t, expect |-> At(t),
                   to |-> IF t[2] \in Generated THEN "fresh" ELSE "absent",
                   turn |-> 0] : t \in found}
    IN  /\ pc = "idle" /\ Now < MaxRuns /\ Unresolved = {}
        /\ found # {} /\ PreflightOK(found)
        /\ Begin("fix", steps, ToLock(found), 0)

\* `doctor undo i`: every other run must be resolved.  Of an interrupted run the
\* locks its dead doctor left behind may be reclaimed, and only those.
Recovering(i) == i \in Unresolved
UndoLocks(i) ==
    LET targets == {runs[i].acts[k].target : k \in Changed(i)}
        touched == IF Recovering(i)
                   THEN {runs[i].acts[k].target : k \in DOMAIN runs[i].acts} ELSE {}
    IN  {t[1] : t \in {u \in targets \cup touched : u[2] # Lock}}
RestoresLock(i) == {runs[i].acts[k].target[1] : k \in {x \in Changed(i) :
                                                         runs[i].acts[x].target[2] = Lock}}
UndoPreflightOK(i) ==
    /\ RestoresLock(i) \cap UndoLocks(i) = {}
    /\ \A b \in RestoresLock(i) : file[b][Lock] = "absent"
    /\ \A b \in UndoLocks(i) : \/ file[b][Lock] = "absent"
                               \/ Recovering(i) /\ file[b][Lock] = "orphan"

Accepts(i) == Unresolved \subseteq {i} /\ Undoable(i) /\ UndoPreflightOK(i)

Undo(i) ==
    /\ pc = "idle" /\ Now < MaxRuns /\ runs[i].acts # <<>> /\ Accepts(i)
    /\ Begin("undo", InversePlans(i), UndoLocks(i), i)

\* `doctor gc --before`: the evidence of earlier runs goes, never the latest one's.
Gc(n) ==
    /\ pc = "idle" /\ Unresolved = {}
    /\ n < Now /\ runs[n].acts # <<>>
    /\ runs' = [i \in DOMAIN runs |-> IF i > n THEN runs[i]
                                      ELSE [runs[i] EXCEPT !.acts = <<>>]]
    /\ exit' = "none"
    /\ UNCHANGED <<file, sound, session, blank, doctor, ghosts, faults>>

\* _bundle_mutation_lock, for one bundle after the other: an exclusive create, and
\* then the owner is written into what was created.  A recovery looks first, twice,
\* and unlinks by name what it took for its dead doctor's lock.
Turn(b) == b \in wanted /\ \A c \in wanted : b <= c
InRecovery == mode = "undo" /\ Recovering(source)
ReclaimableByAny(b) == InRecovery
Reclaimable(b) == InRecovery /\ file[b][Lock] = "orphan"
Blocked == Goto("release") /\ exit' = "error"

Look(b) ==
    /\ pc = "lock" /\ Turn(b) /\ InRecovery /\ file[b][Lock] # "absent"
    /\ IF Reclaimable(b) THEN Goto("unlink") /\ UNCHANGED exit ELSE Blocked
    /\ UNCHANGED <<file, sound, session, blank, runs, mode, plans, wanted, held, source,
                   moved, ghosts, faults>>

\* What is under the name by now goes; if nothing is, that is an error.
Unlink(b) ==
    /\ pc = "unlink" /\ Turn(b)
    /\ IF file[b][Lock] = "absent" THEN Blocked ELSE Goto("create") /\ UNCHANGED exit
    /\ Write(<<b, Lock>>, "absent") /\ blank' = [blank EXCEPT ![b] = "none"]
    /\ UNCHANGED <<sound, session, runs, mode, plans, wanted, held, source, moved, ghosts,
                   faults>>

Create(b) ==
    /\ Turn(b)
    /\ pc = "create" \/ (pc = "lock" /\ (InRecovery => file[b][Lock] = "absent"))
    /\ IF file[b][Lock] = "absent"
       THEN /\ Write(<<b, Lock>>, "empty") /\ blank' = [blank EXCEPT ![b] = "doctor"]
            /\ Goto("own") /\ UNCHANGED exit
       ELSE Blocked /\ UNCHANGED <<file, blank>>
    /\ UNCHANGED <<sound, session, runs, mode, plans, wanted, held, source, moved, ghosts,
                   faults>>

\* The owner goes into the file that was created, wherever that is by now.
Own(b) ==
    /\ pc = "own" /\ Turn(b)
    /\ IF blank[b] = "doctor"
       THEN Write(<<b, Lock>>, "doctor") /\ blank' = [blank EXCEPT ![b] = "none"]
       ELSE UNCHANGED <<file, blank>>
    /\ held' = held \cup {b} /\ wanted' = wanted \ {b} /\ Goto("lock")
    /\ UNCHANGED <<sound, session, runs, mode, plans, source, moved, exit, ghosts, faults>>

\* If that fails, the lock is removed by name.
OwnFails(b) ==
    /\ pc = "own" /\ Turn(b) /\ Fault
    /\ Write(<<b, Lock>>, "absent") /\ blank' = [blank EXCEPT ![b] = "none"]
    /\ Blocked
    /\ UNCHANGED <<sound, session, runs, mode, plans, wanted, held, source, moved, ghosts>>

Acquired ==
    /\ pc = "lock" /\ wanted = {}
    /\ Goto("apply")
    /\ UNCHANGED <<file, sound, session, blank, runs, mode, plans, wanted, held, source,
                   moved, exit, ghosts, faults>>

\* _apply_finding looks at the inputs again, then mutate at the file itself.
Sensible(p) ==
    mode = "fix" =>
        CASE p.target[2] \in Generated      -> sound[p.target[1]] = "ok"
          [] p.target[2] = Lock             -> LockState(At(p.target)) # "live"
          [] p.target[2] = "hydration.json" -> At(p.target) # "good"
AsDiagnosed(p) == At(p.target) = p.expect

Prepare ==
    /\ pc = "apply"
    /\ \E p \in plans :
        /\ \A q \in plans \ {p} : Sooner(p, q)
        /\ IF Sensible(p) /\ AsDiagnosed(p)
           THEN /\ runs' = [runs EXCEPT ![Now].acts =
                     Append(@, [target |-> p.target, before |-> At(p.target), after |-> p.to,
                                outcome |-> "pending"])]
                /\ plans' = plans \ {p} /\ Goto("check")
           ELSE Goto("fail") /\ UNCHANGED <<runs, plans>>
    /\ UNCHANGED <<file, sound, session, blank, mode, wanted, held, source, moved, exit,
                   ghosts, faults>>

\* A step of a mutation fails.  What was committed, or looks as if it had been,
\* is compensated, unless a new file stands where the quarantined one belongs;
\* the terminal event is written if it can be.
LooksCommitted == \/ pc = "verify"
                  \/ Current.after # "absent" /\ At(Current.target) = Current.after

\* The doctor puts content in the place of its target.  The lock of an archive
\* cannot be told from a stale one while its owner is not in it.
Place(content) ==
    LET t == Current.target
    IN  /\ Write(t, content)
        /\ blank' = IF t[2] = Lock THEN [blank EXCEPT ![t[1]] = "none"] ELSE blank
        /\ raced' = (raced \/ (t[2] = Lock /\ blank[t[1]] = "archive"))

Compensated ==
    IF ~LooksCommitted
    THEN /\ UNCHANGED <<file, blank, raced>>
         /\ runs' \in {runs, Closed(IF At(Current.target) = Current.before
                                    THEN "undone" ELSE "failed")}
    ELSE IF Current.after = "absent" /\ At(Current.target) # "absent"
    THEN UNCHANGED <<file, blank, raced>> /\ runs' \in {runs, Closed("failed")}
    ELSE /\ Place(IF Current.after = "absent" THEN moved ELSE Current.before)
         /\ runs' \in {runs, Closed("undone")}

\* Ctrl-C is not followed by a rollback of the other actions, an error is.
Stumble(place) ==
    /\ Compensated
    /\ Goto(place) /\ exit' = IF place = "release" THEN "interrupt" ELSE exit
    /\ UNCHANGED <<sound, session, mode, plans, wanted, held, source, moved, start, others>>

Mishap == /\ pc \in {"check", "commit", "verify"} /\ Fault
          /\ \E place \in {"fail", "release"} : Stumble(place)

\* The last look: a file that changed since is left alone.
UnchangedIfPresent == (At(Current.target) = "absent") = (Current.before = "absent")
Unchanged == At(Current.target) = Current.before
Check ==
    /\ pc = "check"
    /\ \/ /\ Unchanged /\ Goto("commit")
          /\ UNCHANGED <<file, sound, session, blank, runs, mode, plans, wanted, held,
                         source, moved, exit, ghosts>>
       \/ ~Unchanged /\ Stumble("fail")
    /\ UNCHANGED faults

\* The replace, or the rename into the quarantine, of whatever is there by now.
Commit ==
    /\ pc = "commit" /\ (Current.after = "absent" => At(Current.target) # "absent")
    /\ Place(Current.after)
    /\ moved' = At(Current.target)
    /\ Goto("verify")
    /\ UNCHANGED <<sound, session, runs, mode, plans, wanted, held, source, exit, start,
                   others, faults>>

Verified == /\ At(Current.target) = Current.after
            /\ Current.after = "absent" => moved = Current.before
Finish ==
    /\ pc = "verify" /\ Verified
    /\ runs' = Closed("ok") /\ Goto("apply")
    /\ UNCHANGED <<file, sound, session, blank, mode, plans, wanted, held, source, moved,
                   exit, ghosts, faults>>

NotVerified == pc = "verify" /\ ~Verified /\ UNCHANGED faults /\ Stumble("fail")
NothingToMove ==
    /\ pc = "commit" /\ Current.after = "absent" /\ At(Current.target) = "absent"
    /\ UNCHANGED faults /\ Stumble("fail")

\* After an error the actions that succeeded are undone, as a run of their own,
\* if all of them can be.  An error in that run is only logged.
Succeeded == {k \in DOMAIN runs[Now].acts : runs[Now].acts[k].outcome = "ok"}
RollBack ==
    /\ pc = "fail" /\ Now < MaxRuns
    /\ mode = "undo" \/ (mode = "fix" /\ Succeeded # {})
    /\ IF Undoable(Now)
       THEN /\ runs' = NewRun("rollback") /\ mode' = "rollback"
            /\ plans' = InversePlans(Now) /\ Goto("apply") /\ UNCHANGED exit
       ELSE /\ Goto("release") /\ exit' = "error" /\ UNCHANGED <<runs, mode, plans>>
    /\ UNCHANGED <<file, sound, session, blank, wanted, held, source, moved, ghosts,
                   faults>>

GiveUp ==
    /\ pc = "fail"
    /\ mode = "rollback" \/ (mode = "fix" /\ Succeeded = {})
    /\ Goto("release") /\ exit' = "error"
    /\ UNCHANGED <<file, sound, session, blank, runs, mode, plans, wanted, held, source,
                   moved, ghosts, faults>>

\* All fixers are through: the bundles are scanned once more and what is left
\* over makes the exit code.  Nothing more is written but the report.
Reported ==
    /\ pc = "apply" /\ plans = {} /\ mode = "fix"
    /\ Goto("release") /\ exit' = "fixed"
    /\ UNCHANGED <<file, sound, session, blank, runs, mode, plans, wanted, held, source,
                   moved, ghosts, faults>>

\* An undo or a rollback is through with its plans.  An undo marks the actions it recovered by one line,
\* or is rolled back when it cannot.
Recovered(i) == [runs EXCEPT ![i].acts = [k \in DOMAIN @ |->
                    IF Pending(@[k]) THEN [@[k] EXCEPT !.outcome = "undone"] ELSE @[k]]]
AllDone ==
    /\ pc = "apply" /\ plans = {}
    /\ \/ /\ mode = "undo" /\ runs' = Recovered(source)
          /\ Goto("release") /\ exit' = "undone" /\ UNCHANGED faults
       \/ /\ mode = "undo" /\ Recovering(source) /\ Fault
          /\ Goto("fail") /\ UNCHANGED <<runs, exit>>
       \/ /\ mode = "rollback" /\ UNCHANGED <<runs, faults>>
          /\ Goto("release") /\ exit' = "reverted"
    /\ UNCHANGED <<file, sound, session, blank, mode, plans, wanted, held, source, moved,
                   ghosts>>

\* A lock that is no longer the doctor's own is left alone.
Release ==
    /\ pc = "release"
    /\ file' = [b \in Bundle |-> IF b \in held /\ file[b][Lock] = "doctor"
                                 THEN [file[b] EXCEPT ![Lock] = "absent"] ELSE file[b]]
    /\ Goto("idle") /\ exit' = "none"
    /\ plans' = {} /\ wanted' = {} /\ held' = {} /\ source' = 0 /\ moved' = "absent"
    /\ mode' = "fix" /\ start' = file'
    /\ UNCHANGED <<sound, session, blank, runs, others, raced, faults>>

\* The process dies: the operating system frees doctor.lock, bundle locks stay,
\* the one that was being made without an owner.
Crash ==
    /\ pc # "idle" /\ Fault
    /\ file' = [b \in Bundle |-> IF file[b][Lock] = "doctor"
                                 THEN [file[b] EXCEPT ![Lock] = "orphan"] ELSE file[b]]
    /\ blank' = [b \in Bundle |-> IF blank[b] = "doctor" THEN "none" ELSE blank[b]]
    /\ Goto("idle") /\ plans' = {} /\ wanted' = {} /\ held' = {} /\ source' = 0
    /\ moved' = "absent" /\ exit' = "none"
    /\ mode' = "fix" /\ start' = file'
    /\ UNCHANGED <<sound, session, runs, others, raced>>

-----------------------------------------------------------------------------
(***************************************************************************)
(* Everybody else.                                                         *)
(***************************************************************************)
\* Between the doctor's last look at a file and what it does under the file's name.
InWindow(t) == \/ pc \in {"commit", "verify"} /\ t = Current.target
               \/ pc \in {"unlink", "own"} /\ Turn(t[1]) /\ t[2] = Lock
ByOthers(t, content) ==
    /\ Write(t, content) /\ others' = others \cup {t}
    /\ raced' = (raced \/ InWindow(t))
    /\ start' = IF pc = "idle" THEN file' ELSE start
    /\ UNCHANGED <<sound, runs, doctor, exit>>

\* An archive takes the lock of a bundle (transfer.py), gives it back, or dies.  It
\* creates the lock and writes its owner; a lock it judged stale it unlinks by name,
\* and creates its own unless somebody is faster.  One archive for each bundle:
\* module TransferLock has the archives of a bundle among themselves.
SessionGoto(b, stage) == session' = [session EXCEPT ![b] = stage]
SessionMakes(b) ==
    /\ SessionGoto(b, "starting") /\ blank' = [blank EXCEPT ![b] = "archive"]
    /\ ByOthers(<<b, Lock>>, "empty")
SessionStart(b) ==
    /\ session[b] = "none" /\ file[b][Lock] = "absent" /\ Fault
    /\ SessionMakes(b)
SessionJudges(b) ==
    /\ session[b] = "none" /\ LockState(file[b][Lock]) = "stale" /\ Fault
    /\ SessionGoto(b, "judged")
    /\ UNCHANGED <<file, sound, blank, runs, doctor, exit, ghosts>>
SessionReclaims(b) ==
    /\ session[b] = "judged" /\ UNCHANGED faults
    /\ \/ SessionMakes(b)
       \/ /\ SessionGoto(b, "none") /\ blank' = [blank EXCEPT ![b] = "none"]
          /\ ByOthers(<<b, Lock>>, "absent")
SessionOwns(b) ==
    /\ session[b] = "starting" /\ UNCHANGED faults
    /\ SessionGoto(b, "runs")
    /\ IF blank[b] = "archive"
       THEN blank' = [blank EXCEPT ![b] = "none"] /\ ByOthers(<<b, Lock>>, "live")
       ELSE UNCHANGED <<file, sound, blank, runs, doctor, exit, ghosts>>
SessionEnd(b) ==
    /\ session[b] = "runs" /\ file[b][Lock] = "live" /\ UNCHANGED <<faults, blank>>
    /\ SessionGoto(b, "none") /\ ByOthers(<<b, Lock>>, "absent")
SessionDies(b) ==
    /\ Fault /\ SessionGoto(b, "none")
    /\ \/ /\ session[b] = "runs" /\ file[b][Lock] = "live" /\ UNCHANGED blank
          /\ ByOthers(<<b, Lock>>, "dead")
       \/ /\ session[b] = "starting" /\ blank[b] = "archive"
          /\ blank' = [blank EXCEPT ![b] = "none"] /\ ByOthers(<<b, Lock>>, "empty")

\* verify, migrate, hydrate and the user write bundle files without any lock.
Edit(t) ==
    /\ t[2] # Lock /\ Fault
    /\ \E content \in Contents(t[2]) \ {At(t), "absent", "stale"} : ByOthers(t, content)
    /\ UNCHANGED <<session, blank>>

Spoil(b) ==
    /\ Fault /\ \E s \in Soundness \ {sound[b]} : sound' = [sound EXCEPT ![b] = s]
    /\ UNCHANGED <<file, session, blank, runs, doctor, exit, ghosts>>

Step == \/ \E b \in Bundle : Look(b) \/ Unlink(b) \/ Create(b) \/ Own(b)
        \/ Acquired \/ Prepare \/ Check \/ Commit \/ Finish \/ NotVerified
        \/ NothingToMove \/ RollBack \/ GiveUp \/ Reported \/ AllDone \/ Release

Command == \/ \E checks \in {Checks} \cup {{c} : c \in Checks} :
                  \E scanned \in {Bundle} \cup {{b} : b \in Bundle} : Fix(checks, scanned)
           \/ \E i \in DOMAIN runs : Undo(i) \/ Gc(i)

Others == \/ \E b \in Bundle : \/ SessionStart(b) \/ SessionJudges(b) \/ SessionReclaims(b)
                              \/ SessionOwns(b) \/ SessionEnd(b) \/ SessionDies(b)
                              \/ Spoil(b)
          \/ \E t \in Target : Edit(t)

Next == Step \/ Command \/ Mishap \/ (\E b \in Bundle : OwnFails(b)) \/ Crash \/ Others

Spec == Init /\ [][Next]_vars
\* Bounds of the runs: archives come to the last bundle only (the doctor takes the
\* locks in order, and may hold the first by then), the bundles are not alike at
\* first, and a command in whose window somebody came is followed to its end and no
\* further.
LastArchived == \A b, c \in Bundle : b < c => session[b] = "none"
Unlike == runs = <<>> /\ faults = 0 /\ pc = "idle" =>
    \A b, c \in Bundle : b # c => file[b]["README.md"] # file[c]["README.md"]
RacedToTheEnd == raced => pc # "idle"
-----------------------------------------------------------------------------
(***************************************************************************)
(* Properties.                                                             *)
(***************************************************************************)
\* A file the doctor replaces, quarantines or puts back held what a journaled
\* action of this vault says it held before or after; what another command or
\* the user wrote meanwhile stands, unless it was written between the doctor's
\* last look and its rename (doctor.py:816-834).
Journaled(t) == UNION {{runs[i].acts[k] : k \in {x \in DOMAIN runs[i].acts :
                           runs[i].acts[x].target = t}} : i \in DOMAIN runs}
EditStands == [][
    <<doctor, runs>>' # <<doctor, runs>> =>
        \A t \in Target : \/ At(t)' = At(t) \/ raced
                          \/ /\ t[2] = Lock
                             /\ {At(t), At(t)'} \subseteq {"absent", "empty", "doctor", "orphan"}
                          \/ At(t) \in UNION {{a.before, a.after} : a \in Journaled(t)}]_vars

\* The lock of a running archive is never taken away by a repair, an undo or a
\* rollback: they diagnose, then act, while sessions begin and end.  Except in the
\* windows of the code itself: the lock came under the name between the doctor's last
\* look and its unlink or rename (doctor.py:1153-1158, 816-834), while a lock the
\* doctor could not finish is removed by name (1180-1183), or its archive had not
\* written the owner yet, and a lock without one is stale (1046-1079).
LiveLockStays == \A b \in Bundle : session[b] = "runs" => raced \/ file[b][Lock] = "live"

\* A repair that failed and was rolled back leaves every file as it was when the
\* command began; an undo that is through with its plans has
\* every file back as it was before the run it undoes; files others changed meanwhile excepted.
AllOrNothing ==
    /\ exit = "reverted" => \A t \in Target \ others : At(t) = start[t[1]][t[2]] \/ t[2] = Lock
    /\ (pc = "apply" /\ mode = "undo" /\ plans = {}) =>
           \A k \in Due(source) :
              LET a == runs[source].acts[k] IN At(a.target) = a.before \/ a.target \in others

\* An action that was interrupted can be told to have happened or not, unless
\* others changed its file.
InterruptedIsKnown ==
    (pc = "idle" /\ runs # <<>>) =>
        \A k \in DOMAIN runs[Now].acts :
            LET a == runs[Now].acts[k]
            IN  Pending(a) => a.target \in others \/ RecoveryState(a) # "divergent"

\* What an interruption leaves can always be recovered by an undo, as long as no
\* one else touches the files (docs/DOCTOR.md, "fail closed with exit 4") and the
\* doctor did not die between creating a bundle's lock and writing its owner: the
\* next one does not take such a lock for its own (doctor.py:1082-1107).
AlwaysRecoverable ==
    (pc = "idle" /\ Unresolved # {} /\ others = {} /\ Now < MaxRuns
     /\ \A b \in Bundle : session[b] = "none" /\ file[b][Lock] # "empty") =>
        \E i \in Unresolved : Accepts(i)
=============================================================================
