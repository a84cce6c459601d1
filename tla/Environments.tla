---------------------------- MODULE Environments ----------------------------
(***************************************************************************)
(* The shared environments under .runtime/envs/<key> (hydrate.py): built   *)
(* by hydrate for any bundle with the same requirements, taken to be whole *)
(* when env.json is in them, named by each bundle's hydration.json, used   *)
(* by run, and removed by `envs --prune` when no bundle of its vault names *)
(* them.  No lock guards them.                                             *)
(***************************************************************************)
EXTENDS Naturals, FiniteSets

CONSTANTS Bundle,   \* bundles that hydrate with the same loose requirements
          VaultOf,  \* the vault each lies in
          Proc,
          MaxRuns,  \* commands started
          MaxFaults \* crashes

VARIABLES env,       \* the directory of each key
          hydration, \* the env each bundle's hydration.json names, if it has one
          proc,
          runs, faults,
          swept,     \* an env was removed under a command that was building it
          late,      \* a hydration.json was written while a prune was under way
          halfClear  \* a crash left an env half removed

vars == <<env, hydration, proc, runs, faults, swept, late, halfClear>>

\* The key hashes the requirements: as the registry has them, or pinned to the
\* packages the last hydration recorded.
Keys == {"loose", "pinned"}
None == "none"

\* body: the interpreter and packages; marker: env.json, written last.
NoEnv  == [body |-> "none", marker |-> FALSE, by |-> 0]
Absent(k) == env[k] = NoEnv

Idle == [pc |-> "idle", bundle |-> None, key |-> None, force |-> FALSE, run |-> FALSE,
         list |-> {}]

Init ==
  /\ env = [k \in Keys |-> NoEnv]
  /\ hydration = [b \in Bundle |-> None]
  /\ proc = [p \in Proc |-> Idle]
  /\ runs = 0 /\ faults = 0
  /\ swept = FALSE /\ late = FALSE /\ halfClear = FALSE

Goto(p, pc) == proc' = [proc EXCEPT ![p].pc = pc]
Others(p, k) == \E q \in Proc \ {p} :
                  proc[q].key = k /\ proc[q].pc \in {"install", "register"}
Touch(p, k)  == swept' = (swept \/ Others(p, k))
Still        == UNCHANGED <<hydration, runs, faults, late, halfClear>>

-----------------------------------------------------------------------------
(* hydrate_bundle: the env the last hydration names is kept while it is      *)
(* registered; without it the pins of that hydration make a key of their     *)
(* own; --force takes the loose requirements and rebuilds.                   *)
KeyFor(b, force) ==
  IF force \/ hydration[b] = None THEN "loose"
  ELSE IF env[hydration[b]].marker THEN hydration[b] ELSE "pinned"

Command(p, job) ==
  /\ proc[p] = Idle /\ runs < MaxRuns
  /\ proc' = [proc EXCEPT ![p] = job]
  /\ runs' = runs + 1
  /\ UNCHANGED <<env, hydration, faults, swept, late, halfClear>>

ToHydrate(b, force) ==
  [Idle EXCEPT !.bundle = b, !.key = KeyFor(b, force), !.force = force, !.pc = "ensure"]

Hydrate(p, b, force) == Command(p, ToHydrate(b, force))

\* run_bundle: a bundle that was never hydrated, or whose env has lost its
\* interpreter, is hydrated first; nothing else about the env is looked at.
Stale(b) == hydration[b] = None \/ env[hydration[b]].body = "none"
Run(p, b) ==
  Command(p, [(IF Stale(b) THEN ToHydrate(b, FALSE)
               ELSE [Idle EXCEPT !.bundle = b, !.key = hydration[b], !.pc = "infer"])
              EXCEPT !.run = TRUE])

\* ensure_env: an env with its marker is reused unless --force; what else is
\* there is removed, entry by entry.
\* Mutated: an env is taken to be whole when its directory has an interpreter.
RegisteredByBody(k) == env[k].body # "none"
Registered(k) == env[k].marker

Ensure(p) ==
  LET k == proc[p].key IN
  /\ proc[p].pc = "ensure"
  /\ IF Registered(k) /\ ~proc[p].force
     THEN Goto(p, "probe")
     ELSE Goto(p, IF Absent(k) THEN "mkdir" ELSE "clear")
  /\ UNCHANGED <<env, swept>> /\ Still

Entries(e) == {x \in {"body", "marker"} : IF x = "body" THEN e.body # "none" ELSE e.marker}
Without(e, x) == IF x = "marker" THEN [e EXCEPT !.marker = FALSE]
                 ELSE [e EXCEPT !.body = IF @ = "whole" THEN "half" ELSE "none"]

RemoveEntry(p) ==
  LET k == proc[p].key IN
  /\ proc[p].pc \in {"clear", "fail", "sweep"}
  /\ \E x \in Entries(env[k]) : env' = [env EXCEPT ![k] = Without(@, x)]
  /\ Touch(p, k)
  /\ UNCHANGED proc /\ Still

RemoveEnds(p) ==
  LET k == proc[p].key IN
  /\ proc[p].pc \in {"clear", "fail", "sweep"} /\ Entries(env[k]) = {}
  /\ env' = [env EXCEPT ![k] = NoEnv]
  /\ proc' = CASE proc[p].pc = "clear" -> [proc EXCEPT ![p].pc = "mkdir"]
               [] proc[p].pc = "fail"  -> [proc EXCEPT ![p] = Idle]
               [] proc[p].pc = "sweep" -> [proc EXCEPT ![p].pc = "prune", ![p].key = None]
  /\ UNCHANGED swept /\ Still

\* mkdir fails on a directory that appeared meanwhile; the command ends.
Mkdir(p) ==
  LET k == proc[p].key IN
  /\ proc[p].pc = "mkdir"
  /\ IF Absent(k) THEN /\ env' = [env EXCEPT ![k].body = "half", ![k].by = p]
                       /\ Goto(p, "install")
     ELSE proc' = [proc EXCEPT ![p] = Idle] /\ UNCHANGED env
  /\ UNCHANGED swept /\ Still

\* The installer runs.  It fails, or believes it is done; what it installed is
\* whole only if nobody removed or rebuilt the directory under it.
Install(p) ==
  LET k == proc[p].key IN
  /\ proc[p].pc = "install"
  /\ \/ Goto(p, "fail") /\ UNCHANGED env
     \/ /\ env[k].body # "none"
        /\ env' = [env EXCEPT ![k].body = IF env[k].by = p THEN "whole" ELSE "half"]
        /\ Goto(p, "register")
  /\ UNCHANGED swept /\ Still

\* env.json is written last; in a directory that is gone the write fails.
RegisterEnv(p) ==
  LET k == proc[p].key IN
  /\ proc[p].pc = "register"
  /\ IF Absent(k) THEN proc' = [proc EXCEPT ![p] = Idle] /\ UNCHANGED env
     ELSE /\ env' = [env EXCEPT ![k].marker = TRUE]
          /\ Goto(p, "probe")
  /\ UNCHANGED swept /\ Still

Names(p) ==
  /\ hydration' = [hydration EXCEPT ![proc[p].bundle] = proc[p].key]
  /\ late' = (late \/ \E q \in Proc : proc[q].pc \in {"prune", "sweep"})
  /\ UNCHANGED <<env, runs, faults, swept, halfClear>>

\* The probe runs inside the env; its result is recorded, passing or failing.
WriteHydration(p) ==
  /\ proc[p].pc = "probe"
  /\ proc' = [proc EXCEPT ![p] = IF proc[p].run THEN [@ EXCEPT !.pc = "infer"] ELSE Idle]
  /\ Names(p)

\* After the inference the record that was read before it is written back.
RecordRun(p) ==
  /\ proc[p].pc = "infer" /\ proc' = [proc EXCEPT ![p] = Idle] /\ Names(p)

\* There is no interpreter to start: the command ends with nothing recorded.
RunnerMissing(p) ==
  /\ proc[p].pc \in {"probe", "infer"} /\ env[proc[p].key].body = "none"
  /\ proc' = [proc EXCEPT ![p] = Idle]
  /\ UNCHANGED <<env, swept>> /\ Still

\* dehydrate_bundle.
Dehydrate(b) ==
  /\ hydration[b] # None
  /\ hydration' = [hydration EXCEPT ![b] = None]
  /\ UNCHANGED <<env, proc, runs, faults, swept, late, halfClear>>

-----------------------------------------------------------------------------
(* prune_envs lists the registered envs no hydration.json of this vault      *)
(* names, then removes them one after the other.                             *)
\* Mutated: bundles are only looked for under one name.
ReferencesOfOne(v) ==
  LET b == CHOOSE c \in Bundle : VaultOf[c] = v IN {hydration[b]}
References(v) == {hydration[b] : b \in {c \in Bundle : VaultOf[c] = v}}

Prune(p, v) ==
  Command(p, [Idle EXCEPT !.pc = "prune", !.bundle = v,
                          !.list = {k \in Keys : env[k].marker} \ References(v)])

PruneNext(p) ==
  /\ proc[p].pc = "prune"
  /\ \/ /\ proc[p].list = {} /\ proc' = [proc EXCEPT ![p] = Idle]
     \/ \E k \in proc[p].list :
          proc' = [proc EXCEPT ![p].pc = "sweep", ![p].key = k, ![p].list = @ \ {k}]
  /\ UNCHANGED <<env, swept>> /\ Still

Crash(p) ==
  /\ proc[p] # Idle /\ faults < MaxFaults
  /\ faults' = faults + 1
  /\ halfClear' = (halfClear \/ proc[p].pc \in {"clear", "fail", "sweep"})
  /\ proc' = [proc EXCEPT ![p] = Idle]
  /\ UNCHANGED <<env, hydration, runs, swept, late>>

Step(p) ==
  \/ \E b \in Bundle : Run(p, b) \/ \E force \in BOOLEAN : Hydrate(p, b, force)
  \/ \E v \in {VaultOf[b] : b \in Bundle} : Prune(p, v)
  \/ Ensure(p) \/ RemoveEntry(p) \/ RemoveEnds(p) \/ Mkdir(p) \/ Install(p) \/ RegisterEnv(p)
  \/ WriteHydration(p) \/ RecordRun(p) \/ RunnerMissing(p) \/ PruneNext(p) \/ Crash(p)

Next == (\E p \in Proc : Step(p)) \/ (\E b \in Bundle : Dehydrate(b))

Spec == Init /\ [][Next]_vars

-----------------------------------------------------------------------------
Removing(k) == \E p \in Proc : proc[p].key = k /\ proc[p].pc \in {"clear", "fail", "sweep"}

(* "A broken env is never registered" (hydrate.py:442-444), nor used: a      *)
(* command that goes on to its probe or its inference does so in a whole     *)
(* env, reused or built by itself, unless the env is being removed, a crash  *)
(* cut a removal short, or it was removed under the command that was         *)
(* building it.  A run looks for the interpreter only, so it may also meet   *)
(* an env that is not registered.                                            *)
Uses(p, pc) == proc[p].pc # pc /\ proc'[p].pc = pc
ProbedIsWhole ==
  [][ \A p \in Proc : (Uses(p, "probe") \/ (Uses(p, "infer") /\ env[proc'[p].key].marker)) =>
        LET k == proc'[p].key IN \/ env[k].body = "whole"
                                 \/ Removing(k) \/ swept \/ halfClear ]_vars

(* prune takes no env away that a bundle of its vault referenced when it     *)
(* listed them and references still: only a hydrate that was on its way      *)
(* meanwhile can lose its env.                                               *)
PruneKeepsListed ==
  [][ \A p \in Proc : (proc[p].pc # "sweep" /\ proc'[p].pc = "sweep") =>
        \/ late
        \/ \A b \in Bundle : VaultOf[b] = proc[p].bundle => hydration[b] # proc'[p].key ]_vars
=============================================================================
