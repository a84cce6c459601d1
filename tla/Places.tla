------------------------------- MODULE Places -------------------------------
(***************************************************************************)
(* Where one bundle lives: `darsay mv` and `darsay cp` take it from vault  *)
(* to vault (relocate.py), `export` and `import` take it through a tar     *)
(* (export.py).  Homes are the directories <vault>/<name>/<rev>; a copy is *)
(* made in a staging directory beside the home (.mv-<rev>, .cp-<rev>,      *)
(* .import-<rev>), one per verb, and renamed into place once it verified.  *)
(* The verbs of several processes interleave, each may crash between any   *)
(* two steps, a copy may come out wrong and a file may rot.                *)
(***************************************************************************)
EXTENDS Naturals, FiniteSets, FiniteSetsExt

CONSTANTS Vault,      \* the vaults
          First,      \* those that may hold it at first
          Disk,       \* the filesystem each of them is on
          Files,      \* payload files of the bundle: 1..Files, as they sort
          Cmd,        \* processes that run a verb
          MaxRuns,    \* verbs started
          MaxFaults   \* crashes, errors on the way, wrong copies and rot

ASSUME PlacesAssumption == /\ Files \in Nat \ {0}
                           /\ MaxRuns \in Nat /\ MaxFaults \in Nat
                           /\ "none" \notin Vault
                           /\ "free" \notin Cmd /\ "dead" \notin Cmd

VARIABLES home,      \* the bundle's directory in each vault
          staging,   \* the staging directories beside it
          tar,       \* the export: the payload in it, if there is one
          cmd,       \* what each process is doing
          runs, faults,
          rotten,    \* payload files that changed by themselves
          raced,     \* what a verb works on was swept away by another or rotted
          lapsed     \* homes a verb left with a record it brought but did not stamp

vars == <<home, staging, tar, cmd, runs, faults, rotten, raced, lapsed>>

File    == 1..Files
LockFile == Files + 1     \* transfer.lock, as an entry of a directory
Content == {"none", "half", "bad", "good"}
Nothing == [f \in File |-> "none"]
Payload == [f \in File |-> "good"]
Truncated == [f \in File |-> "half"]

Free == "free"
Dead == "dead"
NoRecord == [loc |-> "none", verdict |-> "none", replicas |-> {}]
Record(v, verdict) == [NoRecord EXCEPT !.loc = v, !.verdict = verdict]
Empty == [files |-> Nothing, record |-> NoRecord, lock |-> Free]

Registered(h) == h.record # NoRecord
Whole(h)      == h.files = Payload
Occupied(h)   == h # Empty

Verbs  == {"mv", "cp", "import"}
Stages == [op : Verbs, at : Vault]
Stage(c) == [op |-> cmd[c].op, at |-> cmd[c].dst]

Idle == [pc |-> "idle", op |-> "mv", src |-> "none", dst |-> "none",
         todo |-> {}, seen |-> {}]

-----------------------------------------------------------------------------
(* One whole home, at most one other that holds a partial without record or *)
(* a second whole copy; the export is absent or whole.                      *)
Init ==
  /\ \E first \in First, second \in Vault :
     \E held \in {Nothing, Payload, [Nothing EXCEPT ![1] = "bad"]} :
        home = [v \in Vault |->
                  IF v = first \/ (v = second /\ held = Payload)
                  THEN [files |-> Payload, record |-> Record(v, "pass"), lock |-> Free]
                  ELSE IF v = second THEN [Empty EXCEPT !.files = held] ELSE Empty]
  /\ staging = [s \in Stages |-> Empty]
  /\ tar \in {Nothing, Payload}
  /\ cmd = [c \in Cmd |-> Idle]
  /\ runs = 0 /\ faults = 0
  /\ rotten = 0 /\ raced = FALSE /\ lapsed = {}

Goto(c, pc)   == cmd' = [cmd EXCEPT ![c].pc = pc]
Counts        == UNCHANGED <<runs, faults, rotten>>
Still         == Counts /\ UNCHANGED <<raced, lapsed>>
Stamps(v)     == Counts /\ UNCHANGED raced /\ lapsed' = lapsed \ {v}
Races(raise)  == Counts /\ UNCHANGED lapsed /\ raced' = (raced \/ raise)
Unlocked(h, c) == IF h.lock = c THEN [h EXCEPT !.lock = Free] ELSE h

\* An error on the way: staging is swept (finally: rmtree), locks are released.
Working(c) == cmd[c].pc \in {"copy", "record", "place", "check", "clear", "clearing", "enter"}

Fail(c, homes) ==
  /\ home' = [v \in Vault |-> Unlocked(homes[v], c)]
  /\ staging' = IF Working(c) THEN [staging EXCEPT ![Stage(c)] = Empty] ELSE staging
  /\ cmd' = [cmd EXCEPT ![c] = Idle]

-----------------------------------------------------------------------------
(* relocation_plan: a partial is refused, the bundle must be elsewhere; what *)
(* the destination holds decides how the bundle will get there.              *)
Method(op, src, dst) ==
  IF Occupied(home[dst]) THEN "adopt"
  ELSE IF op = "mv" /\ Disk[src] = Disk[dst] THEN "rename" ELSE "stage"

Relocate(c, op, src, dst) ==
  /\ cmd[c] = Idle /\ runs < MaxRuns
  /\ src # dst /\ Registered(home[src])
  /\ cmd' = [cmd EXCEPT ![c] = [Idle EXCEPT !.pc = "lock", !.op = op, !.src = src, !.dst = dst,
                                            !.seen = {Method(op, src, dst)}]]
  /\ runs' = runs + 1
  /\ UNCHANGED <<home, staging, tar, faults, rotten, raced, lapsed>>

Lockable(v, c) == home[v].lock \in {Free, Dead, c}

\* The home c removes, and whether another verb has begun to take v away: rmtree
\* takes its transfer.lock as one entry among the others, so v can be locked anew
\* while the rest of it goes.
Doomed(c)   == IF cmd[c].pc = "clearing" THEN cmd[c].dst ELSE cmd[c].src
Sweeping(c) == cmd[c].pc \in {"removing", "clearing"} /\ cmd[c].todo # {}
Going(v, c) == \E d \in Cmd \ {c} : Sweeping(d) /\ Doomed(d) = v

\* transfer_lock(bundle_dir) around the whole verb; it makes the directory anew
\* when another verb took it away since the plan.
LockSource(c) ==
  /\ cmd[c].pc = "lock"
  /\ IF Lockable(cmd[c].src, c)
     THEN /\ home' = [home EXCEPT ![cmd[c].src].lock = c]
          /\ cmd' = [cmd EXCEPT ![c].pc = CHOOSE m \in cmd[c].seen : TRUE, ![c].seen = {}]
          /\ Races(Going(cmd[c].src, c)) /\ UNCHANGED staging
     ELSE Fail(c, home) /\ Still
  /\ UNCHANGED tar

-----------------------------------------------------------------------------
(* mv on one filesystem: os.rename refuses a destination that holds anything.*)
Rename(c) ==
  LET src == cmd[c].src  dst == cmd[c].dst IN
  /\ cmd[c].pc = "rename"
  /\ IF Occupied(home[dst]) \/ ~Occupied(home[src])
     THEN Fail(c, home)
     ELSE /\ home' = [home EXCEPT ![dst] = home[src], ![src] = Empty]
          /\ Goto(c, "arrived") /\ UNCHANGED staging
  /\ UNCHANGED tar /\ Still

\* _stamp_new_home, with the lock that travelled unlinked first.
\* Mutated: A replica is recorded, the location is not.
StampedReplica(h, op, v, other) ==
  [h EXCEPT !.record.replicas = IF op = "cp" THEN @ \cup {other} ELSE @,
            !.record.loc = IF op = "mv" THEN v ELSE @]

Stamped(h, op, v, other) ==
  LET r == h.record IN
  [h EXCEPT !.record = [r EXCEPT !.loc = v,
                                 !.replicas = IF op = "cp" THEN (@ \ {v}) \cup {other} ELSE @]]

Arrive(c) ==
  LET dst == cmd[c].dst
      bare == [home EXCEPT ![dst].lock = Free] IN
  /\ cmd[c].pc = "arrived"
  /\ Fail(c, IF Registered(home[dst])
             THEN [bare EXCEPT ![dst] = Stamped(bare[dst], "mv", dst, cmd[c].src)]
             ELSE bare)
  /\ UNCHANGED tar /\ Stamps(dst)

-----------------------------------------------------------------------------
(* _copy_and_verify.  The staging directory is cleared and made; the files   *)
(* are listed at once and copied as they sort: the record (0) comes first.   *)
Carries(h) == {f \in File : h.files[f] # "none"} \cup (IF Registered(h) THEN {0} ELSE {})

Sweeps(c)  == \E d \in Cmd \ {c} : Working(d) /\ Stage(d) = Stage(c)

MakeStaging(c) ==
  /\ cmd[c].pc = "stage"
  /\ staging' = [staging EXCEPT ![Stage(c)] = Empty]
  /\ Races(Sweeps(c))
  /\ cmd' = [cmd EXCEPT ![c].pc = "copy", ![c].todo = Carries(home[cmd[c].src])]
  /\ UNCHANGED <<home, tar>>

Copied(to, from, item) == IF item = 0 THEN [to EXCEPT !.record = from.record]
                          ELSE [to EXCEPT !.files[item] = from.files[item]]

CopyNext(c) ==
  LET src == home[cmd[c].src]
      item == Min(cmd[c].todo) IN
  /\ cmd[c].pc = "copy" /\ cmd[c].todo # {}
  /\ IF item \notin Carries(src)
     THEN Fail(c, home)
     ELSE /\ staging' = [staging EXCEPT ![Stage(c)] = Copied(@, src, item)]
          /\ cmd' = [cmd EXCEPT ![c].todo = @ \ {item}]
          /\ UNCHANGED home
  /\ UNCHANGED tar /\ Still

\* hash_payload(staging, load_manifest(staging)).
\* Mutated: A file counts as soon as it is there.
HashPresence(c) ==
  /\ cmd[c].pc = "copy" /\ cmd[c].todo = {}
  /\ cmd' = [cmd EXCEPT ![c].pc = "record",
                        ![c].seen = {f \in File : staging[Stage(c)].files[f] # "none"}]
  /\ UNCHANGED <<home, staging, tar>> /\ Still

Hash(c) ==
  LET s == staging[Stage(c)] IN
  /\ cmd[c].pc = "copy" /\ cmd[c].todo = {}
  /\ IF ~Registered(s) THEN Fail(c, home)
     ELSE /\ cmd' = [cmd EXCEPT ![c].pc = "record", ![c].seen = {f \in File : s.files[f] = "good"}]
          /\ UNCHANGED <<home, staging>>
  /\ UNCHANGED tar /\ Still

\* record_verification(staging, actual, at=dest), then stamp(staging).
RecordStaged(c) ==
  LET s == staging[Stage(c)] IN
  /\ cmd[c].pc = "record"
  /\ IF ~Registered(s) \/ cmd[c].seen # File THEN Fail(c, home)
     ELSE /\ staging' = [staging EXCEPT ![Stage(c)] =
                           Stamped([s EXCEPT !.record.verdict = "pass"],
                                   cmd[c].op, cmd[c].dst, cmd[c].src)]
          /\ Goto(c, "place") /\ UNCHANGED home
  /\ UNCHANGED tar /\ Still

\* Flushed, renamed into place, and the staging root removed.
After(c) == cmd' = [cmd EXCEPT ![c].pc = IF cmd[c].op = "mv" THEN "remove" ELSE "replica",
                               ![c].seen = {}]

Place(c) ==
  LET dst == cmd[c].dst  s == staging[Stage(c)] IN
  /\ cmd[c].pc = "place"
  /\ IF Occupied(home[dst]) \/ ~Occupied(s) THEN Fail(c, home) /\ Still
     ELSE /\ home' = [home EXCEPT ![dst] = s]
          /\ staging' = [staging EXCEPT ![Stage(c)] = Empty]
          /\ After(c) /\ Stamps(dst)
  /\ UNCHANGED tar

-----------------------------------------------------------------------------
(* _land_onto: the destination holds something already.  Under its lock what *)
(* is there at its recorded size is hashed and kept when it matches, the     *)
(* rest is copied and hashed, and then the record follows.                   *)
LockDest(c) ==
  LET dst == cmd[c].dst IN
  /\ cmd[c].pc = "adopt"
  /\ IF ~Registered(home[cmd[c].src]) \/ ~Lockable(dst, c) THEN Fail(c, home) /\ Still
     ELSE /\ home' = [home EXCEPT ![dst].lock = c]
          /\ Goto(c, "look") /\ Races(Going(dst, c)) /\ UNCHANGED staging
  /\ UNCHANGED tar

Look(c) ==
  LET good == {f \in File : home[cmd[c].dst].files[f] = "good"} IN
  /\ cmd[c].pc = "look"
  /\ cmd' = [cmd EXCEPT ![c].pc = "fill", ![c].seen = good, ![c].todo = File \ good]
  /\ UNCHANGED <<home, staging, tar>> /\ Still

\* _copy_local_file: the source must be there, what is in the way is unlinked and
\* the copy grows under the final name.
Filled(c) == home[cmd[c].dst].files[Min(cmd[c].todo)]

OpenCopy(c) ==
  /\ cmd[c].pc = "fill" /\ cmd[c].todo # {} /\ Filled(c) # "half"
  /\ IF Min(cmd[c].todo) \notin Carries(home[cmd[c].src]) THEN Fail(c, home)
     ELSE /\ home' = [home EXCEPT ![cmd[c].dst].files[Min(cmd[c].todo)] = "half"]
          /\ UNCHANGED <<cmd, staging>>
  /\ UNCHANGED tar /\ Still

Fill(c) ==
  LET src == home[cmd[c].src]
      item == Min(cmd[c].todo) IN
  /\ cmd[c].pc = "fill" /\ cmd[c].todo # {} /\ Filled(c) = "half"
  /\ IF item \notin Carries(src) THEN Fail(c, home)
     ELSE /\ home' = [home EXCEPT ![cmd[c].dst] = Copied(@, src, item)]
          /\ cmd' = [cmd EXCEPT ![c].todo = @ \ {item}]
          /\ UNCHANGED staging
  /\ UNCHANGED tar /\ Still

\* Mutated: The copies are taken on trust.
RehashTrusts(c) ==
  /\ cmd[c].pc = "fill" /\ cmd[c].todo = {}
  /\ Goto(c, "carry")
  /\ UNCHANGED <<home, staging, tar>> /\ Still

Rehash(c) ==
  /\ cmd[c].pc = "fill" /\ cmd[c].todo = {}
  /\ IF \A f \in File \ cmd[c].seen : home[cmd[c].dst].files[f] = "good"
     THEN Goto(c, "carry") /\ UNCHANGED <<home, staging>>
     ELSE Fail(c, home)
  /\ UNCHANGED tar /\ Still

\* The record, the views and the notes replace the destination's: its own record
\* is unlinked, and then the other one is there (a half-written one is none).
Carry(c) ==
  /\ cmd[c].pc = "carry"
  /\ IF Registered(home[cmd[c].src])
     THEN home' = [home EXCEPT ![cmd[c].dst].record = NoRecord] /\ Goto(c, "bring")
     ELSE Goto(c, "settle") /\ UNCHANGED home
  /\ UNCHANGED <<staging, tar>> /\ Still

Bring(c) ==
  /\ cmd[c].pc = "bring"
  /\ home' = [home EXCEPT ![cmd[c].dst].record = home[cmd[c].src].record]
  /\ Goto(c, "settle")
  /\ UNCHANGED <<staging, tar>> /\ Still

\* record_verification(dest, actual) and stamp(dest); the destination is unlocked.
\* An error on the way there, in the views or in a write, is Broken.
Settle(c) ==
  LET dst == cmd[c].dst IN
  /\ cmd[c].pc = "settle"
  /\ IF ~Registered(home[dst]) THEN Fail(c, home) /\ Still
     ELSE /\ home' = [home EXCEPT ![dst] =
                        Unlocked(Stamped([@ EXCEPT !.record.verdict = "pass"],
                                         cmd[c].op, dst, cmd[c].src), c)]
          /\ After(c) /\ Stamps(dst) /\ UNCHANGED staging
  /\ UNCHANGED tar

-----------------------------------------------------------------------------
(* shutil.rmtree lists the entries, removes them one by one in any order, the *)
(* lock among them, and then the directory, if nothing else came into it.    *)
Entries(h) == Carries(h) \cup (IF h.lock # Free THEN {LockFile} ELSE {})

Without(h, item) == IF item = LockFile THEN [h EXCEPT !.lock = Free] ELSE Copied(h, Empty, item)

\* mv: rmtree(source).
Remove(c) ==
  /\ cmd[c].pc = "remove"
  /\ cmd' = [cmd EXCEPT ![c].pc = "removing", ![c].todo = Entries(home[cmd[c].src])]
  /\ UNCHANGED <<home, staging, tar>> /\ Still

SweepEntry(c) ==
  /\ cmd[c].pc \in {"removing", "clearing"}
  /\ \E item \in cmd[c].todo :
        /\ home' = [home EXCEPT ![Doomed(c)] = Without(@, item)]
        /\ cmd' = [cmd EXCEPT ![c].todo = @ \ {item}]
  /\ UNCHANGED <<staging, tar>> /\ Still

Removed(c) ==
  /\ cmd[c].pc = "removing" /\ cmd[c].todo = {}
  /\ Fail(c, home)
  /\ UNCHANGED tar /\ Still

\* cp: the source records the replica too.
Replicate(c) ==
  LET src == cmd[c].src IN
  /\ cmd[c].pc = "replica"
  /\ Fail(c, IF Registered(home[src])
             THEN [home EXCEPT ![src] = Stamped(@, "cp", src, cmd[c].dst)] ELSE home)
  /\ UNCHANGED tar /\ Still

-----------------------------------------------------------------------------
(* import_bundle: no lock anywhere.                                          *)
Import(c, dst, force) ==
  /\ cmd[c] = Idle /\ runs < MaxRuns
  /\ tar # Nothing
  /\ ~Occupied(home[dst]) \/ force
  /\ cmd' = [cmd EXCEPT ![c] = [Idle EXCEPT !.pc = "unpack", !.op = "import", !.dst = dst]]
  /\ runs' = runs + 1
  /\ UNCHANGED <<home, staging, tar, faults, rotten, raced, lapsed>>

Unpack(c) ==
  /\ cmd[c].pc = "unpack"
  /\ Races(Sweeps(c))
  /\ staging' = [staging EXCEPT ![Stage(c)] =
                   [files |-> tar, record |-> [NoRecord EXCEPT !.loc = "exported"], lock |-> Free]]
  /\ Goto(c, "check")
  /\ UNCHANGED <<home, tar>>

\* Every file hashed against the embedded record, then the new home is stamped.
CheckUnpacked(c) ==
  LET s == staging[Stage(c)] IN
  /\ cmd[c].pc = "check"
  /\ IF ~Whole(s) \/ ~Registered(s) THEN Fail(c, home)
     ELSE /\ staging' = [staging EXCEPT ![Stage(c)].record.loc = cmd[c].dst]
          /\ Goto(c, "clear") /\ UNCHANGED home
  /\ UNCHANGED tar /\ Still

Touches(d, v) == cmd[d] # Idle /\ v \in {cmd[d].src, cmd[d].dst}

\* rmtree(dest), whoever holds its lock.
Clear(c) ==
  LET dst == cmd[c].dst IN
  /\ cmd[c].pc = "clear"
  /\ Races(/\ Occupied(home[dst])
           /\ home[dst].lock \in Cmd \/ \E d \in Cmd \ {c} : Touches(d, dst))
  /\ cmd' = [cmd EXCEPT ![c].pc = "clearing", ![c].todo = Entries(home[dst])]
  /\ UNCHANGED <<home, staging, tar>>

Cleared(c) ==
  /\ cmd[c].pc = "clearing" /\ cmd[c].todo = {}
  /\ IF Occupied(home[cmd[c].dst]) THEN Fail(c, home)
     ELSE Goto(c, "enter") /\ UNCHANGED <<home, staging>>
  /\ UNCHANGED tar /\ Still

Enter(c) ==
  LET dst == cmd[c].dst  s == staging[Stage(c)] IN
  /\ cmd[c].pc = "enter"
  /\ IF Occupied(home[dst]) \/ ~Occupied(s) THEN Fail(c, home) /\ Still
     ELSE /\ home' = [home EXCEPT ![dst] = s]
          /\ staging' = [staging EXCEPT ![Stage(c)] = Empty]
          /\ Goto(c, "confirm") /\ Stamps(dst)
  /\ UNCHANGED tar

\* verify_bundle(dest).
Confirm(c) ==
  LET h == home[cmd[c].dst] IN
  /\ cmd[c].pc = "confirm"
  /\ Fail(c, IF Registered(h)
             THEN [home EXCEPT ![cmd[c].dst].record.loc = cmd[c].dst,
                               ![cmd[c].dst].record.verdict = IF Whole(h) THEN "pass" ELSE "fail"]
             ELSE home)
  /\ UNCHANGED tar /\ Still

(* export_bundle: the name must be free, members are listed, then the tar is *)
(* opened and they are read one by one without a lock; an error on the way   *)
(* leaves what was written under the final name.                             *)
Export(c, src) ==
  /\ cmd[c] = Idle /\ runs < MaxRuns
  /\ Registered(home[src]) /\ tar = Nothing
  /\ cmd' = [cmd EXCEPT ![c] = [Idle EXCEPT !.pc = "open", !.op = "export", !.src = src,
                                            !.todo = Carries(home[src]) \ {0}]]
  /\ runs' = runs + 1
  /\ UNCHANGED <<home, staging, tar, faults, rotten, raced, lapsed>>

OpenTar(c) ==
  /\ cmd[c].pc = "open"
  /\ tar' = Truncated
  /\ Races(tar # Nothing)
  /\ Goto(c, "pack")
  /\ UNCHANGED <<home, staging>>

Pack(c) ==
  LET src == home[cmd[c].src]
      item == Min(cmd[c].todo) IN
  /\ cmd[c].pc = "pack"
  /\ IF cmd[c].todo = {} \/ item \notin Carries(src)
     THEN cmd' = [cmd EXCEPT ![c] = Idle] /\ UNCHANGED tar
     ELSE /\ tar' = [tar EXCEPT ![item] = src.files[item]]
          /\ cmd' = [cmd EXCEPT ![c].todo = @ \ {item}]
  /\ UNCHANGED <<home, staging>> /\ Still

-----------------------------------------------------------------------------
(* Faults. *)
Faulty == faults < MaxFaults /\ faults' = faults + 1

\* What ends a verb between bringing a record and stamping it leaves it as it came.
Lapses(c) == lapsed' = IF cmd[c].pc \in {"arrived", "settle"} THEN lapsed \cup {cmd[c].dst} ELSE lapsed

\* The process dies: its locks name a dead owner, its staging stays.
Crash(c) ==
  /\ cmd[c] # Idle /\ Faulty
  /\ home' = [v \in Vault |-> IF home[v].lock = c THEN [home[v] EXCEPT !.lock = Dead] ELSE home[v]]
  /\ cmd' = [cmd EXCEPT ![c] = Idle]
  /\ Lapses(c)
  /\ UNCHANGED <<staging, tar, runs, rotten, raced>>

\* A step fails (no space, no permission, a disk pulled): the verb ends there.
Broken(c) ==
  /\ cmd[c] # Idle /\ Faulty
  /\ Fail(c, home)
  /\ Lapses(c)
  /\ UNCHANGED <<tar, runs, rotten, raced>>

\* The copy of a file comes out at its size but wrong.
Miscopied(c) ==
  LET f == Min(cmd[c].todo) IN
  /\ cmd[c].todo \ {0} # {} /\ f # 0 /\ Faulty
  /\ \/ /\ cmd[c].pc = "fill"
        /\ home' = [home EXCEPT ![cmd[c].dst].files[f] = "bad"] /\ UNCHANGED staging
     \/ /\ cmd[c].pc = "copy"
        /\ staging' = [staging EXCEPT ![Stage(c)].files[f] = "bad"] /\ UNCHANGED home
  /\ cmd' = [cmd EXCEPT ![c].todo = @ \ {f}]
  /\ UNCHANGED <<tar, runs, rotten, raced, lapsed>>

Rot(v, f) ==
  /\ Faulty /\ home[v].files[f] = "good"
  /\ home' = [home EXCEPT ![v].files[f] = "bad"]
  /\ rotten' = rotten + 1
  /\ raced' = (raced \/ \E c \in Cmd : cmd[c] # Idle)
  /\ UNCHANGED <<staging, tar, cmd, runs, lapsed>>

-----------------------------------------------------------------------------
Work(c) ==
  \/ LockSource(c) \/ Rename(c) \/ Arrive(c)
  \/ MakeStaging(c) \/ CopyNext(c) \/ Hash(c) \/ RecordStaged(c) \/ Place(c)
  \/ LockDest(c) \/ Look(c) \/ OpenCopy(c) \/ Fill(c) \/ Rehash(c) \/ Carry(c) \/ Bring(c) \/ Settle(c)
  \/ Remove(c) \/ SweepEntry(c) \/ Removed(c) \/ Replicate(c)
  \/ Unpack(c) \/ CheckUnpacked(c) \/ Clear(c) \/ Cleared(c) \/ Enter(c) \/ Confirm(c) \/ OpenTar(c) \/ Pack(c)

Begin(c) ==
  \/ \E op \in {"mv", "cp"}, src, dst \in Vault : Relocate(c, op, src, dst)
  \/ \E dst \in Vault, force \in BOOLEAN : Import(c, dst, force)
  \/ \E src \in Vault : Export(c, src)

Mishap(c) == Crash(c) \/ Broken(c) \/ Miscopied(c)

Next ==
  \/ \E c \in Cmd : Work(c) \/ Begin(c) \/ Mishap(c)
  \/ \E v \in Vault, f \in File : Rot(v, f)

Spec == Init /\ [][Next]_vars

-----------------------------------------------------------------------------
(* A whole copy of the payload, a good copy of every payload file and a      *)
(* record, in some home or all in the export, outlast every step of mv, cp,  *)
(* import and export, crashes, errors and wrong copies included; only rot    *)
(* takes one away.  mv removes its source entry by entry after the           *)
(* destination verified, import --force removes the old home first, and what *)
(* lands on a home replaces its files and its record one after the other.    *)
(* No promise is made once a verb swept what another works on, or locked a   *)
(* home whose own mv had removed the lock and not yet the rest (`raced`).    *)
Backed(f) == tar = Payload \/ \E v \in Vault : home[v].files[f] = "good"

NothingLost ==
  [][ \/ rotten' # rotten \/ raced' \/ tar' = Payload
      \/ /\ (\E v \in Vault : Whole(home[v])) => \E v \in Vault : Whole(home'[v])
         /\ (\E v \in Vault : Registered(home[v])) => \E v \in Vault : Registered(home'[v])
         /\ \A f \in File : Backed(f) => Backed(f)' ]_vars

(* A home that gains a record holds the whole payload: `darsay list` never   *)
(* sees a half-copied bundle (relocate.py:515-516), nor a half-unpacked      *)
(* export, unless two verbs worked on one directory (`raced`).  A rename     *)
(* brings a home as it was.                                                  *)
ArrivesWhole ==
  [][ \A v \in Vault :
        (~Registered(home[v]) /\ Registered(home'[v])) =>
          \/ Whole(home'[v])
          \/ \E w \in Vault : home'[v] = home[w] /\ home'[w] = Empty
          \/ raced ]_vars

(* A record names the home it lies in: every verb that puts a record         *)
(* somewhere else rewrites `location`, on a rename and on a landing only     *)
(* after it has put it there.  While it is about to, and where it ended just *)
(* before, by an error or by a crash, until the next stamp, the record names *)
(* the home it came from.                                                    *)
RecordNamesItsHome ==
  \A v \in Vault :
    Registered(home[v]) => \/ home[v].record.loc = v
                           \/ v \in lapsed \/ raced
                           \/ \E c \in Cmd : cmd[c].pc \in {"arrived", "settle"} /\ cmd[c].dst = v
=============================================================================
