---------------------------- MODULE PlacesProofs ----------------------------
(***************************************************************************)
(* Proofs about Places for any vaults, disks, files and processes.         *)
(*                                                                         *)
(* The argument: a verb keeps others from what it locked (Locked), from    *)
(* what it is removing even after its lock went with the rest (Swept) and  *)
(* from its staging directory (Alone), so what it verified is still so     *)
(* when it is renamed into place or when the source is removed (Staged,    *)
(* Landed); and while any mv removes a source, a whole copy and a record   *)
(* stand where no mv is removing (Safe).  Where a second verb swept a      *)
(* staging directory or a home, locked a home that was being removed, or   *)
(* a file rotted under a verb, `raced` says so, and the properties make no *)
(* promise.                                                                *)
(***************************************************************************)
EXTENDS Places, WellFoundedInduction, TLAPS

Copying    == {"copy", "record", "place"}
Importing  == {"unpack", "check", "clear", "clearing", "enter", "confirm"}
Exporting  == {"open", "pack"}
Landing    == {"look", "fill", "carry", "bring", "settle"}
Stashing   == Copying \cup {"check", "clear", "clearing", "enter"}
HoldsSrc   == {"rename", "adopt", "stage", "remove", "replica"} \cup Copying \cup Landing
HoldsDst   == Landing \cup {"arrived"}
Relocating == HoldsSrc \cup {"lock", "arrived", "removing"}
Ways       == {"adopt", "rename", "stage"}
Items      == File \cup {0, LockFile}

Records == [loc : Vault \cup {"none", "exported"}, verdict : {"none", "pass", "fail"},
            replicas : SUBSET (Vault \cup {"none"})]
Homes   == [files : [File -> Content], record : Records, lock : Cmd \cup {Free, Dead}]
Cmds    == [pc : {"idle"} \cup Relocating \cup Importing \cup Exporting,
            op : {"mv", "cp", "import", "export"},
            src : Vault \cup {"none"}, dst : Vault \cup {"none"},
            todo : SUBSET Items, seen : SUBSET (File \cup Ways)]

TypeOK ==
    /\ home \in [Vault -> Homes]
    /\ staging \in [Stages -> Homes] /\ \A s \in Stages : staging[s].lock = Free
    /\ tar \in [File -> Content]
    /\ cmd \in [Cmd -> Cmds]
    /\ runs \in Nat /\ faults \in Nat /\ rotten \in Nat
    /\ raced \in BOOLEAN /\ lapsed \in SUBSET Vault

\* A verb in the middle knows where it works.
Aimed(c) ==
    /\ cmd[c].pc \in Relocating =>
         /\ cmd[c].op \in {"mv", "cp"} /\ cmd[c].src \in Vault /\ cmd[c].dst \in Vault
         /\ cmd[c].src # cmd[c].dst
    /\ cmd[c].pc \in Importing => cmd[c].op = "import" /\ cmd[c].dst \in Vault
    /\ cmd[c].pc \in Exporting => cmd[c].src \in Vault /\ cmd[c].todo \subseteq File
    /\ cmd[c].pc = "lock" => \E way \in Ways : cmd[c].seen = {way}
    /\ cmd[c].pc = "fill" => cmd[c].todo \subseteq File
    /\ cmd[c].pc = "copy" => cmd[c].todo \subseteq File \cup {0}

AllAimed == \A c \in Cmd : Aimed(c)

\* A relocation holds its source until it ends, and what it lands onto until it settled.
Locked(c) ==
    /\ cmd[c].pc \in HoldsSrc => home[cmd[c].src].lock = c
    /\ cmd[c].pc \in HoldsDst => home[cmd[c].dst].lock = c

Complete(h, v) == Registered(h) /\ Whole(h) /\ h.record.loc = v

\* What was verified in the staging directory is still there.
Staged(c) ==
    /\ cmd[c].pc = "record" => \A f \in File \cap cmd[c].seen : staging[Stage(c)].files[f] = "good"
    /\ cmd[c].pc = "check" => (Whole(staging[Stage(c)]) => tar = Payload)
    /\ cmd[c].pc \in {"place", "clear", "clearing", "enter"} => Complete(staging[Stage(c)], cmd[c].dst)
    /\ cmd[c].pc \in {"clear", "clearing", "enter"} => tar = Payload

\* What was verified at the destination is still there, nothing good is overwritten,
\* and the source keeps its record while the destination's is replaced.
Landed(c) ==
    /\ cmd[c].pc = "fill" =>
         /\ \A f \in cmd[c].todo : home[cmd[c].dst].files[f] # "good"
         /\ \A f \in File \cap cmd[c].seen : home[cmd[c].dst].files[f] = "good"
    /\ cmd[c].pc \in {"carry", "bring", "settle"} => Whole(home[cmd[c].dst])
    /\ cmd[c].pc \in {"look", "fill", "carry", "bring"} => Registered(home[cmd[c].src])

\* What an export has yet to write is not in the tar.
Packed(c) ==
    cmd[c].pc = "pack" => tar # Nothing /\ \A f \in cmd[c].todo : tar[f] = "half"

\* What a verb has yet to remove is still there, and nobody else has locked it.
Swept(c) ==
    Sweeping(c) =>
       /\ cmd[c].todo \ {LockFile} \subseteq Carries(home[Doomed(c)])
       /\ LockFile \in cmd[c].todo => home[Doomed(c)].lock # Free
       /\ home[Doomed(c)].lock \in {Free, Dead, c}

Sure(c) == Locked(c) /\ Staged(c) /\ Landed(c) /\ Packed(c) /\ Swept(c)

\* No two verbs work in one staging directory, write one tar or remove one home.
Alone ==
    \A c, d \in Cmd : c # d =>
       /\ ~ (cmd[c].pc \in Stashing /\ cmd[d].pc \in Stashing /\ Stage(c) = Stage(d))
       /\ ~ (cmd[c].pc = "pack" /\ cmd[d].pc = "pack")
       /\ ~ (Sweeping(c) /\ Sweeping(d) /\ Doomed(c) = Doomed(d))

\* While an mv removes its source, a whole copy and a record stand where no mv is removing.
Removes(c)     == cmd[c].pc = "remove" \/ (cmd[c].pc = "removing" /\ cmd[c].todo # {})
Removing(c, v) == Removes(c) /\ cmd[c].src = v
Spared == {v \in Vault : \A c \in Cmd : ~ Removing(c, v)}
Safe == \/ tar = Payload \/ \A c \in Cmd : ~ Removes(c)
        \/ /\ \E v \in Spared : Whole(home[v])
           /\ \E v \in Spared : Registered(home[v])

\* Only two steps leave a foreign record in a home, and each is followed by a stamp
\* or remembered.
Named == \A v \in Vault :
    Registered(home[v]) => \/ home[v].record.loc = v
                           \/ v \in lapsed
                           \/ \E c \in Cmd : cmd[c].pc \in {"arrived", "settle"} /\ cmd[c].dst = v

PlacesInv ==
    /\ TypeOK /\ AllAimed
    /\ \/ raced
       \/ (\A c \in Cmd : Sure(c)) /\ Alone /\ Safe /\ Named

-----------------------------------------------------------------------------
(* The operators the actions are built from. *)

\* The item copied next is one of those left (`Min` of a set of numbers).
LEMMA MinIsIn == ASSUME NEW S \in SUBSET Nat, S # {} PROVE Min(S) \in S
<1> DEFINE R == {ss \in Nat \X Nat : ss[1] < ss[2]}
<1>1. IsWellFoundedOn(R, Nat)
  BY NatLessThanWellFounded, Zenon DEF OpToRel
<1>2. \A x, y \in Nat : y < x => <<y, x>> \in R
  OBVIOUS
<1> HIDE DEF R
<1>3. PICK x \in S : \A y \in S : ~ (<<y, x>> \in R)
  BY <1>1, WFMin
<1>4. x \in Nat /\ S \subseteq Nat
  OBVIOUS
<1>5. ASSUME NEW y \in S PROVE x =< y
  <2>1. y \in Nat
    BY <1>4
  <2>2. ~ (y < x)
    BY <2>1, <1>4, <1>3, <1>2, Zenon
  <2> QED
    BY <2>1, <2>2, <1>4
<1> QED
  BY <1>5 DEF Min

\* What is assumed of the constants, with the payload's first file.
LEMMA ConstantFacts ==
    /\ Files \in Nat /\ 1 \in File /\ (File \cup {0}) \subseteq Nat /\ 0 \notin File
    /\ Items \subseteq Nat /\ LockFile \notin File /\ LockFile # 0
    /\ "none" \notin Vault /\ Free \notin Cmd /\ Dead \notin Cmd /\ Free # Dead
BY PlacesAssumption DEF File, Free, Dead, LockFile, Items

\* Neither an empty directory nor an empty record is mistaken for a bundle.
LEMMA EmptyTypes ==
    /\ NoRecord \in Records /\ Empty \in Homes /\ Empty.lock = Free /\ ~ Registered(Empty)
    /\ Empty.files = Nothing /\ Nothing \in [File -> Content] /\ Payload \in [File -> Content]
    /\ Truncated \in [File -> Content] /\ Nothing # Payload /\ Truncated # Nothing
    /\ Idle \in Cmds /\ Idle.pc = "idle"
<1>1. NoRecord \in Records /\ Nothing \in [File -> Content] /\ Payload \in [File -> Content]
      /\ Truncated \in [File -> Content]
  BY DEF NoRecord, Records, Nothing, Payload, Truncated, Content
<1>2. Empty \in Homes /\ Empty.lock = Free /\ ~ Registered(Empty) /\ Empty.files = Nothing
  BY <1>1 DEF Empty, Homes, Registered
<1>3. Nothing[1] = "none" /\ Payload[1] = "good" /\ Truncated[1] = "half"
  BY ConstantFacts DEF Nothing, Payload, Truncated
<1>4. Idle \in Cmds /\ Idle.pc = "idle"
  BY DEF Idle, Cmds
<1> QED
  BY <1>1, <1>2, <1>3, <1>4

\* A home with a lock, a record or a file is not empty (the guard of os.rename).
LEMMA LockedIsOccupied ==
    ASSUME NEW h, h.lock # Free PROVE Occupied(h)
BY EmptyTypes DEF Occupied

\* _stamp_new_home touches nothing but the record, and writes the location.
LEMMA StampKeepsFiles ==
    ASSUME NEW h \in Homes, NEW v \in Vault, NEW op, NEW other \in Vault \cup {"none"}
    PROVE  /\ Stamped(h, op, v, other) \in Homes
           /\ Stamped(h, op, v, other).files = h.files
           /\ Stamped(h, op, v, other).lock = h.lock
           /\ Stamped(h, op, v, other).record.loc = v
           /\ Stamped(h, op, v, other).record.verdict = h.record.verdict
           /\ Registered(Stamped(h, op, v, other))
<1> DEFINE q == [h.record EXCEPT !.loc = v,
                                 !.replicas = IF op = "cp" THEN (@ \ {v}) \cup {other} ELSE @]
<1>1. h.record \in Records
  BY DEF Homes
<1>2. q \in Records /\ q.loc = v /\ q.verdict = h.record.verdict
  BY <1>1 DEF Records
<1>3. q # NoRecord
  BY <1>2, ConstantFacts DEF NoRecord
<1>4. Stamped(h, op, v, other) = [h EXCEPT !.record = q]
  BY DEF Stamped
<1> HIDE DEF q
<1> QED
  BY <1>2, <1>3, <1>4 DEF Homes, Registered

\* Taking a lock, or recording a verdict, changes nothing else in a directory.
LEMMA FieldTypes ==
    ASSUME NEW h \in Homes
    PROVE  /\ \A l \in Cmd \cup {Free, Dead} :
                /\ [h EXCEPT !.lock = l] \in Homes /\ [h EXCEPT !.lock = l].lock = l
                /\ [h EXCEPT !.lock = l].files = h.files /\ [h EXCEPT !.lock = l].record = h.record
           /\ \A r \in Records :
                /\ [h EXCEPT !.record = r] \in Homes /\ [h EXCEPT !.record = r].lock = h.lock
                /\ [h EXCEPT !.record = r].files = h.files /\ [h EXCEPT !.record = r].record = r
           /\ \A x \in {"pass", "fail"} :
                /\ [h EXCEPT !.record.verdict = x] \in Homes
                /\ [h EXCEPT !.record.verdict = x].files = h.files
                /\ [h EXCEPT !.record.verdict = x].lock = h.lock
                /\ [h EXCEPT !.record.verdict = x].record.verdict = x
                /\ [h EXCEPT !.record.verdict = x].record.loc = h.record.loc
           /\ \A f \in File, x \in Content :
                /\ [h EXCEPT !.files[f] = x] \in Homes
                /\ [h EXCEPT !.files[f] = x].files = [h.files EXCEPT ![f] = x]
                /\ [h EXCEPT !.files[f] = x].lock = h.lock
                /\ [h EXCEPT !.files[f] = x].record = h.record
<1>1. ASSUME NEW r \in Records, NEW x \in {"pass", "fail"}
      PROVE  /\ [r EXCEPT !.verdict = x] \in Records
             /\ [r EXCEPT !.verdict = x].verdict = x /\ [r EXCEPT !.verdict = x].loc = r.loc
  BY DEF Records
<1>2. ASSUME NEW x \in {"pass", "fail"}
      PROVE  [h EXCEPT !.record.verdict = x] = [h EXCEPT !.record = [h.record EXCEPT !.verdict = x]]
  BY DEF Homes
<1>3. ASSUME NEW r \in Records
      PROVE  /\ [h EXCEPT !.record = r] \in Homes /\ [h EXCEPT !.record = r].lock = h.lock
             /\ [h EXCEPT !.record = r].files = h.files /\ [h EXCEPT !.record = r].record = r
  BY DEF Homes
<1>4. h.record \in Records
  BY DEF Homes
<1>5. \A x \in {"pass", "fail"} :
                /\ [h EXCEPT !.record.verdict = x] \in Homes
                /\ [h EXCEPT !.record.verdict = x].files = h.files
                /\ [h EXCEPT !.record.verdict = x].lock = h.lock
                /\ [h EXCEPT !.record.verdict = x].record.verdict = x
                /\ [h EXCEPT !.record.verdict = x].record.loc = h.record.loc
  <2> TAKE x \in {"pass", "fail"}
  <2> DEFINE r == [h.record EXCEPT !.verdict = x]
  <2>1. r \in Records /\ r.verdict = x /\ r.loc = h.record.loc
    BY <1>1, <1>4
  <2>2. [h EXCEPT !.record.verdict = x] = [h EXCEPT !.record = r]
    BY <1>2
  <2> HIDE DEF r
  <2> QED
    BY <2>1, <2>2, <1>3
<1>6. \A l \in Cmd \cup {Free, Dead} :
                /\ [h EXCEPT !.lock = l] \in Homes /\ [h EXCEPT !.lock = l].lock = l
                /\ [h EXCEPT !.lock = l].files = h.files /\ [h EXCEPT !.lock = l].record = h.record
  BY DEF Homes
<1>7. \A f \in File, x \in Content :
                /\ [h EXCEPT !.files[f] = x] \in Homes
                /\ [h EXCEPT !.files[f] = x].files = [h.files EXCEPT ![f] = x]
                /\ [h EXCEPT !.files[f] = x].lock = h.lock
                /\ [h EXCEPT !.files[f] = x].record = h.record
  BY DEF Homes
<1> QED
  BY <1>3, <1>5, <1>6, <1>7

\* A directory that lost its lock keeps everything else.
LEMMA UnlockKeepsTheRest ==
    ASSUME NEW h \in Homes, NEW c \in Cmd
    PROVE  /\ Unlocked(h, c) \in Homes
           /\ Unlocked(h, c).files = h.files /\ Unlocked(h, c).record = h.record
           /\ Unlocked(h, c).lock = IF h.lock = c THEN Free ELSE h.lock
BY DEF Unlocked, Homes

\* Copying one file or the record leaves every other file and the lock.
LEMMA CopyTakesOne ==
    ASSUME NEW to \in Homes, NEW from \in Homes, NEW item \in File \cup {0}
    PROVE  /\ Copied(to, from, item) \in Homes
           /\ Copied(to, from, item).lock = to.lock
           /\ item = 0 => /\ Copied(to, from, item).files = to.files
                          /\ Copied(to, from, item).record = from.record
           /\ item # 0 => /\ Copied(to, from, item).files = [to.files EXCEPT ![item] = from.files[item]]
                          /\ Copied(to, from, item).record = to.record
<1>1. CASE item = 0
  BY <1>1 DEF Copied, Homes
<1>2. CASE item # 0
  BY <1>2, ConstantFacts DEF Copied, Homes
<1> QED
  BY <1>1, <1>2

\* The same for one file,
LEMMA CopyFile ==
    ASSUME NEW to \in Homes, NEW from \in Homes, NEW item \in File
    PROVE  /\ \A f \in File : Copied(to, from, item).files[f] =
                                IF f = item THEN from.files[item] ELSE to.files[f]
           /\ Copied(to, from, item).record = to.record
           /\ Copied(to, from, item).lock = to.lock
BY ConstantFacts DEF Copied, Homes

\* and for one field: a file that comes out otherwise.
LEMMA FileTypes ==
    ASSUME NEW h \in Homes, NEW f \in File, NEW x \in Content
    PROVE  /\ [h EXCEPT !.files[f] = x] \in Homes
           /\ [h EXCEPT !.files[f] = x].files = [h.files EXCEPT ![f] = x]
           /\ [h EXCEPT !.files[f] = x].lock = h.lock
           /\ [h EXCEPT !.files[f] = x].record = h.record
BY DEF Homes

\* What is there to copy is files and the record.
LEMMA CarriedTypes ==
    ASSUME NEW h \in Homes PROVE Carries(h) \subseteq File \cup {0}
BY DEF Carries

\* rmtree takes one entry and leaves the rest of the directory as it was.
LEMMA EntryGoes ==
    ASSUME NEW h \in Homes, NEW item \in Items
    PROVE  /\ Without(h, item) \in Homes
           /\ Carries(Without(h, item)) = Carries(h) \ {item}
           /\ Without(h, item).lock = IF item = LockFile THEN Free ELSE h.lock
           /\ Without(h, item).record = IF item = 0 THEN NoRecord ELSE h.record
<1>1. CASE item = LockFile
  <2>1. /\ Without(h, item) \in Homes /\ Without(h, item).files = h.files
        /\ Without(h, item).record = h.record /\ Without(h, item).lock = Free
    BY <1>1 DEF Without, Homes
  <2>2. Carries(h) \ {item} = Carries(h)
    BY <1>1, ConstantFacts DEF Carries
  <2>3. Carries(Without(h, item)) = Carries(h)
    BY <2>1 DEF Carries, Registered
  <2> QED
    BY <1>1, <2>1, <2>2, <2>3, ConstantFacts
<1>2. CASE item = 0
  <2>1. Without(h, item) = [h EXCEPT !.record = NoRecord]
    BY <1>2, ConstantFacts DEF Without, Copied, Empty
  <2>2. /\ Without(h, item) \in Homes /\ Without(h, item).files = h.files
        /\ Without(h, item).record = NoRecord /\ Without(h, item).lock = h.lock
    BY <2>1, EmptyTypes DEF Homes
  <2>3. Carries(Without(h, item)) = Carries(h) \ {0}
    BY <2>2, ConstantFacts DEF Carries, Registered
  <2> QED
    BY <1>2, <2>2, <2>3, ConstantFacts
<1>3. CASE item \in File
  <2>1. Without(h, item) = [h EXCEPT !.files[item] = "none"]
    BY <1>3, ConstantFacts DEF Without, Copied, Empty, Nothing
  <2>2. /\ Without(h, item) \in Homes /\ Without(h, item).files = [h.files EXCEPT ![item] = "none"]
        /\ Without(h, item).record = h.record /\ Without(h, item).lock = h.lock
    BY <1>3, <2>1 DEF Homes, Content
  <2>3. h.files \in [File -> Content]
    BY DEF Homes
  <2>4. Carries(Without(h, item)) = Carries(h) \ {item}
    BY <1>3, <2>2, <2>3, ConstantFacts DEF Carries, Registered
  <2> QED
    BY <1>3, <2>2, <2>4, ConstantFacts
<1> QED
  BY <1>1, <1>2, <1>3 DEF Items

-----------------------------------------------------------------------------
(* Types.                                                                  *)

Typed(h, s) == /\ h \in [Vault -> Homes]
               /\ s \in [Stages -> Homes] /\ \A at \in Stages : s[at].lock = Free

\* A verb works on its own entry of `cmd` only.
Moves(c) == /\ cmd' \in [Cmd -> Cmds] /\ Aimed(c)'
            /\ \A d \in Cmd \ {c} : cmd'[d] = cmd[d]

\* The staging directory of a verb that works in one.
LEMMA StageTypes ==
    ASSUME TypeOK, NEW c \in Cmd, Aimed(c), cmd[c].pc \in Stashing \cup {"stage", "unpack"}
    PROVE  Stage(c) \in Stages /\ cmd[c].dst \in Vault
BY DEF Stage, Stages, Verbs, Aimed, Stashing, Copying, Relocating, HoldsSrc, Importing

\* A verb that fails releases its locks, sweeps its staging directory, and ends.
LEMMA FailTypes ==
    ASSUME TypeOK, NEW c \in Cmd, NEW homes \in [Vault -> Homes], Fail(c, homes)
    PROVE  /\ Typed(home', staging')
           /\ Moves(c) /\ cmd'[c] = Idle
           /\ \A v \in Vault : home'[v] = Unlocked(homes[v], c)
<1>1. home' \in [Vault -> Homes] /\ \A v \in Vault : home'[v] = Unlocked(homes[v], c)
  BY UnlockKeepsTheRest DEF Fail
<1>2. staging' \in [Stages -> Homes] /\ \A s \in Stages : staging'[s].lock = Free
  BY EmptyTypes DEF Fail, TypeOK
<1>3. cmd' \in [Cmd -> Cmds] /\ cmd'[c] = Idle /\ \A d \in Cmd \ {c} : cmd'[d] = cmd[d]
  BY EmptyTypes DEF Fail, TypeOK
<1>4. Aimed(c)'
  BY <1>3, EmptyTypes DEF Aimed, Relocating, HoldsSrc, Copying, Landing, Importing, Exporting
<1> QED
  BY <1>1, <1>2, <1>3, <1>4 DEF Typed, Moves

\* A verb that goes on keeps what it is for; the lines its step leaves alone
\* are those of the other verbs.
Becomes(c, pc, todo, seen) ==
    /\ cmd' \in [Cmd -> Cmds]
    /\ cmd'[c].pc = pc /\ cmd'[c].todo = todo /\ cmd'[c].seen = seen
    /\ cmd'[c].op = cmd[c].op /\ cmd'[c].src = cmd[c].src /\ cmd'[c].dst = cmd[c].dst
    /\ \A d \in Cmd \ {c} : cmd'[d] = cmd[d]

\* What the assignments to `cmd` do to the entry of the verb.
LEMMA EntryChanges ==
    ASSUME TypeOK, NEW c \in Cmd,
           NEW pc \in {"idle"} \cup Relocating \cup Importing \cup Exporting,
           NEW todo \in SUBSET Items, NEW seen \in SUBSET (File \cup Ways)
    PROVE  /\ Goto(c, pc) => Becomes(c, pc, cmd[c].todo, cmd[c].seen)
           /\ cmd' = [cmd EXCEPT ![c].pc = pc, ![c].todo = todo] => Becomes(c, pc, todo, cmd[c].seen)
           /\ cmd' = [cmd EXCEPT ![c].pc = pc, ![c].seen = seen] => Becomes(c, pc, cmd[c].todo, seen)
           /\ cmd' = [cmd EXCEPT ![c].pc = pc, ![c].seen = seen, ![c].todo = todo]
                 => Becomes(c, pc, todo, seen)
           /\ cmd' = [cmd EXCEPT ![c].todo = todo] => Becomes(c, cmd[c].pc, todo, cmd[c].seen)
<1>1. cmd \in [Cmd -> Cmds]
  BY DEF TypeOK
<1>2. ASSUME NEW r \in Cmds, cmd' = [cmd EXCEPT ![c] = r]
      PROVE  cmd' \in [Cmd -> Cmds] /\ cmd'[c] = r /\ \A d \in Cmd \ {c} : cmd'[d] = cmd[d]
  BY <1>1, <1>2
<1>3. ASSUME Goto(c, pc) PROVE Becomes(c, pc, cmd[c].todo, cmd[c].seen)
  <2> DEFINE r == [cmd[c] EXCEPT !.pc = pc]
  <2>1. r \in Cmds /\ cmd' = [cmd EXCEPT ![c] = r]
    BY <1>1, <1>3 DEF Goto, Cmds
  <2> QED
    BY <1>1, <1>2, <2>1 DEF Becomes, Cmds
<1>4. ASSUME cmd' = [cmd EXCEPT ![c].pc = pc, ![c].todo = todo]
      PROVE  Becomes(c, pc, todo, cmd[c].seen)
  <2> DEFINE r == [cmd[c] EXCEPT !.pc = pc, !.todo = todo]
  <2>1. r \in Cmds /\ cmd' = [cmd EXCEPT ![c] = r]
    BY <1>1, <1>4 DEF Cmds
  <2> QED
    BY <1>1, <1>2, <2>1 DEF Becomes, Cmds
<1>5. ASSUME cmd' = [cmd EXCEPT ![c].pc = pc, ![c].seen = seen]
      PROVE  Becomes(c, pc, cmd[c].todo, seen)
  <2> DEFINE r == [cmd[c] EXCEPT !.pc = pc, !.seen = seen]
  <2>1. r \in Cmds /\ cmd' = [cmd EXCEPT ![c] = r]
    BY <1>1, <1>5 DEF Cmds
  <2> QED
    BY <1>1, <1>2, <2>1 DEF Becomes, Cmds
<1>6. ASSUME cmd' = [cmd EXCEPT ![c].pc = pc, ![c].seen = seen, ![c].todo = todo]
      PROVE  Becomes(c, pc, todo, seen)
  <2> DEFINE r == [cmd[c] EXCEPT !.pc = pc, !.seen = seen, !.todo = todo]
  <2>1. r \in Cmds /\ cmd' = [cmd EXCEPT ![c] = r]
    BY <1>1, <1>6 DEF Cmds
  <2> QED
    BY <1>1, <1>2, <2>1 DEF Becomes, Cmds
<1>7. ASSUME cmd' = [cmd EXCEPT ![c].todo = todo]
      PROVE  Becomes(c, cmd[c].pc, todo, cmd[c].seen)
  <2> DEFINE r == [cmd[c] EXCEPT !.todo = todo]
  <2>1. r \in Cmds /\ cmd' = [cmd EXCEPT ![c] = r]
    BY <1>1, <1>7 DEF Cmds
  <2> QED
    BY <1>1, <1>2, <2>1 DEF Becomes, Cmds
<1> QED
  BY <1>3, <1>4, <1>5, <1>6, <1>7

\* The relocations stay relocations, an import an import, an export an export.
LEMMA StaysAimed ==
    ASSUME TypeOK, NEW c \in Cmd, Aimed(c),
           NEW pc \in Relocating \cup Importing \cup Exporting, NEW todo, NEW seen,
           Becomes(c, pc, todo, seen),
           pc # "lock",
           pc \in Relocating => cmd[c].pc \in Relocating,
           pc \in Importing => cmd[c].pc \in Importing,
           pc \in Exporting => cmd[c].pc \in Exporting /\ todo \subseteq File,
           pc = "fill" => todo \subseteq File,
           pc = "copy" => todo \subseteq File \cup {0}
    PROVE  Moves(c)
<1>1. Aimed(c)'
  BY DEF Aimed, Becomes
<1> QED
  BY <1>1 DEF Moves, Becomes

\* Where each step takes a verb that does not fail (the order of the calls in
\* execute_relocation, _copy_and_verify, _land_onto, import_bundle, export_bundle).
LEMMA NextStop ==
    ASSUME TypeOK, NEW c \in Cmd, Aimed(c)
    PROVE  /\ LockSource(c) => Fail(c, home) \/ \E way \in Ways :
                 cmd[c].seen = {way} /\ Becomes(c, way, cmd[c].todo, {})
           /\ Rename(c) => Fail(c, home) \/ Becomes(c, "arrived", cmd[c].todo, cmd[c].seen)
           /\ MakeStaging(c) => Becomes(c, "copy", Carries(home[cmd[c].src]), cmd[c].seen)
           /\ CopyNext(c) => Fail(c, home) \/
                 Becomes(c, "copy", cmd[c].todo \ {Min(cmd[c].todo)}, cmd[c].seen)
           /\ Hash(c) => Fail(c, home) \/ Becomes(c, "record", cmd[c].todo,
                 {f \in File : staging[Stage(c)].files[f] = "good"})
           /\ RecordStaged(c) => Fail(c, home) \/ Becomes(c, "place", cmd[c].todo, cmd[c].seen)
           /\ After(c) => Becomes(c, IF cmd[c].op = "mv" THEN "remove" ELSE "replica", cmd[c].todo, {})
           /\ LockDest(c) => Fail(c, home) \/ Becomes(c, "look", cmd[c].todo, cmd[c].seen)
           /\ Look(c) => Becomes(c, "fill", File \ {f \in File : home[cmd[c].dst].files[f] = "good"},
                                 {f \in File : home[cmd[c].dst].files[f] = "good"})
           /\ OpenCopy(c) => Fail(c, home) \/ cmd' = cmd
           /\ Fill(c) => Fail(c, home) \/
                 Becomes(c, "fill", cmd[c].todo \ {Min(cmd[c].todo)}, cmd[c].seen)
           /\ Rehash(c) => Fail(c, home) \/ Becomes(c, "carry", cmd[c].todo, cmd[c].seen)
           /\ Carry(c) => \/ Becomes(c, "bring", cmd[c].todo, cmd[c].seen)
                          \/ Becomes(c, "settle", cmd[c].todo, cmd[c].seen)
           /\ Bring(c) => Becomes(c, "settle", cmd[c].todo, cmd[c].seen)
           /\ Remove(c) => Becomes(c, "removing", Entries(home[cmd[c].src]), cmd[c].seen)
           /\ SweepEntry(c) => \E item \in cmd[c].todo :
                 Becomes(c, cmd[c].pc, cmd[c].todo \ {item}, cmd[c].seen)
           /\ Cleared(c) => Fail(c, home) \/ Becomes(c, "enter", cmd[c].todo, cmd[c].seen)
           /\ Unpack(c) => Becomes(c, "check", cmd[c].todo, cmd[c].seen)
           /\ CheckUnpacked(c) => Fail(c, home) \/ Becomes(c, "clear", cmd[c].todo, cmd[c].seen)
           /\ Clear(c) => Becomes(c, "clearing", Entries(home[cmd[c].dst]), cmd[c].seen)
           /\ Enter(c) => Fail(c, home) \/ Becomes(c, "confirm", cmd[c].todo, cmd[c].seen)
           /\ OpenTar(c) => Becomes(c, "pack", cmd[c].todo, cmd[c].seen)
           /\ Pack(c) => cmd' = [cmd EXCEPT ![c] = Idle] \/
                 Becomes(c, "pack", cmd[c].todo \ {Min(cmd[c].todo)}, cmd[c].seen)
<1> DEFINE PCs == {"idle"} \cup Relocating \cup Importing \cup Exporting
<1>1. /\ cmd[c].todo \in SUBSET Items /\ cmd[c].seen \in SUBSET (File \cup Ways)
      /\ {} \in SUBSET (File \cup Ways) /\ cmd[c].todo \ {Min(cmd[c].todo)} \in SUBSET Items
  BY DEF TypeOK, Cmds
<1>2. ASSUME NEW pc \in PCs PROVE Goto(c, pc) => Becomes(c, pc, cmd[c].todo, cmd[c].seen)
  BY <1>1, EntryChanges
<1>3. ASSUME NEW pc \in PCs, NEW seen \in SUBSET (File \cup Ways)
      PROVE  cmd' = [cmd EXCEPT ![c].pc = pc, ![c].seen = seen] => Becomes(c, pc, cmd[c].todo, seen)
  BY <1>1, EntryChanges
<1>4. cmd' = [cmd EXCEPT ![c].todo = @ \ {Min(cmd[c].todo)}] =>
        Becomes(c, cmd[c].pc, cmd[c].todo \ {Min(cmd[c].todo)}, cmd[c].seen)
  <2>1. cmd[c].pc \in PCs
    BY DEF TypeOK, Cmds
  <2> QED
    BY <2>1, <1>1, EntryChanges DEF TypeOK
<1>5. /\ {"arrived", "copy", "record", "place", "remove", "replica", "look", "fill", "carry"} \subseteq PCs
      /\ {"bring", "settle", "removing", "clearing"} \subseteq PCs
      /\ {"check", "clear", "enter", "confirm", "pack"} \subseteq PCs /\ Ways \subseteq PCs
  BY DEF Relocating, Importing, Exporting, HoldsSrc, Copying, Landing, Ways
<1> HIDE DEF PCs
<1>6. ASSUME LockSource(c) PROVE Fail(c, home) \/ \E way \in Ways :
                 cmd[c].seen = {way} /\ Becomes(c, way, cmd[c].todo, {})
  <2>1. PICK way \in Ways : cmd[c].seen = {way}
    BY <1>6 DEF LockSource, Aimed
  <2>2. (CHOOSE m \in cmd[c].seen : TRUE) = way
    BY <2>1
  <2> QED
    BY <1>6, <2>1, <2>2, <1>1, <1>3, <1>5 DEF LockSource
<1>7. ASSUME MakeStaging(c) PROVE Becomes(c, "copy", Carries(home[cmd[c].src]), cmd[c].seen)
  <2>1. Carries(home[cmd[c].src]) \in SUBSET Items
    BY <1>7, CarriedTypes DEF MakeStaging, Aimed, TypeOK, Relocating, HoldsSrc, Items
  <2> QED
    BY <1>7, <2>1, <1>1, EntryChanges, <1>5 DEF MakeStaging, PCs
<1>8. ASSUME Look(c)
      PROVE  Becomes(c, "fill", File \ {f \in File : home[cmd[c].dst].files[f] = "good"},
                                {f \in File : home[cmd[c].dst].files[f] = "good"})
  BY <1>8, <1>5, EntryChanges DEF Look, PCs, Items
<1>9. ASSUME Hash(c)
      PROVE  Fail(c, home) \/ Becomes(c, "record", cmd[c].todo,
                                      {f \in File : staging[Stage(c)].files[f] = "good"})
  <2>1. {f \in File : staging[Stage(c)].files[f] = "good"} \in SUBSET (File \cup Ways)
    OBVIOUS
  <2> QED
    BY <1>9, <2>1, <1>3, <1>5 DEF Hash
<1>10. After(c) => Becomes(c, IF cmd[c].op = "mv" THEN "remove" ELSE "replica", cmd[c].todo, {})
  BY <1>1, <1>3, <1>5 DEF After
<1>11. CopyNext(c) => Fail(c, home) \/
         Becomes(c, "copy", cmd[c].todo \ {Min(cmd[c].todo)}, cmd[c].seen)
  BY <1>4 DEF CopyNext
<1>12. Fill(c) => Fail(c, home) \/
         Becomes(c, "fill", cmd[c].todo \ {Min(cmd[c].todo)}, cmd[c].seen)
  BY <1>4 DEF Fill
<1>13. Pack(c) => cmd' = [cmd EXCEPT ![c] = Idle] \/
         Becomes(c, "pack", cmd[c].todo \ {Min(cmd[c].todo)}, cmd[c].seen)
  BY <1>4 DEF Pack
<1>14. /\ Rename(c) => Fail(c, home) \/ Becomes(c, "arrived", cmd[c].todo, cmd[c].seen)
       /\ RecordStaged(c) => Fail(c, home) \/ Becomes(c, "place", cmd[c].todo, cmd[c].seen)
       /\ LockDest(c) => Fail(c, home) \/ Becomes(c, "look", cmd[c].todo, cmd[c].seen)
       /\ Rehash(c) => Fail(c, home) \/ Becomes(c, "carry", cmd[c].todo, cmd[c].seen)
       /\ Carry(c) => \/ Becomes(c, "bring", cmd[c].todo, cmd[c].seen)
                      \/ Becomes(c, "settle", cmd[c].todo, cmd[c].seen)
       /\ Bring(c) => Becomes(c, "settle", cmd[c].todo, cmd[c].seen)
       /\ Cleared(c) => Fail(c, home) \/ Becomes(c, "enter", cmd[c].todo, cmd[c].seen)
       /\ OpenCopy(c) => Fail(c, home) \/ cmd' = cmd
  BY <1>2, <1>5 DEF Rename, RecordStaged, LockDest, Rehash, Carry, Bring, Cleared, OpenCopy
<1>15. /\ Unpack(c) => Becomes(c, "check", cmd[c].todo, cmd[c].seen)
       /\ CheckUnpacked(c) => Fail(c, home) \/ Becomes(c, "clear", cmd[c].todo, cmd[c].seen)
       /\ Enter(c) => Fail(c, home) \/ Becomes(c, "confirm", cmd[c].todo, cmd[c].seen)
       /\ OpenTar(c) => Becomes(c, "pack", cmd[c].todo, cmd[c].seen)
  BY <1>2, <1>5 DEF Unpack, CheckUnpacked, Enter, OpenTar
<1>16. ASSUME NEW pc \in {"removing", "clearing"}, NEW v \in Vault,
              cmd' = [cmd EXCEPT ![c].pc = pc, ![c].todo = Entries(home[v])]
       PROVE  Becomes(c, pc, Entries(home[v]), cmd[c].seen)
  <2>1. home[v] \in Homes /\ Entries(home[v]) \in SUBSET Items
    BY CarriedTypes DEF TypeOK, Entries, Items
  <2> QED
    BY <1>16, <2>1, <1>1, <1>5, EntryChanges DEF PCs
<1>17. ASSUME Remove(c) PROVE Becomes(c, "removing", Entries(home[cmd[c].src]), cmd[c].seen)
  <2>1. cmd[c].src \in Vault
    BY <1>17 DEF Remove, Aimed, Relocating, HoldsSrc
  <2> QED
    BY <1>17, <2>1, <1>16 DEF Remove
<1>18. ASSUME Clear(c) PROVE Becomes(c, "clearing", Entries(home[cmd[c].dst]), cmd[c].seen)
  <2>1. cmd[c].dst \in Vault
    BY <1>18 DEF Clear, Aimed, Importing
  <2> QED
    BY <1>18, <2>1, <1>16 DEF Clear
<1>19. ASSUME SweepEntry(c)
       PROVE  \E item \in cmd[c].todo : Becomes(c, cmd[c].pc, cmd[c].todo \ {item}, cmd[c].seen)
  <2>1. PICK item \in cmd[c].todo : cmd' = [cmd EXCEPT ![c].todo = @ \ {item}]
    BY <1>19 DEF SweepEntry
  <2>2. cmd[c].pc \in PCs /\ cmd[c].todo \ {item} \in SUBSET Items
    BY <1>19, <1>1, <1>5 DEF SweepEntry
  <2>3. cmd' = [cmd EXCEPT ![c].todo = cmd[c].todo \ {item}]
    BY <2>1 DEF TypeOK
  <2>4. Becomes(c, cmd[c].pc, cmd[c].todo \ {item}, cmd[c].seen)
    BY <2>2, <2>3, <1>1, EntryChanges DEF PCs
  <2> QED
    BY <2>1, <2>4
<1> QED
  BY <1>6, <1>7, <1>8, <1>9, <1>10, <1>11, <1>12, <1>13, <1>14, <1>15, <1>17, <1>18, <1>19

\* Each step of a verb keeps the types and works on the verb's own line.
LEMMA WorkTypes ==
    ASSUME TypeOK, NEW c \in Cmd, Aimed(c), Work(c)
    PROVE  Typed(home', staging') /\ tar' \in [File -> Content] /\ Moves(c)
<1> DEFINE Fine == Typed(home', staging') /\ tar' \in [File -> Content] /\ Moves(c)
<1>0. /\ home \in [Vault -> Homes] /\ staging \in [Stages -> Homes]
      /\ \A s \in Stages : staging[s].lock = Free
      /\ tar \in [File -> Content] /\ Typed(home, staging)
  BY DEF TypeOK, Typed
<1>b. cmd[c] \in Cmds /\ cmd[c].todo \subseteq Nat
  <2>1. cmd[c] \in Cmds
    BY DEF TypeOK
  <2>2. cmd[c].todo \subseteq Items
    BY <2>1 DEF Cmds
  <2> QED
    BY <2>1, <2>2, ConstantFacts
<1>a. ASSUME Fail(c, home), UNCHANGED tar PROVE Fine
  BY <1>a, <1>0, FailTypes
<1> USE DEF Relocating, HoldsSrc, Copying, Landing, Importing, Exporting
<1>1. ASSUME LockSource(c) PROVE Fine
  <2>1. CASE Fail(c, home)
    BY <2>1, <1>1, <1>a DEF LockSource
  <2>2. CASE ~ Fail(c, home)
    <3>1. PICK way \in Ways : cmd[c].seen = {way} /\ Becomes(c, way, cmd[c].todo, {})
      BY <1>1, <2>2, NextStop
    <3>2. Moves(c)
      BY <3>1, <1>1, StaysAimed DEF LockSource, Ways
    <3>3. cmd[c].src \in Vault
      BY <1>1 DEF LockSource, Aimed
    <3>4. home' = [home EXCEPT ![cmd[c].src] = [home[cmd[c].src] EXCEPT !.lock = c]]
      BY <1>0, <1>1, <2>2, <3>3 DEF LockSource
    <3>5. [home[cmd[c].src] EXCEPT !.lock = c] \in Homes
      BY <1>0, <3>3, FieldTypes
    <3>6. Typed(home', staging')
      BY <1>0, <1>1, <2>2, <3>4, <3>5 DEF LockSource, Typed
    <3> QED
      BY <3>2, <3>6, <1>1, <1>0 DEF LockSource
  <2> QED
    BY <2>1, <2>2
<1>2. ASSUME Rename(c) PROVE Fine
  <2>1. CASE Fail(c, home)
    BY <2>1, <1>2, <1>a DEF Rename
  <2>2. CASE ~ Fail(c, home)
    <3>0. cmd[c].pc = "rename"
      BY <1>2 DEF Rename
    <3>a. Becomes(c, "arrived", cmd[c].todo, cmd[c].seen)
      BY <1>2, <2>2, NextStop
    <3>1. Moves(c)
      BY <3>a, <3>0, StaysAimed
    <3>2. cmd[c].src \in Vault /\ cmd[c].dst \in Vault
      BY <1>2 DEF Rename, Aimed
    <3>3. Typed(home', staging')
      BY <1>0, <1>2, <2>2, <3>2, EmptyTypes DEF Rename, Typed
    <3> QED
      BY <3>1, <3>3, <1>2, <1>0 DEF Rename
  <2> QED
    BY <2>1, <2>2
<1>3. ASSUME Arrive(c) PROVE Fine
  <2> DEFINE dst == cmd[c].dst
             bare == [home EXCEPT ![dst].lock = Free]
             homes == IF Registered(home[dst])
                      THEN [bare EXCEPT ![dst] = Stamped(bare[dst], "mv", dst, cmd[c].src)] ELSE bare
  <2>1. dst \in Vault /\ cmd[c].src \in Vault
    BY <1>3 DEF Arrive, Aimed
  <2>2. bare \in [Vault -> Homes]
    BY <1>0, <2>1 DEF Homes
  <2>3. Stamped(bare[dst], "mv", dst, cmd[c].src) \in Homes
    BY <2>1, <2>2, StampKeepsFiles
  <2>4. homes \in [Vault -> Homes]
    BY <2>2, <2>3
  <2>5. Fail(c, homes) /\ UNCHANGED tar
    BY <1>3 DEF Arrive
  <2> HIDE DEF homes
  <2> QED
    BY <2>4, <2>5, <1>0, FailTypes
<1>4. ASSUME MakeStaging(c) PROVE Fine
  <2>1. Moves(c)
    <3>1. cmd[c].pc = "stage" /\ Becomes(c, "copy", Carries(home[cmd[c].src]), cmd[c].seen)
      BY <1>4, NextStop DEF MakeStaging
    <3>2. Carries(home[cmd[c].src]) \subseteq File \cup {0}
      BY <3>1, <1>0, CarriedTypes DEF Aimed
    <3> QED
      BY <3>1, <3>2, StaysAimed
  <2>2. Typed(home', staging')
    BY <1>0, <1>4, EmptyTypes DEF MakeStaging, Typed
  <2> QED
    BY <2>1, <2>2, <1>4, <1>0 DEF MakeStaging
<1>5. ASSUME CopyNext(c) PROVE Fine
  <2>1. CASE Fail(c, home)
    BY <2>1, <1>5, <1>a DEF CopyNext
  <2>2. CASE ~ Fail(c, home)
    <3>1. Moves(c)
      <4>1. cmd[c].pc = "copy" /\ Becomes(c, "copy", cmd[c].todo \ {Min(cmd[c].todo)}, cmd[c].seen)
        BY <1>5, <2>2, NextStop DEF CopyNext
      <4>2. cmd[c].todo \subseteq File \cup {0}
        BY <4>1 DEF Aimed
      <4> QED
        BY <4>1, <4>2, StaysAimed
    <3>2. cmd[c].src \in Vault /\ Stage(c) \in Stages
      BY <1>5, StageTypes DEF CopyNext, Aimed, Stashing
    <3>3. Min(cmd[c].todo) \in File \cup {0}
      BY <1>5, <2>2, <3>2, <1>0, CarriedTypes DEF CopyNext
    <3>4. /\ Copied(staging[Stage(c)], home[cmd[c].src], Min(cmd[c].todo)) \in Homes
          /\ Copied(staging[Stage(c)], home[cmd[c].src], Min(cmd[c].todo)).lock = Free
      <4>1. staging[Stage(c)] \in Homes /\ home[cmd[c].src] \in Homes /\ staging[Stage(c)].lock = Free
        BY <3>2, <1>0
      <4> QED
        BY <4>1, <3>3, CopyTakesOne
    <3>5. Typed(home', staging')
      BY <1>0, <1>5, <2>2, <3>2, <3>4 DEF CopyNext, Typed
    <3> QED
      BY <3>1, <3>5, <1>5, <1>0 DEF CopyNext
  <2> QED
    BY <2>1, <2>2
<1>6. ASSUME Hash(c) PROVE Fine
  <2>1. CASE Fail(c, home)
    BY <2>1, <1>6, <1>a DEF Hash
  <2>2. CASE ~ Fail(c, home)
    <3>1. Moves(c)
      BY <1>6, <2>2, NextStop, StaysAimed DEF Hash
    <3> QED
      BY <3>1, <2>2, <1>6, <1>0 DEF Hash, Typed
  <2> QED
    BY <2>1, <2>2
<1>7. ASSUME RecordStaged(c) PROVE Fine
  <2>1. CASE Fail(c, home)
    BY <2>1, <1>7, <1>a DEF RecordStaged
  <2>2. CASE ~ Fail(c, home)
    <3>1. Moves(c)
      BY <1>7, <2>2, NextStop, StaysAimed DEF RecordStaged
    <3>2. cmd[c].src \in Vault /\ cmd[c].dst \in Vault /\ Stage(c) \in Stages
      BY <1>7, StageTypes DEF RecordStaged, Aimed, Stashing
    <3> DEFINE passed == [staging[Stage(c)] EXCEPT !.record.verdict = "pass"]
               stamped == Stamped(passed, cmd[c].op, cmd[c].dst, cmd[c].src)
    <3>3. passed \in Homes /\ passed.lock = Free
      <4>1. staging[Stage(c)] \in Homes /\ staging[Stage(c)].lock = Free
        BY <3>2, <1>0
      <4> QED
        BY <4>1, FieldTypes
    <3> HIDE DEF passed
    <3>4. stamped \in Homes /\ stamped.lock = Free
      BY <3>2, <3>3, StampKeepsFiles
    <3>5. staging' = [staging EXCEPT ![Stage(c)] = stamped] /\ home' = home
      <4>1. stamped = Stamped([staging[Stage(c)] EXCEPT !.record.verdict = "pass"],
                              cmd[c].op, cmd[c].dst, cmd[c].src)
        BY DEF passed
      <4> QED
        BY <4>1, <1>7, <2>2 DEF RecordStaged
    <3> HIDE DEF stamped
    <3>6. Typed(home', staging')
      BY <1>0, <3>2, <3>4, <3>5 DEF Typed
    <3> QED
      BY <3>1, <3>6, <1>7, <1>0 DEF RecordStaged
  <2> QED
    BY <2>1, <2>2
<1>8. ASSUME Place(c) PROVE Fine
  <2>1. CASE Fail(c, home)
    BY <2>1, <1>8, <1>a DEF Place
  <2>2. CASE ~ Fail(c, home)
    <3>1. Moves(c)
      BY <1>8, <2>2, NextStop, StaysAimed DEF Place
    <3>2. cmd[c].dst \in Vault /\ Stage(c) \in Stages
      BY <1>8, StageTypes DEF Place, Stashing
    <3>3. Typed(home', staging')
      BY <1>0, <1>8, <2>2, <3>2, EmptyTypes DEF Place, Typed
    <3> QED
      BY <3>1, <3>3, <1>8, <1>0 DEF Place
  <2> QED
    BY <2>1, <2>2
<1>9. ASSUME LockDest(c) PROVE Fine
  <2>1. CASE Fail(c, home)
    BY <2>1, <1>9, <1>a DEF LockDest
  <2>2. CASE ~ Fail(c, home)
    <3>0. cmd[c].pc = "adopt" /\ home' = [home EXCEPT ![cmd[c].dst].lock = c] /\ UNCHANGED <<staging, tar>>
      BY <1>9, <2>2 DEF LockDest
    <3>1. Moves(c)
      BY <1>9, <2>2, <3>0, NextStop, StaysAimed
    <3>2. cmd[c].dst \in Vault
      BY <3>0 DEF Aimed
    <3>3. home' = [home EXCEPT ![cmd[c].dst] = [home[cmd[c].dst] EXCEPT !.lock = c]]
      BY <1>0, <3>0, <3>2
    <3>4. [home[cmd[c].dst] EXCEPT !.lock = c] \in Homes
      BY <1>0, <3>2, FieldTypes
    <3> QED
      BY <3>0, <3>1, <3>2, <3>3, <3>4, <1>0 DEF Typed
  <2> QED
    BY <2>1, <2>2
<1>10. ASSUME Look(c) PROVE Fine
  <2>1. Moves(c)
    BY <1>10, NextStop, StaysAimed DEF Look
  <2> QED
    BY <2>1, <1>10, <1>0 DEF Look, Typed
<1>11. ASSUME Fill(c) PROVE Fine
  <2>0. cmd[c].pc = "fill"
    BY <1>11 DEF Fill
  <2>1. CASE Fail(c, home)
    BY <2>1, <1>11, <1>a, <2>0 DEF Fill
  <2>2. CASE ~ Fail(c, home)
    <3> DEFINE item == Min(cmd[c].todo)
    <3>1. cmd[c].src \in Vault /\ cmd[c].dst \in Vault /\ cmd[c].todo \subseteq File
      BY <2>0 DEF Aimed
    <3>9. Becomes(c, "fill", cmd[c].todo \ {Min(cmd[c].todo)}, cmd[c].seen)
      BY <1>11, <2>2, NextStop
    <3>2. Moves(c)
      BY <2>0, <3>1, <3>9, StaysAimed
    <3>3. /\ home' = [home EXCEPT ![cmd[c].dst] = Copied(@, home[cmd[c].src], item)]
          /\ item \in Carries(home[cmd[c].src]) /\ UNCHANGED <<staging, tar>>
      BY <1>11, <2>2 DEF Fill
    <3>4. item \in File \cup {0}
      BY <3>1, <3>3, <1>0, CarriedTypes
    <3>5. Copied(home[cmd[c].dst], home[cmd[c].src], item) \in Homes
      BY <3>1, <3>4, <1>0, CopyTakesOne
    <3> QED
      BY <3>1, <3>2, <3>3, <3>5, <1>0 DEF Typed
  <2> QED
    BY <2>1, <2>2
<1>12. ASSUME Rehash(c) PROVE Fine
  <2>1. CASE Fail(c, home)
    BY <2>1, <1>12, <1>a DEF Rehash
  <2>2. CASE ~ Fail(c, home)
    <3>1. cmd[c].pc = "fill" /\ UNCHANGED <<home, staging, tar>>
      BY <1>12, <2>2 DEF Rehash
    <3>2. Moves(c)
      BY <1>12, <2>2, <3>1, NextStop, StaysAimed
    <3> QED
      BY <3>1, <3>2, <1>0 DEF Typed
  <2> QED
    BY <2>1, <2>2
<1>13. ASSUME Carry(c) \/ Bring(c) PROVE Fine
  <2>1. cmd[c].pc \in {"carry", "bring"} /\ UNCHANGED <<staging, tar>>
    BY <1>13 DEF Carry, Bring
  <2>2. Moves(c)
    <3>1. PICK pc \in {"bring", "settle"} : Becomes(c, pc, cmd[c].todo, cmd[c].seen)
      BY <1>13, NextStop
    <3> QED
      BY <2>1, <3>1, StaysAimed
  <2>3. cmd[c].src \in Vault /\ cmd[c].dst \in Vault
    BY <2>1 DEF Aimed
  <2>4. home[cmd[c].dst] \in Homes /\ home[cmd[c].src].record \in Records
    BY <2>3, <1>0 DEF Homes
  <2>5. home' = home \/ \E r \in Records : home' = [home EXCEPT ![cmd[c].dst].record = r]
    BY <1>13, <2>4, EmptyTypes DEF Carry, Bring
  <2>6. CASE home' = home
    BY <2>1, <2>2, <2>6, <1>0 DEF Typed
  <2>7. CASE home' # home
    <3>1. PICK r \in Records : home' = [home EXCEPT ![cmd[c].dst].record = r]
      BY <2>5, <2>7
    <3>2. home' = [home EXCEPT ![cmd[c].dst] = [home[cmd[c].dst] EXCEPT !.record = r]]
      BY <3>1, <2>3, <1>0
    <3>3. [home[cmd[c].dst] EXCEPT !.record = r] \in Homes
      BY <2>4, FieldTypes
    <3> QED
      BY <2>1, <2>2, <2>3, <3>2, <3>3, <1>0 DEF Typed
  <2> QED
    BY <2>6, <2>7
<1>14. ASSUME Settle(c) PROVE Fine
  <2>1. CASE Fail(c, home)
    BY <2>1, <1>14, <1>a DEF Settle
  <2>2. CASE ~ Fail(c, home)
    <3> DEFINE passed == [home[cmd[c].dst] EXCEPT !.record.verdict = "pass"]
               stamped == Stamped(passed, cmd[c].op, cmd[c].dst, cmd[c].src)
    <3>1. /\ cmd[c].pc = "settle" /\ After(c) /\ UNCHANGED <<staging, tar>>
          /\ home' = [home EXCEPT ![cmd[c].dst] = Unlocked(stamped, c)]
      BY <1>14, <2>2 DEF Settle
    <3>2. Moves(c)
      BY <3>1, NextStop, StaysAimed
    <3>3. cmd[c].src \in Vault /\ cmd[c].dst \in Vault
      BY <3>1 DEF Aimed
    <3>4. passed \in Homes
      <4>1. home[cmd[c].dst] \in Homes
        BY <3>3, <1>0
      <4> QED
        BY <4>1, FieldTypes
    <3> HIDE DEF passed
    <3>5. stamped \in Homes
      BY <3>3, <3>4, StampKeepsFiles
    <3> HIDE DEF stamped
    <3>6. Unlocked(stamped, c) \in Homes
      BY <3>5, UnlockKeepsTheRest
    <3> QED
      BY <3>1, <3>2, <3>3, <3>6, <1>0 DEF Typed
  <2> QED
    BY <2>1, <2>2
<1>15. ASSUME Remove(c) PROVE Fine
  <2>1. cmd[c].pc = "remove" /\ UNCHANGED <<home, staging, tar>>
    BY <1>15 DEF Remove
  <2>2. Moves(c)
    BY <1>15, <2>1, NextStop, StaysAimed
  <2> QED
    BY <2>1, <2>2, <1>0 DEF Typed
<1>16. ASSUME Replicate(c) PROVE Fine
  <2> DEFINE homes == IF Registered(home[cmd[c].src])
             THEN [home EXCEPT ![cmd[c].src] = Stamped(@, "cp", cmd[c].src, cmd[c].dst)] ELSE home
  <2>1. cmd[c].pc = "replica" /\ UNCHANGED tar /\ Fail(c, homes)
    BY <1>16 DEF Replicate
  <2>2. cmd[c].src \in Vault /\ cmd[c].dst \in Vault
    BY <2>1 DEF Aimed
  <2>3. Stamped(home[cmd[c].src], "cp", cmd[c].src, cmd[c].dst) \in Homes
    BY <2>2, <1>0, StampKeepsFiles
  <2>4. homes \in [Vault -> Homes]
    BY <2>3, <1>0
  <2> HIDE DEF homes
  <2> QED
    BY <2>1, <2>4, <1>0, FailTypes
<1>17. ASSUME Unpack(c) PROVE Fine
  <2>1. cmd[c].pc = "unpack" /\ UNCHANGED <<home, tar>>
    BY <1>17 DEF Unpack
  <2>2. Moves(c)
    BY <1>17, <2>1, NextStop, StaysAimed
  <2>3. Stage(c) \in Stages
    BY <2>1, StageTypes
  <2>4. [NoRecord EXCEPT !.loc = "exported"] \in Records
    BY EmptyTypes DEF Records
  <2>5. /\ [files |-> tar, record |-> [NoRecord EXCEPT !.loc = "exported"], lock |-> Free] \in Homes
        /\ [files |-> tar, record |-> [NoRecord EXCEPT !.loc = "exported"], lock |-> Free].lock = Free
    BY <2>4, <1>0 DEF Homes
  <2> QED
    BY <1>17, <2>1, <2>2, <2>3, <2>5, <1>0 DEF Unpack, Typed
<1>18. ASSUME CheckUnpacked(c) PROVE Fine
  <2>1. CASE Fail(c, home)
    BY <2>1, <1>18, <1>a DEF CheckUnpacked
  <2>2. CASE ~ Fail(c, home)
    <3>1. /\ cmd[c].pc = "check" /\ UNCHANGED <<home, tar>>
          /\ staging' = [staging EXCEPT ![Stage(c)].record.loc = cmd[c].dst]
      BY <1>18, <2>2 DEF CheckUnpacked
    <3>2. Moves(c)
      BY <1>18, <2>2, <3>1, NextStop, StaysAimed
    <3>3. Stage(c) \in Stages /\ cmd[c].dst \in Vault
      BY <3>1, StageTypes DEF Stashing
    <3>4. staging[Stage(c)] \in Homes /\ staging[Stage(c)].lock = Free
      BY <3>3, <1>0
    <3>5. /\ [staging[Stage(c)] EXCEPT !.record.loc = cmd[c].dst] \in Homes
          /\ [staging[Stage(c)] EXCEPT !.record.loc = cmd[c].dst].lock = Free
      BY <3>3, <3>4 DEF Homes, Records
    <3>6. staging' = [staging EXCEPT ![Stage(c)] = [staging[Stage(c)] EXCEPT !.record.loc = cmd[c].dst]]
      BY <3>1, <3>3, <1>0
    <3> QED
      BY <3>1, <3>2, <3>3, <3>5, <3>6, <1>0 DEF Typed
  <2> QED
    BY <2>1, <2>2
<1>19. ASSUME Clear(c) PROVE Fine
  <2>1. cmd[c].pc = "clear" /\ UNCHANGED <<home, staging, tar>>
    BY <1>19 DEF Clear
  <2>3. Becomes(c, "clearing", Entries(home[cmd[c].dst]), cmd[c].seen)
    BY <1>19, NextStop
  <2>2. Moves(c)
    BY <2>1, <2>3, StaysAimed
  <2> QED
    BY <2>1, <2>2, <1>0 DEF Typed
<1>20. ASSUME Enter(c) PROVE Fine
  <2>1. CASE Fail(c, home)
    BY <2>1, <1>20, <1>a DEF Enter
  <2>2. CASE ~ Fail(c, home)
    <3>1. /\ cmd[c].pc = "enter" /\ UNCHANGED tar
          /\ home' = [home EXCEPT ![cmd[c].dst] = staging[Stage(c)]]
          /\ staging' = [staging EXCEPT ![Stage(c)] = Empty]
      BY <1>20, <2>2 DEF Enter
    <3>2. Moves(c)
      BY <1>20, <2>2, <3>1, NextStop, StaysAimed
    <3>3. Stage(c) \in Stages
      BY <3>1, StageTypes DEF Stashing
    <3> QED
      BY <3>1, <3>2, <3>3, <1>0, EmptyTypes DEF Typed
  <2> QED
    BY <2>1, <2>2
<1>21. ASSUME Confirm(c) PROVE Fine
  <2> DEFINE v == cmd[c].dst
             verdict == IF Whole(home[v]) THEN "pass" ELSE "fail"
             confirmed == [home EXCEPT ![v].record.loc = v, ![v].record.verdict = verdict]
             homes == IF Registered(home[v]) THEN confirmed ELSE home
  <2>1. cmd[c].pc = "confirm" /\ UNCHANGED tar /\ Fail(c, homes)
    BY <1>21 DEF Confirm
  <2>2. v \in Vault
    BY <2>1 DEF Aimed
  <2>3. [home[v] EXCEPT !.record.loc = v, !.record.verdict = verdict] \in Homes
    <3>1. home[v] \in Homes /\ verdict \in {"pass", "fail"}
      BY <2>2, <1>0
    <3> QED
      BY <2>2, <3>1 DEF Homes, Records
  <2>4. confirmed = [home EXCEPT ![v] = [home[v] EXCEPT !.record.loc = v, !.record.verdict = verdict]]
    BY <2>2, <1>0
  <2>5. homes \in [Vault -> Homes]
    BY <2>3, <2>4, <1>0
  <2> HIDE DEF homes
  <2> QED
    BY <2>1, <2>5, <1>0, FailTypes
<1>22. ASSUME OpenTar(c) PROVE Fine
  <2>1. cmd[c].pc = "open" /\ UNCHANGED <<home, staging>> /\ tar' = Truncated
    BY <1>22 DEF OpenTar
  <2>2. Moves(c)
    <3>1. cmd[c].todo \subseteq File
      BY <2>1 DEF Aimed
    <3>2. Becomes(c, "pack", cmd[c].todo, cmd[c].seen)
      BY <1>22, NextStop
    <3> QED
      BY <2>1, <3>1, <3>2, StaysAimed
  <2> QED
    BY <2>1, <2>2, <1>0, EmptyTypes DEF Typed
<1>23. ASSUME Pack(c) PROVE Fine
  <2>1. cmd[c].pc = "pack" /\ UNCHANGED <<home, staging>>
    BY <1>23 DEF Pack
  <2>2. cmd[c].todo \subseteq File /\ cmd[c].src \in Vault
    BY <2>1 DEF Aimed
  <2>3. Moves(c)
    <3>1. CASE cmd' = [cmd EXCEPT ![c] = Idle]
      <4>1. cmd' \in [Cmd -> Cmds] /\ cmd'[c] = Idle /\ \A d \in Cmd \ {c} : cmd'[d] = cmd[d]
        BY <3>1, EmptyTypes DEF TypeOK
      <4> QED
        BY <4>1, EmptyTypes DEF Moves, Aimed
    <3>2. CASE Becomes(c, "pack", cmd[c].todo \ {Min(cmd[c].todo)}, cmd[c].seen)
      BY <2>1, <2>2, <3>2, StaysAimed
    <3> QED
      BY <3>1, <3>2, <1>23, NextStop
  <2>4. \/ tar' = tar
        \/ tar' = [tar EXCEPT ![Min(cmd[c].todo)] = home[cmd[c].src].files[Min(cmd[c].todo)]]
           /\ cmd[c].todo # {}
    BY <1>23 DEF Pack
  <2>5. cmd[c].todo # {} => home[cmd[c].src].files[Min(cmd[c].todo)] \in Content
    BY <2>2, <1>0, <1>b, MinIsIn DEF Homes
  <2>6. tar' \in [File -> Content]
    BY <2>4, <2>5, <1>0
  <2> QED
    BY <2>1, <2>3, <2>6, <1>0 DEF Typed
<1>24. ASSUME OpenCopy(c) PROVE Fine
  <2>0. cmd[c].pc = "fill" /\ UNCHANGED tar
    BY <1>24 DEF OpenCopy
  <2>1. CASE Fail(c, home)
    BY <2>0, <2>1, <1>a
  <2>2. CASE ~ Fail(c, home)
    <3> DEFINE item == Min(cmd[c].todo)
    <3>1. /\ cmd[c].src \in Vault /\ cmd[c].dst \in Vault
          /\ home' = [home EXCEPT ![cmd[c].dst].files[item] = "half"]
          /\ item \in Carries(home[cmd[c].src]) /\ UNCHANGED <<cmd, staging>>
      BY <1>24, <2>0, <2>2 DEF OpenCopy, Aimed
    <3>2. item \in File
      BY <1>24, <2>0, <1>b, MinIsIn DEF OpenCopy, Aimed
    <3> HIDE DEF item
    <3>3. [home[cmd[c].dst] EXCEPT !.files[item] = "half"] \in Homes
      BY <3>1, <3>2, <1>0, FileTypes DEF Content
    <3>4. home' = [home EXCEPT ![cmd[c].dst] = [home[cmd[c].dst] EXCEPT !.files[item] = "half"]]
      BY <3>1, <1>0
    <3>5. Moves(c)
      BY <3>1 DEF Moves, Aimed, TypeOK
    <3> QED
      BY <2>0, <3>1, <3>3, <3>4, <3>5, <1>0 DEF Typed
  <2> QED
    BY <2>1, <2>2
<1>25. ASSUME SweepEntry(c) PROVE Fine
  <2>1. PICK item \in cmd[c].todo : home' = [home EXCEPT ![Doomed(c)] = Without(@, item)]
    BY <1>25 DEF SweepEntry
  <2>2. cmd[c].pc \in {"removing", "clearing"} /\ UNCHANGED <<staging, tar>>
    BY <1>25 DEF SweepEntry
  <2>3. Moves(c)
    <3>1. PICK todo : Becomes(c, cmd[c].pc, todo, cmd[c].seen)
      BY <1>25, NextStop
    <3> QED
      BY <2>2, <3>1, StaysAimed
  <2>4. Doomed(c) \in Vault /\ item \in Items
    BY <2>2, <1>b DEF Doomed, Aimed, Cmds
  <2>5. Without(home[Doomed(c)], item) \in Homes
    BY <2>4, <1>0, EntryGoes
  <2> QED
    BY <2>1, <2>2, <2>3, <2>4, <2>5, <1>0 DEF Typed
<1>26. ASSUME Removed(c) PROVE Fine
  BY <1>26, <1>a DEF Removed
<1>27. ASSUME Cleared(c) PROVE Fine
  <2>1. CASE Fail(c, home)
    BY <2>1, <1>27, <1>a DEF Cleared
  <2>2. CASE ~ Fail(c, home)
    <3>1. cmd[c].pc = "clearing" /\ UNCHANGED <<home, staging, tar>>
      BY <1>27, <2>2 DEF Cleared
    <3>2. Moves(c)
      BY <1>27, <2>2, <3>1, NextStop, StaysAimed
    <3> QED
      BY <3>1, <3>2, <1>0 DEF Typed
  <2> QED
    BY <2>1, <2>2
<1> QED
  BY <1>1, <1>2, <1>3, <1>4, <1>5, <1>6, <1>7, <1>8, <1>9, <1>10, <1>11, <1>12, <1>13, <1>14, <1>15,
     <1>16, <1>17, <1>18, <1>19, <1>20, <1>21, <1>22, <1>23, <1>24, <1>25, <1>26, <1>27 DEF Work

\* The mishaps of a verb keep the types and work on its own line, too.
LEMMA MishapTypes ==
    ASSUME TypeOK, NEW c \in Cmd, Aimed(c), Mishap(c)
    PROVE  Typed(home', staging') /\ Moves(c)
<1> DEFINE Fine == Typed(home', staging') /\ Moves(c)
<1>0. /\ home \in [Vault -> Homes] /\ staging \in [Stages -> Homes]
      /\ \A s \in Stages : staging[s].lock = Free
      /\ Typed(home, staging)
  BY DEF TypeOK, Typed
<1>b. cmd[c].todo \subseteq Items /\ cmd[c].todo \subseteq Nat
  <2>1. cmd[c] \in Cmds
    BY DEF TypeOK
  <2>2. cmd[c].todo \subseteq Items
    BY <2>1 DEF Cmds
  <2> QED
    BY <2>1, <2>2, ConstantFacts
<1>c. cmd[c].todo \ {0} # {} => Min(cmd[c].todo) \in cmd[c].todo
  BY <1>b, MinIsIn
<1>d. {"half", "bad"} \subseteq Content
  BY DEF Content
<1>1. ASSUME Crash(c) PROVE Fine
  <2>1. home' \in [Vault -> Homes]
    BY <1>1, <1>0, FieldTypes DEF Crash
  <2>2. cmd' \in [Cmd -> Cmds] /\ cmd'[c] = Idle /\ \A d \in Cmd \ {c} : cmd'[d] = cmd[d]
    BY <1>1, EmptyTypes DEF TypeOK, Crash
  <2>3. Moves(c)
    BY <2>2, EmptyTypes DEF Moves, Aimed, Relocating, HoldsSrc, Copying, Landing, Importing, Exporting
  <2> QED
    BY <1>1, <1>0, <2>1, <2>3 DEF Crash, Typed
<1>2. ASSUME Broken(c) PROVE Fine
  BY <1>2, <1>0, FailTypes DEF Broken
<1>3. ASSUME Miscopied(c) PROVE Fine
  <2> DEFINE f == Min(cmd[c].todo)
  <2>0. cmd[c].pc \in {"fill", "copy"} /\ f \in File
    BY <1>3, <1>c DEF Miscopied, Aimed
  <2>1. Becomes(c, cmd[c].pc, cmd[c].todo \ {f}, cmd[c].seen)
    <3>1. /\ cmd[c].todo \ {f} \in SUBSET Items
          /\ cmd' = [cmd EXCEPT ![c].todo = cmd[c].todo \ {f}]
      BY <1>3, <1>b DEF Miscopied, TypeOK
    <3> QED
      BY <3>1, <2>0, EntryChanges DEF Relocating, HoldsSrc, Copying, Landing, TypeOK, Cmds
  <2>2. /\ cmd[c].pc = "fill" => cmd[c].todo \subseteq File
        /\ cmd[c].pc = "copy" => cmd[c].todo \subseteq File \cup {0}
    BY DEF Aimed
  <2>3. Moves(c)
    BY <2>0, <2>1, <2>2, StaysAimed DEF Relocating, HoldsSrc, Copying, Landing, Importing, Exporting
  <2>4. cmd[c].dst \in Vault /\ (cmd[c].pc = "copy" => Stage(c) \in Stages)
    BY <2>0, StageTypes DEF Aimed, Stashing, Copying, Relocating, HoldsSrc, Landing
  <2> HIDE DEF f
  <2>5. ASSUME home' = [home EXCEPT ![cmd[c].dst].files[f] = "bad"], UNCHANGED staging PROVE Fine
    <3>1. home' = [home EXCEPT ![cmd[c].dst] = [home[cmd[c].dst] EXCEPT !.files[f] = "bad"]]
      BY <2>4, <2>5, <1>0
    <3>2. [home[cmd[c].dst] EXCEPT !.files[f] = "bad"] \in Homes
      BY <2>0, <2>4, <1>0, <1>d, FieldTypes
    <3> QED
      BY <2>3, <2>4, <2>5, <3>1, <3>2, <1>0 DEF Typed
  <2>6. ASSUME cmd[c].pc = "copy", staging' = [staging EXCEPT ![Stage(c)].files[f] = "bad"], UNCHANGED home
        PROVE  Fine
    <3>1. staging' = [staging EXCEPT ![Stage(c)] = [staging[Stage(c)] EXCEPT !.files[f] = "bad"]]
      BY <2>4, <2>6, <1>0
    <3>2. staging[Stage(c)] \in Homes /\ staging[Stage(c)].lock = Free
      BY <2>4, <2>6, <1>0
    <3>3. /\ [staging[Stage(c)] EXCEPT !.files[f] = "bad"] \in Homes
          /\ [staging[Stage(c)] EXCEPT !.files[f] = "bad"].lock = Free
      <4>1. ASSUME NEW h \in Homes, h.lock = Free
            PROVE  [h EXCEPT !.files[f] = "bad"] \in Homes /\ [h EXCEPT !.files[f] = "bad"].lock = Free
        <5>1. "bad" \in Content /\ f \in File
          BY <1>d, <2>0
        <5> QED
          BY <4>1, <5>1 DEF Homes
      <4> QED
        BY <4>1, <3>2
    <3> QED
      BY <2>3, <2>4, <2>6, <3>1, <3>3, <1>0 DEF Typed
  <2> QED
    BY <2>5, <2>6, <1>3 DEF Miscopied, f
<1> QED
  BY <1>1, <1>2, <1>3 DEF Mishap

\* A verb begins with everything it needs to know.
LEMMA BeginTypes ==
    ASSUME TypeOK, NEW c \in Cmd, Begin(c)
    PROVE  Moves(c) /\ cmd'[c].pc \in {"lock", "unpack", "open"} /\ UNCHANGED <<home, staging, tar>>
<1> USE DEF Relocating, HoldsSrc, Copying, Landing, Importing, Exporting, Ways
<1>0. cmd \in [Cmd -> Cmds] /\ {} \in SUBSET Items /\ {} \in SUBSET (File \cup Ways)
  BY DEF TypeOK
<1>1. ASSUME NEW op \in {"mv", "cp"}, NEW src \in Vault, NEW dst \in Vault, Relocate(c, op, src, dst)
      PROVE  Moves(c) /\ cmd'[c].pc = "lock" /\ UNCHANGED <<home, staging, tar>>
  <2> DEFINE e == [Idle EXCEPT !.pc = "lock", !.op = op, !.src = src, !.dst = dst, !.seen = {Method(op, src, dst)}]
  <2>1. Method(op, src, dst) \in Ways
    BY DEF Method
  <2>2. /\ e \in Cmds /\ e.pc = "lock" /\ e.op = op /\ e.src = src /\ e.dst = dst
        /\ e.seen = {Method(op, src, dst)}
    BY <2>1 DEF Idle, Cmds
  <2>3. cmd' = [cmd EXCEPT ![c] = e] /\ src # dst /\ UNCHANGED <<home, staging, tar>>
    BY <1>1 DEF Relocate
  <2> HIDE DEF e
  <2>4. cmd' \in [Cmd -> Cmds] /\ cmd'[c] = e /\ \A d \in Cmd \ {c} : cmd'[d] = cmd[d]
    BY <2>2, <2>3, <1>0
  <2>5. Aimed(c)'
    BY <2>1, <2>2, <2>3, <2>4 DEF Aimed
  <2> QED
    BY <2>2, <2>3, <2>4, <2>5 DEF Moves
<1>2. ASSUME NEW dst \in Vault, NEW force \in BOOLEAN, Import(c, dst, force)
      PROVE  Moves(c) /\ cmd'[c].pc = "unpack" /\ UNCHANGED <<home, staging, tar>>
  <2> DEFINE e == [Idle EXCEPT !.pc = "unpack", !.op = "import", !.dst = dst]
  <2>1. e \in Cmds /\ e.pc = "unpack" /\ e.op = "import" /\ e.dst = dst
    BY DEF Idle, Cmds
  <2>2. cmd' = [cmd EXCEPT ![c] = e] /\ UNCHANGED <<home, staging, tar>>
    BY <1>2 DEF Import
  <2> HIDE DEF e
  <2>3. cmd' \in [Cmd -> Cmds] /\ cmd'[c] = e /\ \A d \in Cmd \ {c} : cmd'[d] = cmd[d]
    BY <2>1, <2>2, <1>0
  <2>4. Aimed(c)'
    BY <2>1, <2>3 DEF Aimed
  <2> QED
    BY <2>1, <2>2, <2>3, <2>4 DEF Moves
<1>3. ASSUME NEW src \in Vault, Export(c, src)
      PROVE  Moves(c) /\ cmd'[c].pc = "open" /\ UNCHANGED <<home, staging, tar>>
  <2> DEFINE e == [Idle EXCEPT !.pc = "open", !.op = "export", !.src = src, !.todo = Carries(home[src]) \ {0}]
  <2>1. Carries(home[src]) \ {0} \subseteq File
    BY CarriedTypes DEF TypeOK
  <2>2. e \in Cmds /\ e.pc = "open" /\ e.src = src /\ e.todo \subseteq File
    BY <2>1 DEF Idle, Cmds, Items
  <2>3. cmd' = [cmd EXCEPT ![c] = e] /\ UNCHANGED <<home, staging, tar>>
    BY <1>3 DEF Export
  <2> HIDE DEF e
  <2>4. cmd' \in [Cmd -> Cmds] /\ cmd'[c] = e /\ \A d \in Cmd \ {c} : cmd'[d] = cmd[d]
    BY <2>2, <2>3, <1>0
  <2>5. Aimed(c)'
    BY <2>2, <2>4 DEF Aimed
  <2> QED
    BY <2>2, <2>3, <2>4, <2>5 DEF Moves
<1> QED
  BY <1>1, <1>2, <1>3 DEF Begin

\* The bookkeeping: what was raced once stays so, and only homes lapse.
LEMMA GhostsGrow ==
    ASSUME TypeOK, AllAimed, [Next]_vars
    PROVE  /\ runs' \in Nat /\ faults' \in Nat /\ rotten' \in Nat
           /\ raced' \in BOOLEAN /\ lapsed' \in SUBSET Vault
           /\ raced => raced'
<1> DEFINE G == /\ runs' \in Nat /\ faults' \in Nat /\ rotten' \in Nat
                /\ raced' \in BOOLEAN /\ lapsed' \in SUBSET Vault
                /\ raced => raced'
<1>a. ASSUME Counts, raced' = raced \/ raced' = TRUE \/ \E b \in BOOLEAN : raced' = (raced \/ b),
             lapsed' \subseteq lapsed
      PROVE  G
  <2>1. /\ runs' \in Nat /\ faults' \in Nat /\ rotten' \in Nat /\ lapsed' \in SUBSET Vault
        /\ raced \in BOOLEAN
    BY <1>a DEF Counts, TypeOK
  <2>2. raced' \in BOOLEAN /\ (raced => raced')
    BY <1>a, <2>1, Zenon
  <2> QED
    BY <2>1, <2>2
<1>b. ASSUME NEW raise \in BOOLEAN, Races(raise) PROVE G
  BY <1>b, <1>a DEF Races
<1>c. ASSUME Still PROVE G
  BY <1>c, <1>a DEF Still
<1>d. ASSUME NEW v, Stamps(v) PROVE G
  BY <1>d, <1>a DEF Stamps
<1>1. ASSUME NEW c \in Cmd, Work(c) PROVE G
  <2>1. CASE Still
    BY <2>1, <1>c
  <2>2. CASE MakeStaging(c) \/ Unpack(c) \/ Clear(c) \/ OpenTar(c)
    <3>1. /\ Sweeps(c) \in BOOLEAN /\ (tar # Nothing) \in BOOLEAN
          /\ (/\ Occupied(home[cmd[c].dst])
              /\ home[cmd[c].dst].lock \in Cmd \/ \E d \in Cmd \ {c} : Touches(d, cmd[c].dst)) \in BOOLEAN
      BY DEF Sweeps, Occupied
    <3> QED
      BY <2>2, <3>1, <1>b DEF MakeStaging, Unpack, Clear, OpenTar
  <2>3. CASE LockSource(c) \/ LockDest(c)
    <3>1. Going(cmd[c].src, c) \in BOOLEAN /\ Going(cmd[c].dst, c) \in BOOLEAN
      BY DEF Going
    <3> QED
      BY <2>3, <3>1, <1>b, <1>c DEF LockSource, LockDest
  <2>4. CASE Arrive(c) \/ Place(c) \/ Settle(c) \/ Enter(c)
    <3>1. Still \/ Stamps(cmd[c].dst)
      BY <2>4 DEF Arrive, Place, Settle, Enter
    <3> QED
      BY <3>1, <1>c, <1>d
  <2> QED
    BY <1>1, <2>1, <2>2, <2>3, <2>4 DEF Work, Rename, CopyNext, Hash, RecordStaged, Look, OpenCopy, Fill,
       Rehash, Carry, Bring, Remove, SweepEntry, Removed, Replicate, CheckUnpacked, Cleared, Confirm, Pack
<1>2. ASSUME NEW c \in Cmd, Begin(c) PROVE G
  <2>1. runs' = runs + 1 /\ UNCHANGED <<faults, rotten, raced, lapsed>>
    BY <1>2 DEF Begin, Relocate, Import, Export
  <2> QED
    BY <2>1 DEF TypeOK
<1>3. ASSUME NEW c \in Cmd, Mishap(c) PROVE G
  <2>1. faults' = faults + 1 /\ UNCHANGED <<runs, rotten, raced>> /\ (Lapses(c) \/ UNCHANGED lapsed)
    BY <1>3 DEF Mishap, Crash, Broken, Miscopied, Faulty
  <2>2. cmd[c].pc \in {"arrived", "settle"} => cmd[c].dst \in Vault
    BY DEF AllAimed, Aimed, Relocating, HoldsSrc, Landing
  <2>3. lapsed' \in SUBSET Vault
    BY <2>1, <2>2 DEF Lapses, TypeOK
  <2> QED
    BY <2>1, <2>3 DEF TypeOK
<1>4. ASSUME NEW v \in Vault, NEW f \in File, Rot(v, f) PROVE G
  BY <1>4 DEF Rot, Faulty, TypeOK
<1>5. CASE UNCHANGED vars
  BY <1>5 DEF vars, TypeOK
<1> QED
  BY <1>1, <1>2, <1>3, <1>4, <1>5 DEF Next

\* Every step keeps the types, and every verb keeps knowing where it works.
LEMMA TypeInductive == TypeOK /\ AllAimed /\ [Next]_vars => TypeOK' /\ AllAimed'
<1> SUFFICES ASSUME TypeOK, AllAimed, [Next]_vars PROVE TypeOK' /\ AllAimed'
  OBVIOUS
<1>0. Typed(home, staging) /\ tar \in [File -> Content] /\ cmd \in [Cmd -> Cmds]
  BY DEF TypeOK, Typed
<1>a. ASSUME NEW c \in Cmd, Moves(c) PROVE cmd' \in [Cmd -> Cmds] /\ AllAimed'
  BY <1>a DEF Moves, AllAimed, Aimed
<1>b. ASSUME Typed(home', staging'), tar' \in [File -> Content], cmd' \in [Cmd -> Cmds] PROVE TypeOK'
  BY <1>b, GhostsGrow DEF TypeOK, Typed
<1>1. ASSUME NEW c \in Cmd, Work(c) PROVE TypeOK' /\ AllAimed'
  BY <1>1, <1>a, <1>b, WorkTypes DEF AllAimed
<1>2. ASSUME NEW c \in Cmd, Begin(c) PROVE TypeOK' /\ AllAimed'
  <2>1. Moves(c) /\ UNCHANGED <<home, staging, tar>>
    BY <1>2, BeginTypes
  <2>2. Typed(home', staging') /\ tar' \in [File -> Content]
    BY <2>1, <1>0
  <2> QED
    BY <2>1, <2>2, <1>a, <1>b
<1>3. ASSUME NEW c \in Cmd, Mishap(c) PROVE TypeOK' /\ AllAimed'
  <2>1. Typed(home', staging') /\ Moves(c)
    BY <1>3, MishapTypes DEF AllAimed
  <2>2. tar' = tar
    BY <1>3 DEF Mishap, Crash, Broken, Miscopied
  <2> QED
    BY <2>1, <2>2, <1>0, <1>a, <1>b
<1>4. ASSUME NEW v \in Vault, NEW f \in File, Rot(v, f) PROVE TypeOK' /\ AllAimed'
  <2>1. [home[v] EXCEPT !.files[f] = "bad"] \in Homes
    BY FieldTypes DEF TypeOK, Content
  <2>2. home' = [home EXCEPT ![v] = [home[v] EXCEPT !.files[f] = "bad"]] /\ UNCHANGED <<staging, tar, cmd>>
    BY <1>4 DEF Rot, TypeOK
  <2>3. Typed(home', staging')
    BY <2>1, <2>2, <1>0 DEF Typed
  <2>4. AllAimed'
    BY <2>2 DEF AllAimed, Aimed
  <2> QED
    BY <2>2, <2>3, <2>4, <1>0, <1>b
<1>5. CASE UNCHANGED vars
  <2>1. UNCHANGED <<home, staging, tar, cmd>>
    BY <1>5 DEF vars
  <2>2. Typed(home', staging') /\ tar' \in [File -> Content] /\ cmd' \in [Cmd -> Cmds]
    BY <2>1, <1>0
  <2> QED
    BY <2>1, <2>2, <1>b DEF AllAimed, Aimed
<1> QED
  BY <1>1, <1>2, <1>3, <1>4, <1>5 DEF Next

\* The vaults of a new run are well formed, and no verb is at work.
LEMMA TypeInit == Init => TypeOK /\ AllAimed
<1> SUFFICES ASSUME Init PROVE TypeOK /\ AllAimed
  OBVIOUS
<1>1. home \in [Vault -> Homes]
  <2>1. PICK first \in First, second \in Vault,
             held \in {Nothing, Payload, [Nothing EXCEPT ![1] = "bad"]} :
        home = [v \in Vault |->
                  IF v = first \/ (v = second /\ held = Payload)
                  THEN [files |-> Payload, record |-> Record(v, "pass"), lock |-> Free]
                  ELSE IF v = second THEN [Empty EXCEPT !.files = held] ELSE Empty]
    BY DEF Init
  <2>2. held \in [File -> Content]
    BY EmptyTypes DEF Content
  <2>3. [Empty EXCEPT !.files = held] \in Homes
    BY <2>2, EmptyTypes DEF Homes
  <2>4. ASSUME NEW v \in Vault PROVE Record(v, "pass") \in Records
    BY EmptyTypes DEF Record, Records
  <2>5. ASSUME NEW v \in Vault
        PROVE  [files |-> Payload, record |-> Record(v, "pass"), lock |-> Free] \in Homes
    BY <2>4, EmptyTypes DEF Homes
  <2> QED
    BY <2>1, <2>3, <2>5, EmptyTypes
<1>2. staging \in [Stages -> Homes] /\ \A s \in Stages : staging[s].lock = Free
  BY EmptyTypes DEF Init
<1>3. /\ tar \in [File -> Content] /\ cmd \in [Cmd -> Cmds] /\ runs \in Nat /\ faults \in Nat
      /\ rotten \in Nat /\ raced \in BOOLEAN /\ lapsed \in SUBSET Vault
  BY EmptyTypes DEF Init
<1>4. AllAimed
  BY EmptyTypes DEF Init, AllAimed, Aimed, Relocating, HoldsSrc, Copying, Landing, Importing, Exporting
<1> QED
  BY <1>1, <1>2, <1>3, <1>4 DEF TypeOK

-----------------------------------------------------------------------------
(* What one verb does to another. *)

\* A verb that fails changes no file and no record of any home.
LEMMA FailKeeps ==
    ASSUME TypeOK, NEW c \in Cmd, Fail(c, home), NEW v \in Vault
    PROVE  /\ home'[v].files = home[v].files /\ home'[v].record = home[v].record
           /\ home'[v].lock = IF home[v].lock = c THEN Free ELSE home[v].lock
BY UnlockKeepsTheRest DEF Fail, TypeOK

\* What a verb keeps the others from: what it locked, and what it is removing,
\* whose lock may be gone already.
Keeps(d, v) == home[v].lock = d \/ (Sweeping(d) /\ Doomed(d) = v)

\* Such a home is not empty, and no other verb has locked it or removes it.
LEMMA KeptApart ==
    ASSUME TypeOK, NEW c \in Cmd, Swept(c), NEW d \in Cmd \ {c}, Swept(d), Alone,
           NEW v \in Vault, Keeps(d, v)
    PROVE  /\ Occupied(home[v]) /\ home[v].lock \in {Free, Dead, d} /\ home[v].lock # c
           /\ ~ (Sweeping(c) /\ Doomed(c) = v)
           /\ home[v].lock = d \/ Going(v, c)
<1>0. d # Free /\ d # Dead /\ d # c /\ c # Free /\ c # Dead /\ home[v] \in Homes
  BY ConstantFacts DEF TypeOK
<1>1. CASE home[v].lock = d
  <2>1. Occupied(home[v])
    BY <1>0, <1>1, LockedIsOccupied
  <2>2. ~ (Sweeping(c) /\ Doomed(c) = v)
    BY <1>0, <1>1 DEF Swept
  <2> QED
    BY <1>0, <1>1, <2>1, <2>2
<1>2. CASE Sweeping(d) /\ Doomed(d) = v
  <2>1. PICK item \in cmd[d].todo : TRUE
    BY <1>2 DEF Sweeping
  <2>2. CASE item = LockFile
    <3>1. home[v].lock # Free
      BY <1>2, <2>1, <2>2 DEF Swept
    <3> QED
      BY <1>0, <1>2, <3>1, LockedIsOccupied DEF Swept, Alone, Going
  <2>3. CASE item # LockFile
    <3>1. item \in Carries(home[v])
      BY <1>2, <2>1, <2>3 DEF Swept
    <3>2. Carries(Empty) = {}
      BY EmptyTypes DEF Carries, Nothing
    <3>3. Occupied(home[v])
      BY <3>1, <3>2 DEF Occupied
    <3> QED
      BY <1>0, <1>2, <3>3 DEF Swept, Alone, Going
  <2> QED
    BY <2>2, <2>3
<1> QED
  BY <1>1, <1>2 DEF Keeps

\* What a verb has locked (transfer_lock) or is removing no other verb's step changes,
\* but for the fields of its record.
LEMMA LockedIsKept ==
    ASSUME TypeOK, NEW c \in Cmd, Aimed(c), Locked(c), Swept(c), Work(c) \/ Mishap(c), ~ raced',
           NEW d \in Cmd \ {c}, Swept(d), Alone, NEW v \in Vault, Keeps(d, v)
    PROVE  /\ home'[v].files = home[v].files /\ home'[v].lock = home[v].lock
           /\ Registered(home'[v]) <=> Registered(home[v])
<1> DEFINE Same == /\ home'[v].files = home[v].files /\ home'[v].lock = home[v].lock
                   /\ Registered(home'[v]) <=> Registered(home[v])
<1>0. /\ home \in [Vault -> Homes] /\ home[v] \in Homes /\ c # Free /\ c # Dead
      /\ Occupied(home[v]) /\ home[v].lock # c
      /\ ~ (Sweeping(c) /\ Doomed(c) = v)
      /\ home[v].lock = d \/ Going(v, c)
      /\ d # Free /\ d # Dead /\ d # c
  BY KeptApart, ConstantFacts DEF TypeOK
<1>a. CASE Fail(c, home)
  BY <1>a, <1>0, FailKeeps DEF Registered
<1>b. ASSUME NEW w \in Vault, w # v, NEW h, home' = [home EXCEPT ![w] = h]
      PROVE  Same
  BY <1>b, <1>0
<1>c. ASSUME NEW w \in Vault, home[w].lock = c, NEW homes \in [Vault -> Homes],
             \A u \in Vault \ {w} : homes[u] = home[u], Fail(c, homes)
      PROVE  Same
  <2>1. home'[v] = Unlocked(homes[v], c)
    BY <1>c DEF Fail
  <2>2. homes[v] = home[v] /\ homes[v] \in Homes
    BY <1>c, <1>0
  <2> QED
    BY <2>1, <2>2, <1>0, UnlockKeepsTheRest DEF Registered
<1>d. CASE UNCHANGED home
  BY <1>d, <1>0
<1> USE DEF Relocating, HoldsSrc, HoldsDst, Copying, Landing
<1>e. ASSUME NEW w \in Vault, home[w].lock \in {Free, Dead, c}, ~ Going(w, c) PROVE w # v
  BY <1>e, <1>0
<1>1. CASE LockSource(c)
  <2>1. CASE ~ Fail(c, home)
    <3>1. /\ cmd[c].src \in Vault /\ home[cmd[c].src].lock \in {Free, Dead, c}
          /\ home' = [home EXCEPT ![cmd[c].src].lock = c] /\ ~ Going(cmd[c].src, c)
      BY <1>1, <2>1 DEF LockSource, Aimed, Lockable, Races
    <3>2. home' = [home EXCEPT ![cmd[c].src] = [home[cmd[c].src] EXCEPT !.lock = c]]
      BY <3>1, <1>0
    <3> QED
      BY <3>1, <3>2, <1>b, <1>e
  <2> QED
    BY <2>1, <1>a
<1>2. CASE Rename(c)
  <2>1. CASE ~ Fail(c, home)
    <3>1. /\ cmd[c].pc = "rename" /\ ~ Occupied(home[cmd[c].dst])
          /\ home' = [home EXCEPT ![cmd[c].dst] = home[cmd[c].src], ![cmd[c].src] = Empty]
      BY <1>2, <2>1 DEF Rename
    <3>2. home[cmd[c].src].lock = c /\ cmd[c].src \in Vault /\ cmd[c].dst \in Vault
      BY <3>1 DEF Locked, Aimed
    <3>3. v # cmd[c].src /\ v # cmd[c].dst
      BY <3>1, <3>2, <1>0
    <3> QED
      BY <3>1, <3>2, <3>3, <1>0
  <2> QED
    BY <2>1, <1>a
<1>3. CASE Arrive(c)
  <2> DEFINE dst == cmd[c].dst
             bare == [home EXCEPT ![dst].lock = Free]
             homes == IF Registered(home[dst])
                      THEN [bare EXCEPT ![dst] = Stamped(bare[dst], "mv", dst, cmd[c].src)] ELSE bare
  <2>1. dst \in Vault /\ cmd[c].src \in Vault /\ home[dst].lock = c
    BY <1>3 DEF Arrive, Aimed, Locked
  <2>2. bare \in [Vault -> Homes] /\ \A u \in Vault \ {dst} : bare[u] = home[u]
    BY <1>0, <2>1 DEF Homes
  <2>3. Stamped(bare[dst], "mv", dst, cmd[c].src) \in Homes
    BY <2>1, <2>2, StampKeepsFiles
  <2>4. homes \in [Vault -> Homes] /\ \A u \in Vault \ {dst} : homes[u] = home[u]
    BY <2>2, <2>3
  <2>5. Fail(c, homes)
    BY <1>3 DEF Arrive
  <2> HIDE DEF homes, dst
  <2> QED
    BY <2>1, <2>4, <2>5, <1>c
<1>4. CASE Place(c) \/ Enter(c)
  <2>1. CASE ~ Fail(c, home)
    <3>1. /\ cmd[c].pc \in {"place", "enter"} /\ ~ Occupied(home[cmd[c].dst])
          /\ home' = [home EXCEPT ![cmd[c].dst] = staging[Stage(c)]]
      BY <1>4, <2>1 DEF Place, Enter
    <3>2. cmd[c].dst \in Vault
      BY <3>1, StageTypes DEF Stashing
    <3>3. cmd[c].dst # v
      BY <3>1, <1>0
    <3> QED
      BY <3>1, <3>2, <3>3, <1>b
  <2> QED
    BY <2>1, <1>a
<1>5. CASE LockDest(c)
  <2>1. CASE ~ Fail(c, home)
    <3>1. /\ cmd[c].dst \in Vault /\ home[cmd[c].dst].lock \in {Free, Dead, c}
          /\ home' = [home EXCEPT ![cmd[c].dst].lock = c] /\ ~ Going(cmd[c].dst, c)
      BY <1>5, <2>1 DEF LockDest, Aimed, Lockable, Races
    <3>2. home' = [home EXCEPT ![cmd[c].dst] = [home[cmd[c].dst] EXCEPT !.lock = c]]
      BY <3>1, <1>0
    <3> QED
      BY <3>1, <3>2, <1>b, <1>e
  <2> QED
    BY <2>1, <1>a
<1>6. CASE OpenCopy(c) \/ Fill(c) \/ Carry(c) \/ Bring(c) \/ Settle(c)
  <2>1. CASE ~ Fail(c, home)
    <3>1. cmd[c].dst \in Vault /\ home[cmd[c].dst].lock = c
      BY <1>6 DEF OpenCopy, Fill, Carry, Bring, Settle, Aimed, Locked
    <3>2. \/ UNCHANGED home \/ \E h : home' = [home EXCEPT ![cmd[c].dst] = h]
          \/ \E h : home' = [home EXCEPT ![cmd[c].dst].record = h]
          \/ \E f, x : home' = [home EXCEPT ![cmd[c].dst].files[f] = x]
      <4>1. CASE OpenCopy(c)
        BY <4>1, <2>1 DEF OpenCopy
      <4>2. CASE Fill(c)
        BY <4>2, <2>1 DEF Fill
      <4>3. CASE Settle(c)
        BY <4>3, <2>1 DEF Settle
      <4>4. CASE Carry(c) \/ Bring(c)
        BY <4>4 DEF Carry, Bring
      <4> QED
        BY <1>6, <4>1, <4>2, <4>3, <4>4
    <3>3. ASSUME ~ UNCHANGED home PROVE \E h : home' = [home EXCEPT ![cmd[c].dst] = h]
      <4>1. ASSUME NEW h PROVE [home EXCEPT ![cmd[c].dst].record = h]
                    = [home EXCEPT ![cmd[c].dst] = [home[cmd[c].dst] EXCEPT !.record = h]]
        BY <3>1, <1>0
      <4>2. ASSUME NEW f, NEW x PROVE [home EXCEPT ![cmd[c].dst].files[f] = x]
                    = [home EXCEPT ![cmd[c].dst] = [home[cmd[c].dst] EXCEPT !.files[f] = x]]
        BY <3>1, <1>0
      <4> QED
        BY <3>2, <3>3, <4>1, <4>2
    <3>4. cmd[c].dst # v
      BY <3>1, <1>0
    <3> QED
      BY <3>1, <3>3, <3>4, <1>b, <1>d
  <2> QED
    BY <2>1, <1>a
<1>7. CASE SweepEntry(c)
  <2>1. PICK item \in cmd[c].todo : home' = [home EXCEPT ![Doomed(c)] = Without(@, item)]
    BY <1>7 DEF SweepEntry
  <2>2. Sweeping(c) /\ Doomed(c) \in Vault
    BY <1>7, <2>1 DEF SweepEntry, Sweeping, Doomed, Aimed, Importing
  <2>3. Doomed(c) # v
    BY <2>2, <1>0
  <2> QED
    BY <2>1, <2>2, <2>3, <1>b
<1>8. CASE Replicate(c)
  <2> DEFINE homes == IF Registered(home[cmd[c].src])
             THEN [home EXCEPT ![cmd[c].src] = Stamped(@, "cp", cmd[c].src, cmd[c].dst)] ELSE home
  <2>1. cmd[c].src \in Vault /\ cmd[c].dst \in Vault /\ home[cmd[c].src].lock = c
    BY <1>8 DEF Replicate, Aimed, Locked
  <2>2. Stamped(home[cmd[c].src], "cp", cmd[c].src, cmd[c].dst) \in Homes
    BY <2>1, <1>0, StampKeepsFiles
  <2>3. homes \in [Vault -> Homes] /\ \A u \in Vault \ {cmd[c].src} : homes[u] = home[u]
    BY <2>2, <1>0
  <2>4. Fail(c, homes)
    BY <1>8 DEF Replicate
  <2> HIDE DEF homes
  <2> QED
    BY <2>1, <2>3, <2>4, <1>c
<1>9. CASE Confirm(c)
  <2> DEFINE w == cmd[c].dst
             verdict == IF Whole(home[w]) THEN "pass" ELSE "fail"
             h == [home[w] EXCEPT !.record.loc = w, !.record.verdict = verdict]
             homes == IF Registered(home[w]) THEN [home EXCEPT ![w] = h] ELSE home
  <2>1. w \in Vault
    BY <1>9 DEF Confirm, Aimed, Importing
  <2>2. h \in Homes /\ h.files = home[w].files /\ h.lock = home[w].lock /\ Registered(h)
    <3>1. home[w] \in Homes /\ verdict \in {"pass", "fail"}
      BY <2>1, <1>0
    <3>2. h \in Homes /\ h.files = home[w].files /\ h.lock = home[w].lock /\ h.record.verdict # "none"
      BY <2>1, <3>1 DEF Homes, Records
    <3>3. NoRecord.verdict = "none"
      BY DEF NoRecord
    <3> QED
      BY <3>2, <3>3 DEF Registered
  <2>3. [home EXCEPT ![w].record.loc = w, ![w].record.verdict = verdict] = [home EXCEPT ![w] = h]
    BY <2>1, <1>0
  <2>4. Fail(c, homes)
    BY <1>9, <2>3 DEF Confirm
  <2> HIDE DEF h, w
  <2>5. /\ homes[v] \in Homes /\ homes[v].files = home[v].files /\ homes[v].lock = home[v].lock
        /\ Registered(homes[v]) <=> Registered(home[v])
    BY <2>1, <2>2, <1>0
  <2>6. home'[v] = Unlocked(homes[v], c)
    BY <2>4 DEF Fail
  <2> HIDE DEF homes
  <2> QED
    BY <2>5, <2>6, <1>0, UnlockKeepsTheRest DEF Registered
<1>10. CASE Crash(c)
  BY <1>10, <1>0 DEF Crash
<1>11. CASE Miscopied(c)
  <2> DEFINE f == Min(cmd[c].todo)
  <2>1. CASE cmd[c].pc = "fill"
    <3>1. cmd[c].dst \in Vault /\ home[cmd[c].dst].lock = c /\ home[cmd[c].dst] \in Homes
      BY <2>1, <1>0 DEF Aimed, Locked
    <3>2. f \in File
      <4>1. cmd[c].todo \subseteq File /\ cmd[c].todo # {}
        BY <2>1, <1>11 DEF Aimed, Miscopied
      <4> QED
        BY <4>1, MinIsIn, ConstantFacts
    <3>3. home' = [home EXCEPT ![cmd[c].dst] = [home[cmd[c].dst] EXCEPT !.files[f] = "bad"]]
      BY <2>1, <1>11, <3>1, <1>0 DEF Miscopied
    <3> QED
      BY <3>1, <3>3, <1>0, <1>b
  <2>2. CASE cmd[c].pc # "fill"
    BY <2>2, <1>11, <1>d DEF Miscopied
  <2> QED
    BY <2>1, <2>2
<1>12. CASE \/ MakeStaging(c) \/ CopyNext(c) \/ Hash(c) \/ RecordStaged(c) \/ Look(c) \/ Rehash(c)
            \/ Unpack(c) \/ CheckUnpacked(c) \/ OpenTar(c) \/ Pack(c)
            \/ Remove(c) \/ Removed(c) \/ Clear(c) \/ Cleared(c) \/ Broken(c)
  <2>1. Fail(c, home) \/ UNCHANGED home
    BY <1>12 DEF MakeStaging, CopyNext, Hash, RecordStaged, Look, Rehash, Unpack, CheckUnpacked, OpenTar, Pack,
       Remove, Removed, Clear, Cleared, Broken
  <2> QED
    BY <2>1, <1>a, <1>d
<1> QED
  BY <1>1, <1>2, <1>3, <1>4, <1>5, <1>6, <1>7, <1>8, <1>9, <1>10, <1>11, <1>12 DEF Work, Mishap

\* A verb that reaches a staging directory came by the step that makes it.
LEMMA StashingBegins ==
    ASSUME TypeOK, NEW c \in Cmd, Aimed(c), Work(c) \/ Begin(c) \/ Mishap(c), cmd'[c].pc \in Stashing
    PROVE  /\ Stage(c)' = Stage(c)
           /\ cmd[c].pc \in Stashing \/ MakeStaging(c) \/ Unpack(c)
<1> USE DEF Stashing, Copying
<1>a. \A pc, todo, seen : Becomes(c, pc, todo, seen) => cmd'[c].pc = pc /\ Stage(c)' = Stage(c)
  BY DEF Becomes, Stage
<1>b. Fail(c, home) => cmd'[c].pc = "idle"
  BY EmptyTypes DEF Fail, TypeOK
<1>1. CASE LockSource(c)
  BY <1>1, <1>a, <1>b, NextStop DEF Ways
<1>2. CASE \/ Rename(c) \/ LockDest(c) \/ Look(c) \/ Fill(c) \/ Rehash(c) \/ Carry(c) \/ Bring(c)
           \/ Remove(c) \/ OpenTar(c) \/ Enter(c)
  <2>1. /\ Rename(c) => Fail(c, home) \/ cmd'[c].pc = "arrived"
        /\ LockDest(c) => Fail(c, home) \/ cmd'[c].pc = "look"
        /\ Rehash(c) => Fail(c, home) \/ cmd'[c].pc = "carry"
        /\ Carry(c) \/ Bring(c) => cmd'[c].pc \in {"bring", "settle"}
        /\ Remove(c) => cmd'[c].pc = "removing"
    BY <1>a, NextStop
  <2>2. /\ Look(c) => cmd'[c].pc = "fill"
        /\ Fill(c) => Fail(c, home) \/ cmd'[c].pc = "fill"
        /\ OpenTar(c) => cmd'[c].pc = "pack"
        /\ Enter(c) => Fail(c, home) \/ cmd'[c].pc = "confirm"
    BY <1>a, NextStop
  <2> QED
    BY <1>2, <2>1, <2>2, <1>b
<1>3. CASE CopyNext(c) \/ Hash(c) \/ RecordStaged(c) \/ CheckUnpacked(c) \/ Clear(c) \/ Cleared(c)
  <2>1. cmd[c].pc \in Stashing
    BY <1>3 DEF CopyNext, Hash, RecordStaged, CheckUnpacked, Clear, Cleared
  <2> QED
    BY <1>3, <2>1, <1>a, <1>b, NextStop
<1>4. CASE MakeStaging(c) \/ Unpack(c)
  BY <1>4, <1>a, NextStop
<1>5. CASE Place(c) \/ Settle(c)
  <2>1. Fail(c, home) \/ After(c)
    BY <1>5 DEF Place, Settle
  <2>2. After(c) => cmd'[c].pc \in {"remove", "replica"}
    BY <1>a, NextStop
  <2> QED
    BY <2>1, <2>2, <1>b
<1>6. CASE Pack(c)
  <2>1. cmd' = [cmd EXCEPT ![c] = Idle] => cmd'[c].pc = "idle"
    BY EmptyTypes DEF TypeOK
  <2>2. Becomes(c, "pack", cmd[c].todo \ {Min(cmd[c].todo)}, cmd[c].seen) => cmd'[c].pc = "pack"
    BY DEF Becomes
  <2> QED
    BY <1>6, <2>1, <2>2, NextStop
<1>7. CASE Arrive(c) \/ Replicate(c) \/ Confirm(c) \/ Removed(c) \/ Crash(c) \/ Broken(c)
  <2>1. cmd' = [cmd EXCEPT ![c] = Idle]
    BY <1>7 DEF Arrive, Replicate, Confirm, Removed, Crash, Broken, Fail
  <2> QED
    BY <2>1, EmptyTypes DEF TypeOK
<1>8. CASE SweepEntry(c) \/ OpenCopy(c)
  <2>1. CASE SweepEntry(c)
    <3>1. PICK todo : Becomes(c, cmd[c].pc, todo, cmd[c].seen)
      BY <2>1, NextStop
    <3> QED
      BY <3>1, <1>a
  <2>2. CASE OpenCopy(c)
    <3>1. cmd[c].pc = "fill" /\ (Fail(c, home) \/ cmd' = cmd)
      BY <2>2, NextStop DEF OpenCopy
    <3> QED
      BY <3>1, <1>b
  <2> QED
    BY <1>8, <2>1, <2>2
<1>9. CASE Begin(c)
  BY <1>9, BeginTypes
<1>10. CASE Miscopied(c)
  <2>1. cmd' = [cmd EXCEPT ![c].todo = @ \ {Min(cmd[c].todo)}] /\ cmd[c].pc \in {"fill", "copy"}
    BY <1>10 DEF Miscopied
  <2>2. /\ cmd'[c].pc = cmd[c].pc /\ cmd'[c].op = cmd[c].op /\ cmd'[c].dst = cmd[c].dst
    BY <2>1 DEF TypeOK, Cmds
  <2> QED
    BY <2>1, <2>2 DEF Stage
<1> QED
  BY <1>1, <1>2, <1>3, <1>4, <1>5, <1>6, <1>7, <1>8, <1>9, <1>10 DEF Work, Mishap

\* Nor does a verb reach the writing of the tar other than by opening it.
LEMMA PackingBegins ==
    ASSUME TypeOK, NEW c \in Cmd, Aimed(c), Work(c) \/ Begin(c) \/ Mishap(c), cmd'[c].pc = "pack"
    PROVE  OpenTar(c) \/ Pack(c)
<1>a. \A pc, todo, seen : Becomes(c, pc, todo, seen) => cmd'[c].pc = pc
  BY DEF Becomes
<1>b. Fail(c, home) => cmd'[c].pc = "idle"
  BY EmptyTypes DEF Fail, TypeOK
<1>1. ~ LockSource(c)
  BY <1>a, <1>b, NextStop DEF Ways
<1>2. /\ ~ Rename(c) /\ ~ LockDest(c) /\ ~ Look(c) /\ ~ Fill(c) /\ ~ Rehash(c) /\ ~ Carry(c) /\ ~ Bring(c)
      /\ ~ Enter(c) /\ ~ CopyNext(c) /\ ~ Hash(c) /\ ~ RecordStaged(c) /\ ~ CheckUnpacked(c)
      /\ ~ Clear(c) /\ ~ Cleared(c) /\ ~ MakeStaging(c) /\ ~ Unpack(c) /\ ~ Remove(c)
  BY <1>a, <1>b, NextStop
<1>3. ~ Place(c) /\ ~ Settle(c)
  <2>1. After(c) => cmd'[c].pc \in {"remove", "replica"}
    BY <1>a, NextStop
  <2> QED
    BY <2>1, <1>b DEF Place, Settle
<1>4. ~ Arrive(c) /\ ~ Replicate(c) /\ ~ Confirm(c) /\ ~ Removed(c) /\ ~ Crash(c) /\ ~ Broken(c)
  <2>1. cmd' # [cmd EXCEPT ![c] = Idle]
    BY EmptyTypes DEF TypeOK
  <2> QED
    BY <2>1 DEF Arrive, Replicate, Confirm, Removed, Crash, Broken, Fail
<1>5. ~ SweepEntry(c) /\ ~ OpenCopy(c)
  <2>1. ASSUME SweepEntry(c) PROVE FALSE
    <3>1. PICK todo : Becomes(c, cmd[c].pc, todo, cmd[c].seen)
      BY <2>1, NextStop
    <3> QED
      BY <2>1, <3>1, <1>a DEF SweepEntry
  <2>2. ASSUME OpenCopy(c) PROVE FALSE
    <3>1. cmd[c].pc = "fill" /\ (Fail(c, home) \/ cmd' = cmd)
      BY <2>2, NextStop DEF OpenCopy
    <3> QED
      BY <3>1, <1>b
  <2> QED
    BY <2>1, <2>2
<1>6. ~ Begin(c)
  BY BeginTypes
<1>7. ~ Miscopied(c)
  <2>1. ~ (cmd' = [cmd EXCEPT ![c].todo = @ \ {Min(cmd[c].todo)}] /\ cmd[c].pc \in {"fill", "copy"})
    BY DEF TypeOK, Cmds
  <2> QED
    BY <2>1 DEF Miscopied
<1> QED
  BY <1>1, <1>2, <1>3, <1>4, <1>5, <1>6, <1>7 DEF Work, Mishap

\* Nor does it come to remove a home but by listing its entries.
LEMMA SweepingBegins ==
    ASSUME TypeOK, NEW c \in Cmd, Aimed(c), Work(c) \/ Begin(c) \/ Mishap(c),
           cmd'[c].pc \in {"removing", "clearing"}
    PROVE  /\ \/ Remove(c) /\ cmd'[c].pc = "removing"
              \/ Clear(c) /\ cmd'[c].pc = "clearing"
              \/ SweepEntry(c) /\ Sweeping(c) /\ cmd'[c].pc = cmd[c].pc
           /\ cmd'[c].src = cmd[c].src /\ cmd'[c].dst = cmd[c].dst
<1>a. \A pc, todo, seen : Becomes(c, pc, todo, seen) =>
        cmd'[c].pc = pc /\ cmd'[c].src = cmd[c].src /\ cmd'[c].dst = cmd[c].dst
  BY DEF Becomes
<1>b. cmd' # [cmd EXCEPT ![c] = Idle] /\ ~ Fail(c, home) /\ \A homes : ~ Fail(c, homes)
  BY EmptyTypes DEF Fail, TypeOK
<1>c. \A pc, todo, seen : Becomes(c, pc, todo, seen) => pc \in {"removing", "clearing"}
  BY <1>a
<1>e. \A todo, seen :
         /\ ~ Becomes(c, "arrived", todo, seen) /\ ~ Becomes(c, "look", todo, seen)
         /\ ~ Becomes(c, "fill", todo, seen) /\ ~ Becomes(c, "carry", todo, seen)
         /\ ~ Becomes(c, "bring", todo, seen) /\ ~ Becomes(c, "settle", todo, seen)
  BY <1>c
<1>f. \A todo, seen :
         /\ ~ Becomes(c, "confirm", todo, seen) /\ ~ Becomes(c, "copy", todo, seen)
         /\ ~ Becomes(c, "record", todo, seen) /\ ~ Becomes(c, "place", todo, seen)
         /\ ~ Becomes(c, "clear", todo, seen) /\ ~ Becomes(c, "enter", todo, seen)
         /\ ~ Becomes(c, "check", todo, seen) /\ ~ Becomes(c, "pack", todo, seen)
  BY <1>c
<1>d. cmd' # [cmd EXCEPT ![c] = Idle] /\ ~ Fail(c, home)
  BY <1>b
<1>1. ~ LockSource(c)
  <2>1. \A way \in Ways : ~ Becomes(c, way, cmd[c].todo, {})
    BY <1>a DEF Ways
  <2> QED
    BY <1>b, <2>1, NextStop
<1>2. /\ ~ Rename(c) /\ ~ LockDest(c) /\ ~ Look(c) /\ ~ Fill(c) /\ ~ Rehash(c)
      /\ ~ Carry(c) /\ ~ Bring(c)
  BY <1>e, <1>d, NextStop
<1>10. /\ ~ Enter(c) /\ ~ CopyNext(c) /\ ~ Hash(c) /\ ~ RecordStaged(c) /\ ~ CheckUnpacked(c)
       /\ ~ Cleared(c) /\ ~ MakeStaging(c) /\ ~ Unpack(c) /\ ~ OpenTar(c)
  BY <1>f, <1>d, NextStop
<1>11. ~ Pack(c)
  <2>1. Pack(c) => cmd' = [cmd EXCEPT ![c] = Idle] \/
           Becomes(c, "pack", cmd[c].todo \ {Min(cmd[c].todo)}, cmd[c].seen)
    BY NextStop
  <2> QED
    BY <2>1, <1>f, <1>d
<1>3. ~ Place(c) /\ ~ Settle(c)
  <2>1. After(c) => cmd'[c].pc \in {"remove", "replica"}
    BY <1>a, NextStop
  <2> QED
    BY <2>1, <1>b DEF Place, Settle
<1>4. ~ Arrive(c) /\ ~ Replicate(c) /\ ~ Confirm(c) /\ ~ Removed(c) /\ ~ Crash(c) /\ ~ Broken(c)
  BY <1>b DEF Arrive, Replicate, Confirm, Removed, Crash, Broken
<1>5. ~ OpenCopy(c) /\ ~ Begin(c)
  <2>1. OpenCopy(c) => cmd[c].pc = "fill" /\ cmd' = cmd
    BY <1>b, NextStop DEF OpenCopy
  <2> QED
    BY <2>1, BeginTypes
<1>6. ~ Miscopied(c)
  <2>1. ~ (cmd' = [cmd EXCEPT ![c].todo = @ \ {Min(cmd[c].todo)}] /\ cmd[c].pc \in {"fill", "copy"})
    BY DEF TypeOK, Cmds
  <2> QED
    BY <2>1 DEF Miscopied
<1>7. CASE Remove(c)
  BY <1>7, <1>a, NextStop
<1>8. CASE Clear(c)
  BY <1>8, <1>a, NextStop
<1>9. CASE SweepEntry(c)
  <2>1. PICK todo : Becomes(c, cmd[c].pc, todo, cmd[c].seen)
    BY <1>9, NextStop
  <2>2. Sweeping(c)
    BY <1>9 DEF SweepEntry, Sweeping
  <2> QED
    BY <1>9, <2>1, <2>2, <1>a
<1> QED
  BY <1>1, <1>2, <1>3, <1>4, <1>5, <1>6, <1>7, <1>8, <1>9, <1>10, <1>11 DEF Work, Mishap

\* Only Unpack and MakeStaging enter a directory another verb works in, only Clear
\* takes a home another verb is removing, and they set `raced` if they do; the same
\* for a tar that is there already.
LEMMA AloneInductive ==
    ASSUME TypeOK, AllAimed, NEW c \in Cmd, Moves(c), Work(c) \/ Begin(c) \/ Mishap(c), ~ raced',
           Alone, \A d \in Cmd : Sure(d)
    PROVE  Alone'
<1>0. Aimed(c) /\ Sure(c)
  BY DEF AllAimed
<1>1. ASSUME NEW d \in Cmd \ {c}, cmd'[c].pc \in Stashing, cmd[d].pc \in Stashing, Stage(c)' = Stage(d)
      PROVE  FALSE
  <2>1. Stage(c) = Stage(d)
    BY <1>0, <1>1, StashingBegins
  <2>2. CASE cmd[c].pc \in Stashing
    BY <2>1, <2>2, <1>1 DEF Alone
  <2>3. CASE MakeStaging(c) \/ Unpack(c)
    <3>1. Working(d)
      BY <1>1 DEF Working, Stashing, Copying
    <3>2. Sweeps(c)
      BY <2>1, <3>1 DEF Sweeps
    <3> QED
      BY <2>3, <3>2 DEF MakeStaging, Unpack, Races
  <2> QED
    BY <2>2, <2>3, <1>0, <1>1, StashingBegins
<1>2. ASSUME NEW d \in Cmd \ {c}, cmd'[c].pc = "pack", cmd[d].pc = "pack" PROVE FALSE
  <2>1. tar # Nothing
    BY <1>2 DEF Sure, Packed
  <2>2. CASE OpenTar(c)
    BY <2>1, <2>2 DEF OpenTar, Races
  <2>3. CASE Pack(c)
    BY <2>3, <1>2 DEF Pack, Alone
  <2> QED
    BY <2>2, <2>3, <1>0, <1>2, PackingBegins
<1>3. ASSUME NEW d \in Cmd \ {c}, Sweeping(c)', Sweeping(d), Doomed(c)' = Doomed(d) PROVE FALSE
  <2>1. Doomed(d) \in Vault /\ Touches(d, Doomed(d)) /\ Swept(d) /\ Swept(c)
    BY <1>3, EmptyTypes DEF Sweeping, Doomed, AllAimed, Aimed, Relocating, Importing, Touches, Sure
  <2>2. cmd'[c].pc \in {"removing", "clearing"}
    BY <1>3 DEF Sweeping
  <2>3. CASE Remove(c) /\ cmd'[c].pc = "removing"
    <3>1. Doomed(d) = cmd[c].src
      BY <1>0, <1>3, <2>2, <2>3, SweepingBegins DEF Doomed
    <3>2. home[Doomed(d)].lock = c
      BY <1>0, <2>3, <3>1 DEF Remove, Sure, Locked, HoldsSrc
    <3> QED
      BY <3>2, <2>1, <1>3, ConstantFacts DEF Swept
  <2>4. CASE Clear(c) /\ cmd'[c].pc = "clearing"
    <3>1. Doomed(d) = cmd[c].dst
      BY <1>0, <1>3, <2>2, <2>4, SweepingBegins DEF Doomed
    <3>2. Occupied(home[Doomed(d)])
      BY <1>3, <2>1, KeptApart DEF Keeps
    <3> QED
      BY <2>4, <3>1, <3>2, <2>1 DEF Clear, Races
  <2>5. CASE SweepEntry(c) /\ Sweeping(c) /\ cmd'[c].pc = cmd[c].pc
    <3>1. Doomed(c)' = Doomed(c)
      BY <1>0, <2>2, <2>5, SweepingBegins DEF Doomed
    <3> QED
      BY <1>3, <2>5, <3>1 DEF Alone
  <2> QED
    BY <1>0, <2>2, <2>3, <2>4, <2>5, SweepingBegins
<1>4. \A d \in Cmd \ {c} : /\ cmd'[d] = cmd[d] /\ Stage(d)' = Stage(d)
                            /\ Sweeping(d)' = Sweeping(d) /\ Doomed(d)' = Doomed(d)
  BY DEF Moves, Stage, Sweeping, Doomed
<1> QED
  BY <1>1, <1>2, <1>3, <1>4 DEF Alone

\* Where a verb writes: in its own staging directory.
LEMMA StagingChanges ==
    ASSUME TypeOK, NEW c \in Cmd, Work(c) \/ Begin(c) \/ Mishap(c)
    PROVE  \/ UNCHANGED staging
           \/ /\ cmd[c].pc \in Stashing \/ MakeStaging(c) \/ Unpack(c)
              /\ \E h : staging' = [staging EXCEPT ![Stage(c)] = h]
<1> USE DEF Stashing, Copying
<1> DEFINE Mine == \E h : staging' = [staging EXCEPT ![Stage(c)] = h]
<1>a. ASSUME NEW homes, Fail(c, homes)
      PROVE  UNCHANGED staging \/ (cmd[c].pc \in Stashing /\ Mine)
  <2>1. CASE Working(c)
    <3>1. staging' = [staging EXCEPT ![Stage(c)] = Empty] /\ cmd[c].pc \in Stashing
      BY <1>a, <2>1 DEF Fail, Working
    <3> QED
      BY <3>1
  <2>2. CASE ~ Working(c)
    BY <1>a, <2>2 DEF Fail
  <2> QED
    BY <2>1, <2>2
<1>1. CASE \/ LockSource(c) \/ Rename(c) \/ Arrive(c) \/ Hash(c) \/ LockDest(c) \/ OpenCopy(c) \/ Fill(c)
           \/ Rehash(c) \/ Settle(c) \/ Removed(c) \/ Cleared(c) \/ Replicate(c) \/ Confirm(c)
  <2>1. UNCHANGED staging \/ \E homes : Fail(c, homes)
    BY <1>1 DEF LockSource, Rename, Arrive, Hash, LockDest, OpenCopy, Fill, Rehash, Settle, Removed, Cleared,
       Replicate, Confirm
  <2> QED
    BY <2>1, <1>a
<1>2. CASE \/ Look(c) \/ Carry(c) \/ Bring(c) \/ Remove(c) \/ SweepEntry(c) \/ Clear(c) \/ OpenTar(c) \/ Pack(c)
           \/ Crash(c)
  BY <1>2 DEF Look, Carry, Bring, Remove, SweepEntry, Clear, OpenTar, Pack, Crash
<1>3. CASE MakeStaging(c) \/ Unpack(c)
  BY <1>3 DEF MakeStaging, Unpack
<1>4. CASE CopyNext(c) \/ RecordStaged(c) \/ Place(c) \/ Enter(c)
  <2>1. cmd[c].pc \in Stashing /\ (Mine \/ Fail(c, home))
    BY <1>4 DEF CopyNext, RecordStaged, Place, Enter
  <2> QED
    BY <2>1, <1>a
<1>5. CASE CheckUnpacked(c) \/ Miscopied(c)
  <2>1. \/ UNCHANGED staging \/ Fail(c, home)
        \/ staging' = [staging EXCEPT ![Stage(c)].record.loc = cmd[c].dst]
        \/ staging' = [staging EXCEPT ![Stage(c)].files[Min(cmd[c].todo)] = "bad"]
    BY <1>5 DEF CheckUnpacked, Miscopied
  <2>2. cmd[c].pc \in {"check", "copy"} \/ UNCHANGED staging
    BY <1>5 DEF CheckUnpacked, Miscopied
  <2>3. staging' = [staging EXCEPT ![Stage(c)].record.loc = cmd[c].dst] => Mine
    OBVIOUS
  <2>4. staging' = [staging EXCEPT ![Stage(c)].files[Min(cmd[c].todo)] = "bad"] => Mine
    OBVIOUS
  <2> QED
    BY <2>1, <2>2, <2>3, <2>4, <1>a
<1>6. CASE Broken(c)
  BY <1>6, <1>a DEF Broken
<1>7. CASE Begin(c)
  BY <1>7 DEF Begin, Relocate, Import, Export
<1> QED
  BY <1>1, <1>2, <1>3, <1>4, <1>5, <1>6, <1>7 DEF Work, Mishap

\* So what a verb prepared in its staging directory stays as it is.
LEMMA StagingIsKept ==
    ASSUME TypeOK, NEW c \in Cmd, Aimed(c), Work(c) \/ Begin(c) \/ Mishap(c), ~ raced', Alone,
           NEW d \in Cmd \ {c}, Aimed(d), cmd[d].pc \in Stashing
    PROVE  staging'[Stage(d)] = staging[Stage(d)]
<1>1. Stage(d) \in Stages
  BY StageTypes
<1>2. ASSUME NEW h, staging' = [staging EXCEPT ![Stage(c)] = h], Stage(c) # Stage(d)
      PROVE  staging'[Stage(d)] = staging[Stage(d)]
  BY <1>1, <1>2 DEF TypeOK
<1>3. CASE cmd[c].pc \in Stashing
  BY <1>2, <1>3, StagingChanges DEF Alone
<1>4. CASE MakeStaging(c) \/ Unpack(c)
  <2>1. Working(d)
    BY DEF Working, Stashing, Copying
  <2>2. ~ Sweeps(c)
    BY <1>4 DEF MakeStaging, Unpack, Races
  <2>3. Stage(c) # Stage(d)
    BY <2>1, <2>2 DEF Sweeps
  <2> QED
    BY <1>2, <2>3, StagingChanges
<1> QED
  BY <1>3, <1>4, StagingChanges

\* Once the export is whole it stays; while it is written nobody else writes it.
LEMMA TarIsKept ==
    ASSUME TypeOK, NEW c \in Cmd, Aimed(c), Work(c) \/ Begin(c) \/ Mishap(c), ~ raced',
           \A d \in Cmd : Packed(d), Alone
    PROVE  /\ tar = Payload => tar' = Payload
           /\ \A d \in Cmd \ {c} : cmd[d].pc = "pack" => tar' = tar
<1>1. CASE OpenTar(c)
  <2>1. tar = Nothing
    BY <1>1 DEF OpenTar, Races
  <2>2. \A d \in Cmd : cmd[d].pc # "pack"
    BY <2>1 DEF Packed
  <2> QED
    BY <2>1, <2>2, EmptyTypes
<1>2. CASE Pack(c)
  <2>1. cmd[c].pc = "pack" /\ cmd[c].todo \subseteq File
    BY <1>2 DEF Pack, Aimed, Exporting
  <2>2. ASSUME cmd[c].todo # {}, tar = Payload PROVE FALSE
    <3>1. PICK f \in cmd[c].todo : tar[f] = "half"
      BY <2>1, <2>2 DEF Packed
    <3> QED
      BY <2>1, <2>2, <3>1 DEF Payload
  <2>3. tar = Payload => tar' = tar
    BY <1>2, <2>2 DEF Pack
  <2>4. \A d \in Cmd \ {c} : cmd[d].pc # "pack"
    BY <2>1 DEF Alone
  <2> QED
    BY <2>3, <2>4
<1>3. CASE ~ OpenTar(c) /\ ~ Pack(c)
  <2>1. tar' = tar
    <3>1. CASE Begin(c)
      BY <3>1 DEF Begin, Relocate, Import, Export
    <3>2. CASE Mishap(c)
      BY <3>2 DEF Mishap, Crash, Broken, Miscopied
    <3>3. CASE Work(c)
      BY <1>3, <3>3 DEF Work, LockSource, Rename, Arrive, MakeStaging, CopyNext, Hash, RecordStaged, Place,
         LockDest, Look, OpenCopy, Fill, Rehash, Carry, Bring, Settle, Remove, SweepEntry, Removed, Replicate,
         Unpack, CheckUnpacked, Clear, Cleared, Enter, Confirm
    <3> QED
      BY <3>1, <3>2, <3>3
  <2> QED
    BY <2>1
<1> QED
  BY <1>1, <1>2, <1>3

\* Whatever a verb knows of its source, its destination, its staging directory
\* and its tar stays true through the steps of the others.
LEMMA OthersStaySure ==
    ASSUME TypeOK, AllAimed, NEW c \in Cmd, Moves(c), Work(c) \/ Begin(c) \/ Mishap(c), ~ raced',
           Alone, \A e \in Cmd : Sure(e),
           NEW d \in Cmd \ {c}
    PROVE  Sure(d)'
<1>1. cmd'[d] = cmd[d] /\ Stage(d)' = Stage(d) /\ Aimed(d) /\ Aimed(c) /\ Sure(d)
  BY DEF Moves, Stage, AllAimed
<1>2. ASSUME NEW v \in Vault, Keeps(d, v)
      PROVE  /\ home'[v].files = home[v].files /\ home'[v].lock = home[v].lock
             /\ Registered(home'[v]) <=> Registered(home[v])
  <2>1. CASE Begin(c)
    BY <2>1, BeginTypes
  <2>2. CASE Work(c) \/ Mishap(c)
    BY <2>2, <1>1, <1>2, LockedIsKept DEF Sure
  <2> QED
    BY <2>1, <2>2
<1>3. /\ cmd[d].pc \in HoldsSrc => cmd[d].src \in Vault /\ home[cmd[d].src].lock = d
      /\ cmd[d].pc \in HoldsDst => cmd[d].dst \in Vault /\ home[cmd[d].dst].lock = d
  BY <1>1 DEF Aimed, Sure, Locked, Relocating, HoldsSrc, HoldsDst, Copying, Landing
<1>4. Swept(d)'
  <2>1. Sweeping(d)' = Sweeping(d) /\ Doomed(d)' = Doomed(d)
    BY <1>1 DEF Sweeping, Doomed
  <2>2. CASE Sweeping(d)
    <3>1. Doomed(d) \in Vault
      BY <2>2, <1>1 DEF Sweeping, Doomed, Aimed, Relocating, Importing
    <3>2. /\ home'[Doomed(d)].files = home[Doomed(d)].files /\ home'[Doomed(d)].lock = home[Doomed(d)].lock
          /\ Registered(home'[Doomed(d)]) <=> Registered(home[Doomed(d)])
      BY <1>2, <2>2, <3>1 DEF Keeps
    <3>3. Carries(home'[Doomed(d)]) = Carries(home[Doomed(d)])
      BY <3>2 DEF Carries
    <3>4. /\ cmd[d].todo \ {LockFile} \subseteq Carries(home[Doomed(d)])
          /\ LockFile \in cmd[d].todo => home[Doomed(d)].lock # Free
          /\ home[Doomed(d)].lock \in {Free, Dead, d}
      BY <2>2, <1>1 DEF Sure, Swept
    <3> QED
      BY <2>1, <3>2, <3>3, <3>4, <1>1 DEF Swept
  <2> QED
    BY <2>1, <2>2 DEF Swept
<1>5. Locked(d)'
  BY <1>1, <1>2, <1>3 DEF Locked, Keeps
<1>6. Landed(d)'
  <2>1. CASE cmd[d].pc \in {"look", "fill", "carry", "bring", "settle"}
    <3>1. /\ home'[cmd[d].dst].files = home[cmd[d].dst].files
          /\ Registered(home'[cmd[d].src]) <=> Registered(home[cmd[d].src])
      BY <2>1, <1>2, <1>3 DEF HoldsSrc, HoldsDst, Landing, Keeps
    <3> QED
      BY <3>1, <1>1 DEF Landed, Sure, Whole
  <2> QED
    BY <2>1, <1>1 DEF Landed
<1>7. /\ tar = Payload => tar' = Payload
      /\ cmd[d].pc = "pack" => tar' = tar
  BY <1>1, TarIsKept DEF Sure
<1>8. Staged(d)'
  <2>1. CASE cmd[d].pc \in {"record", "check", "place", "clear", "clearing", "enter"}
    <3>1. staging'[Stage(d)] = staging[Stage(d)]
      BY <2>1, <1>1, StagingIsKept DEF Stashing, Copying
    <3> QED
      BY <3>1, <1>1, <1>7 DEF Staged, Sure
  <2> QED
    BY <2>1, <1>1 DEF Staged
<1>9. Packed(d)'
  BY <1>1, <1>7 DEF Packed, Sure
<1> QED
  BY <1>4, <1>5, <1>6, <1>8, <1>9 DEF Sure

\* A verb that removes a home lists what is there, and takes what it listed.
LEMMA OwnStaysSwept ==
    ASSUME TypeOK, AllAimed, NEW c \in Cmd, Sure(c), Work(c) \/ Begin(c) \/ Mishap(c), ~ raced'
    PROVE  Swept(c)'
<1> SUFFICES ASSUME Sweeping(c)' PROVE Swept(c)'
  BY DEF Swept
<1>0. /\ home \in [Vault -> Homes] /\ cmd[c] \in Cmds /\ Aimed(c)
      /\ cmd'[c].pc \in {"removing", "clearing"} /\ cmd'[c].todo # {}
  BY DEF TypeOK, AllAimed, Sweeping
<1>1. CASE Remove(c) /\ cmd'[c].pc = "removing"
  <2>1. /\ Doomed(c)' = cmd[c].src /\ home' = home /\ home[cmd[c].src].lock = c
        /\ cmd'[c].todo = Entries(home[cmd[c].src])
    BY <1>0, <1>1, SweepingBegins, NextStop DEF Doomed, Remove, Becomes, Sure, Locked, HoldsSrc
  <2> QED
    BY <2>1, ConstantFacts DEF Swept, Entries
<1>2. CASE Clear(c) /\ cmd'[c].pc = "clearing"
  <2>1. /\ Doomed(c)' = cmd[c].dst /\ home' = home /\ cmd[c].dst \in Vault
        /\ cmd'[c].todo = Entries(home[cmd[c].dst])
    BY <1>0, <1>2, SweepingBegins, NextStop DEF Doomed, Clear, Becomes, Aimed, Importing
  <2>2. home[cmd[c].dst].lock \in Cmd \cup {Free, Dead}
    BY <1>0, <2>1 DEF Homes
  <2>9. Carries(home[cmd[c].dst]) \subseteq File \cup {0}
    BY <1>0, <2>1, CarriedTypes
  <2>3. home[cmd[c].dst].lock \in {Free, Dead}
    <3>1. CASE Occupied(home[cmd[c].dst])
      BY <1>2, <2>2, <3>1 DEF Clear, Races
    <3>2. CASE ~ Occupied(home[cmd[c].dst])
      BY <3>2, EmptyTypes DEF Occupied
    <3> QED
      BY <3>1, <3>2
  <2> QED
    BY <2>1, <2>3, <2>9, ConstantFacts DEF Swept, Entries
<1>3. CASE SweepEntry(c) /\ Sweeping(c) /\ cmd'[c].pc = cmd[c].pc
  <2>1. PICK item \in cmd[c].todo : /\ home' = [home EXCEPT ![Doomed(c)] = Without(@, item)]
                                    /\ cmd' = [cmd EXCEPT ![c].todo = @ \ {item}]
    BY <1>3 DEF SweepEntry
  <2>2. /\ Doomed(c)' = Doomed(c) /\ Doomed(c) \in Vault /\ item \in Items
        /\ cmd'[c].todo = cmd[c].todo \ {item}
    <3>1. Doomed(c)' = Doomed(c)
      BY <1>0, <1>3, SweepingBegins DEF Doomed
    <3>2. Doomed(c) \in Vault
      BY <1>0, <1>3 DEF Doomed, Aimed, Relocating, Importing
    <3> QED
      BY <1>0, <2>1, <3>1, <3>2 DEF Cmds, TypeOK
  <2>3. /\ home'[Doomed(c)] = Without(home[Doomed(c)], item) /\ home[Doomed(c)] \in Homes
    BY <1>0, <2>1, <2>2
  <2>4. /\ Carries(home'[Doomed(c)]) = Carries(home[Doomed(c)]) \ {item}
        /\ home'[Doomed(c)].lock = IF item = LockFile THEN Free ELSE home[Doomed(c)].lock
    BY <2>2, <2>3, EntryGoes
  <2>5. /\ cmd[c].todo \ {LockFile} \subseteq Carries(home[Doomed(c)])
        /\ LockFile \in cmd[c].todo => home[Doomed(c)].lock # Free
        /\ home[Doomed(c)].lock \in {Free, Dead, c}
    BY <1>3 DEF Sure, Swept
  <2> QED
    BY <2>2, <2>4, <2>5 DEF Swept
<1> QED
  BY <1>0, <1>1, <1>2, <1>3, SweepingBegins

\* A verb checks what it will rely on: each step of its own leaves it sure.
LEMMA OwnStaysSure ==
    ASSUME TypeOK, AllAimed, NEW c \in Cmd, Aimed(c), Sure(c), Work(c) \/ Begin(c) \/ Mishap(c), ~ raced'
    PROVE  Sure(c)'
<1> USE DEF Relocating, HoldsSrc, HoldsDst, Copying, Landing, Stashing, Importing, Exporting
<1>0. /\ home \in [Vault -> Homes] /\ staging \in [Stages -> Homes] /\ tar \in [File -> Content]
      /\ cmd \in [Cmd -> Cmds]
  BY DEF TypeOK
<1>s. Swept(c)'
  BY OwnStaysSwept
<1>a. ASSUME cmd' = [cmd EXCEPT ![c] = Idle] PROVE Sure(c)'
  <2>1. cmd'[c].pc = "idle"
    BY <1>a, <1>0, EmptyTypes
  <2> QED
    BY <2>1, <1>s DEF Sure, Locked, Staged, Landed, Packed
<1>b. ASSUME NEW homes, Fail(c, homes) PROVE Sure(c)'
  BY <1>a, <1>b DEF Fail
<1>c. ASSUME NEW pc, NEW todo, NEW seen, Becomes(c, pc, todo, seen)
      PROVE  /\ cmd'[c].pc = pc /\ cmd'[c].todo = todo /\ cmd'[c].seen = seen
             /\ cmd'[c].src = cmd[c].src /\ cmd'[c].dst = cmd[c].dst /\ Stage(c)' = Stage(c)
  BY <1>c DEF Becomes, Stage
<1>1. CASE LockSource(c)
  <2>1. CASE ~ Fail(c, home)
    <3>1. PICK way \in Ways : Becomes(c, way, cmd[c].todo, {})
      BY <1>1, <2>1, NextStop
    <3>2. cmd[c].src \in Vault /\ home' = [home EXCEPT ![cmd[c].src].lock = c]
      BY <1>1, <2>1 DEF LockSource, Aimed
    <3>3. home'[cmd[c].src].lock = c
      BY <3>2, <1>0 DEF Homes
    <3> QED
      BY <3>1, <3>3, <1>c, <1>s DEF Sure, Locked, Staged, Landed, Packed, Ways
  <2> QED
    BY <2>1, <1>b
<1>2. CASE Rename(c)
  <2>1. CASE ~ Fail(c, home)
    <3>1. Becomes(c, "arrived", cmd[c].todo, cmd[c].seen)
      BY <1>2, <2>1, NextStop
    <3>2. /\ cmd[c].pc = "rename"
          /\ home' = [home EXCEPT ![cmd[c].dst] = home[cmd[c].src], ![cmd[c].src] = Empty]
      BY <1>2, <2>1 DEF Rename
    <3>3. home'[cmd[c].dst].lock = c
      BY <3>2, <1>0 DEF Aimed, Sure, Locked
    <3> QED
      BY <3>1, <3>3, <1>c, <1>s DEF Sure, Locked, Staged, Landed, Packed
  <2> QED
    BY <2>1, <1>b
<1>3. CASE Arrive(c) \/ Replicate(c) \/ Confirm(c) \/ Removed(c) \/ Broken(c)
  BY <1>3, <1>b DEF Arrive, Replicate, Confirm, Removed, Broken
<1>4. CASE MakeStaging(c)
  <2>1. Becomes(c, "copy", Carries(home[cmd[c].src]), cmd[c].seen)
    BY <1>4, NextStop
  <2>2. cmd[c].pc = "stage" /\ UNCHANGED home
    BY <1>4 DEF MakeStaging
  <2> QED
    BY <2>1, <2>2, <1>c, <1>s DEF Sure, Locked, Staged, Landed, Packed
<1>5. CASE CopyNext(c)
  <2>1. CASE ~ Fail(c, home)
    <3>1. Becomes(c, "copy", cmd[c].todo \ {Min(cmd[c].todo)}, cmd[c].seen)
      BY <1>5, <2>1, NextStop
    <3>2. cmd[c].pc = "copy" /\ UNCHANGED home
      BY <1>5, <2>1 DEF CopyNext
    <3> QED
      BY <3>1, <3>2, <1>c, <1>s DEF Sure, Locked, Staged, Landed, Packed
  <2> QED
    BY <2>1, <1>b
<1>6. CASE Hash(c)
  <2>1. CASE ~ Fail(c, home)
    <3>1. Becomes(c, "record", cmd[c].todo, {f \in File : staging[Stage(c)].files[f] = "good"})
      BY <1>6, <2>1, NextStop
    <3>2. cmd[c].pc = "copy" /\ UNCHANGED <<home, staging>>
      BY <1>6, <2>1 DEF Hash
    <3>3. /\ cmd'[c].pc = "record" /\ cmd'[c].src = cmd[c].src /\ Stage(c)' = Stage(c)
          /\ cmd'[c].seen = {f \in File : staging[Stage(c)].files[f] = "good"}
      BY <3>1, <1>c
    <3> QED
      BY <3>2, <3>3, <1>s DEF Sure, Locked, Staged, Landed, Packed
  <2> QED
    BY <2>1, <1>b
<1>7. CASE RecordStaged(c)
  <2>1. CASE ~ Fail(c, home)
    <3> DEFINE passed == [staging[Stage(c)] EXCEPT !.record.verdict = "pass"]
               stamped == Stamped(passed, cmd[c].op, cmd[c].dst, cmd[c].src)
    <3>1. Becomes(c, "place", cmd[c].todo, cmd[c].seen)
      BY <1>7, <2>1, NextStop
    <3>2. /\ cmd[c].pc = "record" /\ UNCHANGED home /\ cmd[c].seen = File
          /\ staging' = [staging EXCEPT ![Stage(c)] = stamped]
      BY <1>7, <2>1 DEF RecordStaged
    <3>3. cmd[c].src \in Vault /\ cmd[c].dst \in Vault /\ Stage(c) \in Stages
      BY <3>2, StageTypes DEF Aimed
    <3>4. staging[Stage(c)] \in Homes /\ Whole(staging[Stage(c)])
      <4>1. staging[Stage(c)].files \in [File -> Content]
        BY <3>3, <1>0 DEF Homes
      <4>2. \A f \in File : staging[Stage(c)].files[f] = "good"
        BY <3>2 DEF Sure, Staged
      <4> QED
        BY <4>1, <4>2, <3>3, <1>0 DEF Whole, Payload
    <3>5. passed \in Homes /\ passed.files = staging[Stage(c)].files
      <4>1. staging[Stage(c)] \in Homes
        BY <3>3, <1>0
      <4> QED
        BY <4>1, FieldTypes
    <3> HIDE DEF passed
    <3>6. Complete(stamped, cmd[c].dst)
      BY <3>3, <3>4, <3>5, StampKeepsFiles DEF Complete, Whole
    <3> HIDE DEF stamped
    <3>7. Complete(staging'[Stage(c)], cmd[c].dst)
      BY <3>2, <3>3, <3>6, <1>0
    <3> QED
      BY <3>1, <3>2, <3>7, <1>c, <1>s DEF Sure, Locked, Staged, Landed, Packed
  <2> QED
    BY <2>1, <1>b
<1>8. CASE Place(c)
  <2>1. CASE ~ Fail(c, home)
    <3>1. /\ cmd[c].pc = "place" /\ After(c)
          /\ home' = [home EXCEPT ![cmd[c].dst] = staging[Stage(c)]]
      BY <1>8, <2>1 DEF Place
    <3>2. \E pc \in {"remove", "replica"} : Becomes(c, pc, cmd[c].todo, {})
      BY <3>1, NextStop
    <3>3. home'[cmd[c].src].lock = c
      BY <3>1, <1>0 DEF Aimed, Sure, Locked
    <3> QED
      BY <3>2, <3>3, <1>c, <1>s DEF Sure, Locked, Staged, Landed, Packed
  <2> QED
    BY <2>1, <1>b
<1>9. CASE LockDest(c)
  <2>1. CASE ~ Fail(c, home)
    <3>1. Becomes(c, "look", cmd[c].todo, cmd[c].seen)
      BY <1>9, <2>1, NextStop
    <3>2. /\ cmd[c].pc = "adopt" /\ home' = [home EXCEPT ![cmd[c].dst].lock = c]
          /\ Registered(home[cmd[c].src])
      BY <1>9, <2>1 DEF LockDest
    <3>3. home'[cmd[c].dst].lock = c /\ home'[cmd[c].src].lock = c /\ Registered(home'[cmd[c].src])
      BY <3>2, <1>0 DEF Aimed, Sure, Locked, Homes
    <3> QED
      BY <3>1, <3>3, <1>c, <1>s DEF Sure, Locked, Staged, Landed, Packed
  <2> QED
    BY <2>1, <1>b
<1>10. CASE Look(c)
  <2> DEFINE good == {f \in File : home[cmd[c].dst].files[f] = "good"}
  <2>1. Becomes(c, "fill", File \ good, good)
    BY <1>10, NextStop
  <2>2. cmd[c].pc = "look" /\ UNCHANGED home
    BY <1>10 DEF Look
  <2>3. /\ cmd'[c].pc = "fill" /\ cmd'[c].src = cmd[c].src /\ cmd'[c].dst = cmd[c].dst
        /\ cmd'[c].todo = File \ good /\ cmd'[c].seen = good
    BY <2>1, <1>c
  <2> QED
    BY <2>2, <2>3, <1>s DEF Sure, Locked, Staged, Landed, Packed
<1>11. CASE Fill(c)
  <2>1. CASE ~ Fail(c, home)
    <3> DEFINE item == Min(cmd[c].todo)
    <3>1. Becomes(c, "fill", cmd[c].todo \ {item}, cmd[c].seen)
      BY <1>11, <2>1, NextStop
    <3>2. /\ cmd[c].pc = "fill" /\ cmd[c].todo # {}
          /\ home' = [home EXCEPT ![cmd[c].dst] = Copied(@, home[cmd[c].src], item)]
      BY <1>11, <2>1 DEF Fill
    <3>3. /\ cmd[c].src \in Vault /\ cmd[c].dst \in Vault /\ cmd[c].src # cmd[c].dst
          /\ cmd[c].todo \subseteq File
      BY <3>2 DEF Aimed
    <3>4. item \in cmd[c].todo /\ item \in File /\ item # 0
      BY <3>2, <3>3, MinIsIn, ConstantFacts
    <3> HIDE DEF item
    <3>5. /\ home'[cmd[c].src].lock = c /\ home'[cmd[c].dst].lock = c
          /\ home'[cmd[c].dst].files =
                [home[cmd[c].dst].files EXCEPT ![item] = home[cmd[c].src].files[item]]
      <4> DEFINE to == home[cmd[c].dst]
                 from == home[cmd[c].src]
      <4>1. to \in Homes /\ from \in Homes /\ item \in File \cup {0}
        BY <3>3, <3>4, <1>0
      <4>2. ASSUME NEW t \in Homes, NEW g \in Homes
            PROVE  /\ Copied(t, g, item).lock = t.lock
                   /\ Copied(t, g, item).files = [t.files EXCEPT ![item] = g.files[item]]
        BY <4>1, <3>4 DEF Copied, Homes
      <4>5. /\ Copied(to, from, item).lock = to.lock
            /\ Copied(to, from, item).files = [to.files EXCEPT ![item] = from.files[item]]
        BY <4>1, <4>2
      <4>3. home'[cmd[c].dst] = Copied(to, from, item) /\ home'[cmd[c].src] = from
        BY <3>2, <3>3, <1>0
      <4>4. from.lock = c /\ to.lock = c
        BY <3>2 DEF Sure, Locked
      <4> HIDE DEF to, from
      <4> QED
        BY <4>5, <4>3, <4>4 DEF to, from
    <3>6. home[cmd[c].dst].files \in [File -> Content]
      BY <3>3, <1>0 DEF Homes
    <3>7. home[cmd[c].dst].files[item] # "good"
      BY <3>2, <3>4 DEF Sure, Landed
    <3>8. /\ \A f \in cmd[c].todo \ {item} : home'[cmd[c].dst].files[f] # "good"
          /\ \A f \in File \cap cmd[c].seen : home'[cmd[c].dst].files[f] = "good"
      BY <3>2, <3>3, <3>5, <3>6, <3>7 DEF Sure, Landed
    <3>9. /\ cmd'[c].pc = "fill" /\ cmd'[c].todo = cmd[c].todo \ {item} /\ cmd'[c].seen = cmd[c].seen
          /\ cmd'[c].src = cmd[c].src /\ cmd'[c].dst = cmd[c].dst
      BY <3>1, <1>c
    <3>10. Locked(c)'
      BY <3>5, <3>9 DEF Locked
    <3>11. Landed(c)'
      <4>1. home'[cmd[c].src] = home[cmd[c].src]
        BY <3>2, <3>3, <1>0
      <4> QED
        BY <3>2, <3>8, <3>9, <4>1 DEF Landed, Sure
    <3> QED
      BY <3>9, <3>10, <3>11, <1>s DEF Sure, Staged, Packed
  <2> QED
    BY <2>1, <1>b
<1>12. CASE Rehash(c)
  <2>1. CASE ~ Fail(c, home)
    <3>1. Becomes(c, "carry", cmd[c].todo, cmd[c].seen)
      BY <1>12, <2>1, NextStop
    <3>2. /\ cmd[c].pc = "fill" /\ UNCHANGED home
          /\ \A f \in File \ cmd[c].seen : home[cmd[c].dst].files[f] = "good"
      BY <1>12, <2>1 DEF Rehash
    <3>3. \A f \in File : home[cmd[c].dst].files[f] = "good"
      BY <3>2 DEF Sure, Landed
    <3>4. home[cmd[c].dst].files \in [File -> Content]
      BY <3>2, <1>0 DEF Homes, Aimed
    <3>5. Whole(home[cmd[c].dst])
      BY <3>3, <3>4 DEF Whole, Payload
    <3> QED
      BY <3>1, <3>2, <3>5, <1>c, <1>s DEF Sure, Locked, Staged, Landed, Packed
  <2> QED
    BY <2>1, <1>b
<1>13. CASE Carry(c) \/ Bring(c)
  <2>1. PICK pc \in {"bring", "settle"} :
           /\ Becomes(c, pc, cmd[c].todo, cmd[c].seen) /\ (pc = "bring" => Carry(c))
    BY <1>13, NextStop
  <2>2. /\ cmd[c].pc \in {"carry", "bring"} /\ cmd[c].src \in Vault /\ cmd[c].dst \in Vault
        /\ cmd[c].src # cmd[c].dst
    BY <1>13, <1>0 DEF Carry, Bring, Aimed
  <2>3. home' = home \/ \E r : home' = [home EXCEPT ![cmd[c].dst].record = r]
    BY <1>13 DEF Carry, Bring
  <2>4. /\ home'[cmd[c].dst].files = home[cmd[c].dst].files
        /\ home'[cmd[c].dst].lock = home[cmd[c].dst].lock /\ home'[cmd[c].src] = home[cmd[c].src]
    BY <2>2, <2>3, <1>0 DEF Homes
  <2>5. pc = "bring" => cmd[c].pc = "carry"
    BY <2>1 DEF Carry
  <2> QED
    BY <2>1, <2>2, <2>4, <2>5, <1>c, <1>s DEF Sure, Locked, Staged, Landed, Packed, Whole
<1>14. CASE Settle(c)
  <2>1. CASE ~ Fail(c, home)
    <3>1. /\ cmd[c].pc = "settle" /\ After(c)
          /\ \E h : home' = [home EXCEPT ![cmd[c].dst] = h]
      BY <1>14, <2>1 DEF Settle
    <3>2. \E pc \in {"remove", "replica"} : Becomes(c, pc, cmd[c].todo, {})
      BY <3>1, NextStop
    <3>3. home'[cmd[c].src].lock = c
      BY <3>1, <1>0 DEF Aimed, Sure, Locked
    <3> QED
      BY <3>2, <3>3, <1>c, <1>s DEF Sure, Locked, Staged, Landed, Packed
  <2> QED
    BY <2>1, <1>b
<1>15. CASE Remove(c) \/ SweepEntry(c) \/ OpenCopy(c)
  <2>1. CASE Remove(c)
    <3>1. Becomes(c, "removing", Entries(home[cmd[c].src]), cmd[c].seen)
      BY <2>1, NextStop, <1>0
    <3> QED
      BY <3>1, <1>c, <1>s DEF Sure, Locked, Staged, Landed, Packed
  <2>2. CASE SweepEntry(c)
    <3>1. PICK todo : Becomes(c, cmd[c].pc, todo, cmd[c].seen)
      BY <2>2, NextStop, <1>0
    <3>2. cmd[c].pc \in {"removing", "clearing"} /\ UNCHANGED <<staging, tar>>
      BY <2>2 DEF SweepEntry
    <3> QED
      BY <3>1, <3>2, <1>c, <1>s DEF Sure, Locked, Staged, Landed, Packed
  <2>3. CASE OpenCopy(c) /\ ~ Fail(c, home)
    <3> DEFINE item == Min(cmd[c].todo)
    <3>1. /\ cmd[c].pc = "fill" /\ UNCHANGED <<cmd, staging>> /\ cmd[c].todo # {}
          /\ home' = [home EXCEPT ![cmd[c].dst].files[item] = "half"]
      BY <2>3 DEF OpenCopy
    <3>2. cmd[c].src \in Vault /\ cmd[c].dst \in Vault /\ cmd[c].src # cmd[c].dst /\ cmd[c].todo \subseteq File
      BY <3>1, <1>0 DEF Aimed
    <3>3. item \in cmd[c].todo /\ item \in File
      BY <3>1, <3>2, MinIsIn, ConstantFacts
    <3> HIDE DEF item
    <3>4. /\ home'[cmd[c].dst].files = [home[cmd[c].dst].files EXCEPT ![item] = "half"]
          /\ home'[cmd[c].dst].lock = home[cmd[c].dst].lock /\ home'[cmd[c].src] = home[cmd[c].src]
      BY <3>1, <3>2, <1>0 DEF Homes
    <3>5. home[cmd[c].dst].files \in [File -> Content] /\ home[cmd[c].dst].files[item] # "good"
      BY <3>1, <3>2, <3>3, <1>0 DEF Homes, Sure, Landed
    <3>6. /\ \A g \in cmd[c].todo : home'[cmd[c].dst].files[g] # "good"
          /\ \A g \in File \cap cmd[c].seen : home'[cmd[c].dst].files[g] = "good"
      BY <3>1, <3>2, <3>3, <3>4, <3>5 DEF Sure, Landed
    <3> QED
      BY <3>1, <3>4, <3>6, <1>s DEF Sure, Locked, Staged, Landed, Packed
  <2> QED
    BY <1>15, <2>1, <2>2, <2>3, <1>b
<1>16. CASE Unpack(c)
  <2>1. Becomes(c, "check", cmd[c].todo, cmd[c].seen)
    BY <1>16, NextStop
  <2>2. /\ cmd[c].pc = "unpack" /\ UNCHANGED tar
        /\ staging' = [staging EXCEPT ![Stage(c)] =
                   [files |-> tar, record |-> [NoRecord EXCEPT !.loc = "exported"], lock |-> Free]]
    BY <1>16 DEF Unpack
  <2>3. staging'[Stage(c)].files = tar
    BY <2>2, <1>0, StageTypes
  <2> QED
    BY <2>1, <2>2, <2>3, <1>c, <1>s DEF Sure, Locked, Staged, Landed, Packed, Whole
<1>17. CASE CheckUnpacked(c)
  <2>1. CASE ~ Fail(c, home)
    <3>1. Becomes(c, "clear", cmd[c].todo, cmd[c].seen)
      BY <1>17, <2>1, NextStop
    <3>2. /\ cmd[c].pc = "check" /\ UNCHANGED tar
          /\ Whole(staging[Stage(c)]) /\ Registered(staging[Stage(c)])
          /\ staging' = [staging EXCEPT ![Stage(c)].record.loc = cmd[c].dst]
      BY <1>17, <2>1 DEF CheckUnpacked
    <3>3. Stage(c) \in Stages /\ cmd[c].dst \in Vault
      BY <3>2, StageTypes
    <3>4. staging[Stage(c)] \in Homes
      BY <3>3, <1>0
    <3>5. /\ staging'[Stage(c)].files = staging[Stage(c)].files
          /\ staging'[Stage(c)].record.loc = cmd[c].dst
      BY <3>2, <3>3, <3>4, <1>0 DEF Homes, Records
    <3>6. NoRecord.loc = "none" /\ cmd[c].dst # "none"
      BY <3>3, ConstantFacts DEF NoRecord
    <3>7. Complete(staging'[Stage(c)], cmd[c].dst)
      BY <3>2, <3>5, <3>6 DEF Complete, Whole, Registered
    <3>8. tar = Payload
      BY <3>2 DEF Sure, Staged
    <3> QED
      BY <3>1, <3>2, <3>7, <3>8, <1>c, <1>s DEF Sure, Locked, Staged, Landed, Packed
  <2> QED
    BY <2>1, <1>b
<1>18. CASE Clear(c) \/ (Cleared(c) /\ ~ Fail(c, home))
  <2>1. cmd[c].pc \in {"clear", "clearing"} /\ UNCHANGED <<staging, tar>>
    BY <1>18 DEF Clear, Cleared
  <2>2. CASE Clear(c)
    <3>1. Becomes(c, "clearing", Entries(home[cmd[c].dst]), cmd[c].seen)
      BY <2>2, NextStop
    <3> QED
      BY <3>1, <2>1, <1>c, <1>s DEF Sure, Locked, Staged, Landed, Packed
  <2>3. CASE Cleared(c) /\ ~ Fail(c, home)
    <3>1. Becomes(c, "enter", cmd[c].todo, cmd[c].seen)
      BY <2>3, NextStop
    <3> QED
      BY <3>1, <2>1, <1>c, <1>s DEF Sure, Locked, Staged, Landed, Packed
  <2> QED
    BY <1>18, <2>2, <2>3
<1>19. CASE Enter(c)
  <2>1. CASE ~ Fail(c, home)
    <3>1. Becomes(c, "confirm", cmd[c].todo, cmd[c].seen)
      BY <1>19, <2>1, NextStop
    <3> QED
      BY <3>1, <1>c, <1>s DEF Sure, Locked, Staged, Landed, Packed
  <2> QED
    BY <2>1, <1>b
<1>20. CASE OpenTar(c)
  <2>1. Becomes(c, "pack", cmd[c].todo, cmd[c].seen)
    BY <1>20, NextStop
  <2>2. cmd[c].pc = "open" /\ tar' = Truncated
    BY <1>20 DEF OpenTar
  <2>3. \A f \in cmd[c].todo : Truncated[f] = "half"
    BY <2>2 DEF Aimed, Truncated
  <2> QED
    BY <2>1, <2>2, <2>3, <1>c, EmptyTypes, <1>s DEF Sure, Locked, Staged, Landed, Packed
<1>21. CASE Pack(c)
  <2>1. CASE cmd' # [cmd EXCEPT ![c] = Idle]
    <3> DEFINE item == Min(cmd[c].todo)
    <3>1. Becomes(c, "pack", cmd[c].todo \ {item}, cmd[c].seen)
      BY <1>21, <2>1, NextStop
    <3>2. /\ cmd[c].pc = "pack" /\ cmd[c].todo # {} /\ item \in Carries(home[cmd[c].src])
          /\ tar' = [tar EXCEPT ![item] = home[cmd[c].src].files[item]]
      BY <1>21, <2>1 DEF Pack
    <3>3. cmd[c].src \in Vault /\ cmd[c].todo \subseteq File
      BY <3>2 DEF Aimed
    <3>4. item \in cmd[c].todo /\ item \in File /\ item # 0
      BY <3>2, <3>3, MinIsIn, ConstantFacts
    <3>5. home[cmd[c].src].files[item] # "none"
      BY <3>2, <3>4 DEF Carries
    <3> HIDE DEF item
    <3>6. tar' # Nothing
      BY <3>2, <3>4, <3>5, <1>0 DEF Nothing
    <3>7. \A f \in cmd[c].todo \ {item} : tar'[f] = "half"
      BY <3>2, <3>3, <1>0 DEF Sure, Packed
    <3> QED
      BY <3>1, <3>6, <3>7, <1>c, <1>s DEF Sure, Locked, Staged, Landed, Packed
  <2> QED
    BY <2>1, <1>a
<1>22. CASE Begin(c)
  BY <1>22, BeginTypes, <1>s DEF Sure, Locked, Staged, Landed, Packed
<1>23. CASE Crash(c)
  BY <1>23, <1>a DEF Crash
<1>25. CASE Cleared(c)
  BY <1>18, <1>25, <1>b
<1>24. CASE Miscopied(c)
  <2> DEFINE f == Min(cmd[c].todo)
  <2>1. /\ cmd' = [cmd EXCEPT ![c].todo = @ \ {f}] /\ cmd[c].pc \in {"fill", "copy"}
        /\ cmd[c].todo # {}
    BY <1>24 DEF Miscopied
  <2>2. /\ cmd'[c].pc = cmd[c].pc /\ cmd'[c].src = cmd[c].src /\ cmd'[c].dst = cmd[c].dst
        /\ cmd'[c].seen = cmd[c].seen /\ cmd'[c].todo = cmd[c].todo \ {f}
    BY <2>1, <1>0 DEF Cmds
  <2>3. CASE cmd[c].pc = "copy"
    <3>1. UNCHANGED home
      BY <2>3, <1>24 DEF Miscopied
    <3> QED
      BY <2>2, <2>3, <3>1, <1>s DEF Sure, Locked, Staged, Landed, Packed
  <2>4. CASE cmd[c].pc = "fill"
    <3>1. cmd[c].src \in Vault /\ cmd[c].dst \in Vault /\ cmd[c].todo \subseteq File /\ cmd[c].src # cmd[c].dst
      BY <2>4 DEF Aimed
    <3>2. f \in cmd[c].todo /\ f \in File
      BY <2>1, <3>1, MinIsIn, ConstantFacts
    <3>3. home' = [home EXCEPT ![cmd[c].dst].files[f] = "bad"]
      BY <2>4, <1>24 DEF Miscopied
    <3> HIDE DEF f
    <3>4. /\ home'[cmd[c].dst].files = [home[cmd[c].dst].files EXCEPT ![f] = "bad"]
          /\ home'[cmd[c].dst].lock = home[cmd[c].dst].lock /\ home'[cmd[c].src] = home[cmd[c].src]
      BY <3>1, <3>3, <1>0 DEF Homes
    <3>5. home[cmd[c].dst].files \in [File -> Content] /\ home[cmd[c].dst].files[f] # "good"
      BY <2>4, <3>1, <3>2, <1>0 DEF Homes, Sure, Landed
    <3>6. /\ \A g \in cmd[c].todo \ {f} : home'[cmd[c].dst].files[g] # "good"
          /\ \A g \in File \cap cmd[c].seen : home'[cmd[c].dst].files[g] = "good"
      BY <2>4, <3>1, <3>4, <3>5 DEF Sure, Landed
    <3> QED
      BY <2>2, <2>4, <3>4, <3>6, <1>s DEF Sure, Locked, Staged, Landed, Packed
  <2> QED
    BY <2>1, <2>3, <2>4
<1> QED
  BY <1>1, <1>2, <1>3, <1>4, <1>5, <1>6, <1>7, <1>8, <1>9, <1>10, <1>11, <1>12, <1>13, <1>14, <1>15, <1>16,
     <1>17, <1>18, <1>19, <1>20, <1>21, <1>22, <1>23, <1>24, <1>25 DEF Work, Mishap

-----------------------------------------------------------------------------
(* What a step does to the homes. *)

\* Every home keeps its files, and its record or a record that names it.
Gentle(v) == /\ home'[v].files = home[v].files
             /\ Registered(home'[v]) <=> Registered(home[v])
             /\ home'[v].record.loc \in {home[v].record.loc, v}

\* A failing verb's homes are those it fails with, but for its locks.
LEMMA FailsWith ==
    ASSUME TypeOK, NEW c \in Cmd, NEW v \in Vault, NEW homes \in [Vault -> Homes], Fail(c, homes)
    PROVE  home'[v].files = homes[v].files /\ home'[v].record = homes[v].record
<1>1. home'[v] = Unlocked(homes[v], c) /\ homes[v] \in Homes
  BY DEF Fail
<1> QED
  BY <1>1, UnlockKeepsTheRest

\* Arrive and Settle stamp what they brought with the home it is in.
LEMMA ArrivalIsStamped ==
    ASSUME TypeOK, NEW c \in Cmd, Aimed(c), Arrive(c) \/ Settle(c), NEW v \in Vault
    PROVE  /\ Gentle(v)
           /\ cmd[c].dst = v /\ Registered(home'[v]) => home'[v].record.loc = v
<1> USE DEF Relocating, HoldsSrc, Copying, Landing
<1> DEFINE dst == cmd[c].dst
<1>0. home \in [Vault -> Homes] /\ home[v] \in Homes
  BY DEF TypeOK
<1>1. dst \in Vault /\ cmd[c].src \in Vault /\ home[dst] \in Homes
  BY <1>0 DEF Arrive, Settle, Aimed
<1>2. CASE Arrive(c)
  <2> DEFINE bare == [home EXCEPT ![dst].lock = Free]
             stamped == Stamped(bare[dst], "mv", dst, cmd[c].src)
             homes == IF Registered(home[dst]) THEN [bare EXCEPT ![dst] = stamped] ELSE bare
  <2>1. Fail(c, homes)
    BY <1>2 DEF Arrive
  <2>2. /\ bare \in [Vault -> Homes] /\ bare[v].files = home[v].files /\ bare[v].record = home[v].record
        /\ bare[dst] \in Homes /\ bare[dst].files = home[dst].files
    BY <1>0, <1>1 DEF Homes
  <2> HIDE DEF bare
  <2>3. /\ stamped \in Homes /\ stamped.files = home[dst].files /\ stamped.record.loc = dst
        /\ Registered(stamped)
    BY <1>1, <2>2, StampKeepsFiles
  <2> HIDE DEF stamped
  <2>4. homes \in [Vault -> Homes]
    BY <2>2, <2>3
  <2>5. home'[v].files = homes[v].files /\ home'[v].record = homes[v].record
    BY <2>1, <2>4, FailsWith
  <2>6. CASE Registered(home[dst]) /\ v = dst
    <3>1. homes[v] = stamped
      BY <1>1, <2>2, <2>6
    <3> QED
      BY <2>3, <2>5, <2>6, <3>1 DEF Gentle, Registered
  <2>7. CASE ~ (Registered(home[dst]) /\ v = dst)
    <3>1. homes[v] = bare[v]
      BY <1>1, <2>2, <2>7
    <3>2. home'[v].files = home[v].files /\ home'[v].record = home[v].record
      BY <2>2, <2>5, <3>1
    <3> QED
      BY <2>7, <3>2 DEF Gentle, Registered
  <2> QED
    BY <2>6, <2>7
<1>3. CASE Settle(c)
  <2>1. CASE ~ Registered(home[dst])
    <3>1. Fail(c, home)
      BY <1>3, <2>1 DEF Settle
    <3>2. home'[v].files = home[v].files /\ home'[v].record = home[v].record
      BY <3>1, <1>0, FailsWith
    <3> QED
      BY <2>1, <3>2 DEF Gentle, Registered
  <2>2. CASE Registered(home[dst])
    <3> DEFINE passed == [home[dst] EXCEPT !.record.verdict = "pass"]
               stamped == Stamped(passed, cmd[c].op, dst, cmd[c].src)
    <3>1. home' = [home EXCEPT ![dst] = Unlocked(stamped, c)]
      BY <1>3, <2>2 DEF Settle
    <3>2. passed \in Homes /\ passed.files = home[dst].files
      BY <1>1, FieldTypes
    <3> HIDE DEF passed
    <3>3. /\ stamped \in Homes /\ stamped.files = home[dst].files /\ stamped.record.loc = dst
          /\ Registered(stamped)
      BY <1>1, <3>2, StampKeepsFiles
    <3> HIDE DEF stamped
    <3>4. /\ Unlocked(stamped, c).files = home[dst].files /\ Unlocked(stamped, c).record.loc = dst
          /\ Registered(Unlocked(stamped, c))
      BY <3>3, UnlockKeepsTheRest DEF Registered
    <3>5. CASE v = dst
      <4>1. home'[v] = Unlocked(stamped, c)
        BY <1>1, <3>1, <3>5, <1>0
      <4> QED
        BY <2>2, <3>4, <3>5, <4>1 DEF Gentle
    <3>6. CASE v # dst
      <4>1. home'[v] = home[v]
        BY <1>1, <3>1, <3>6, <1>0
      <4> QED
        BY <3>6, <4>1 DEF Gentle
    <3> QED
      BY <3>5, <3>6
  <2> QED
    BY <2>1, <2>2
<1> QED
  BY <1>2, <1>3

\* The other steps that only lock, look, stamp or fail.
LEMMA GentleSteps ==
    ASSUME TypeOK, NEW c \in Cmd, Aimed(c), NEW v \in Vault,
           \/ Fail(c, home) \/ UNCHANGED home
           \/ LockSource(c) \/ LockDest(c) \/ Replicate(c) \/ Confirm(c) \/ Crash(c)
    PROVE  Gentle(v)
<1> USE DEF Relocating, HoldsSrc, Copying, Landing, Importing
<1>0. home \in [Vault -> Homes] /\ home[v] \in Homes
  BY DEF TypeOK
<1>a. ASSUME Fail(c, home) PROVE Gentle(v)
  BY <1>a, FailKeeps DEF Gentle, Registered
<1>b. ASSUME UNCHANGED home PROVE Gentle(v)
  BY <1>b DEF Gentle
<1>1. CASE LockSource(c) \/ LockDest(c)
  <2>1. CASE ~ Fail(c, home)
    <3>1. PICK w \in Vault : home' = [home EXCEPT ![w].lock = c]
      BY <1>1, <2>1 DEF LockSource, LockDest, Aimed
    <3>2. home'[v].files = home[v].files /\ home'[v].record = home[v].record
      BY <3>1, <1>0 DEF Homes
    <3> QED
      BY <3>2 DEF Gentle, Registered
  <2> QED
    BY <2>1, <1>a
<1>4. CASE Replicate(c)
  <2> DEFINE src == cmd[c].src
             stamped == Stamped(home[src], "cp", src, cmd[c].dst)
             homes == IF Registered(home[src]) THEN [home EXCEPT ![src] = stamped] ELSE home
  <2>1. src \in Vault /\ cmd[c].dst \in Vault /\ home[src] \in Homes
    BY <1>4, <1>0 DEF Replicate, Aimed
  <2>2. /\ stamped \in Homes /\ stamped.files = home[src].files /\ stamped.record.loc = src
        /\ Registered(stamped)
    BY <2>1, StampKeepsFiles
  <2>3. Fail(c, homes)
    BY <1>4 DEF Replicate
  <2> HIDE DEF stamped, src
  <2>4. homes \in [Vault -> Homes]
    BY <2>2, <1>0
  <2>5. home'[v].files = homes[v].files /\ home'[v].record = homes[v].record
    BY <2>3, <2>4, FailsWith
  <2>6. CASE Registered(home[src]) /\ v = src
    <3>1. homes[v] = stamped
      BY <2>1, <2>6, <1>0
    <3> QED
      BY <2>1, <2>2, <2>5, <2>6, <3>1 DEF Gentle, Registered
  <2>7. CASE ~ (Registered(home[src]) /\ v = src)
    <3>1. homes[v] = home[v]
      BY <2>1, <2>7, <1>0
    <3> QED
      BY <2>1, <2>5, <3>1 DEF Gentle, Registered
  <2> QED
    BY <2>6, <2>7
<1>5. CASE Confirm(c)
  <2> DEFINE w == cmd[c].dst
             verdict == IF Whole(home[w]) THEN "pass" ELSE "fail"
             h == [home[w] EXCEPT !.record.loc = w, !.record.verdict = verdict]
             homes == IF Registered(home[w]) THEN [home EXCEPT ![w] = h] ELSE home
  <2>1. w \in Vault
    BY <1>5 DEF Confirm, Aimed
  <2>2. h \in Homes /\ h.files = home[w].files /\ h.record.loc = w /\ h.record.verdict # "none"
    <3>1. home[w] \in Homes /\ verdict \in {"pass", "fail"}
      BY <2>1, <1>0
    <3> QED
      BY <2>1, <3>1 DEF Homes, Records
  <2>4. [home EXCEPT ![w].record.loc = w, ![w].record.verdict = verdict] = [home EXCEPT ![w] = h]
    BY <2>1, <1>0
  <2>5. Fail(c, homes)
    BY <1>5, <2>4 DEF Confirm
  <2> HIDE DEF h, w
  <2>3. Registered(h)
    <3>1. NoRecord.verdict = "none"
      BY DEF NoRecord
    <3> QED
      BY <2>2, <3>1 DEF Registered
  <2>6. homes \in [Vault -> Homes]
    BY <2>2, <1>0
  <2>7. home'[v].files = homes[v].files /\ home'[v].record = homes[v].record
    BY <2>5, <2>6, FailsWith
  <2>8. CASE Registered(home[w]) /\ v = w
    <3>1. homes[v] = h
      BY <2>1, <2>8, <1>0
    <3> QED
      BY <2>1, <2>2, <2>3, <2>7, <2>8, <3>1 DEF Gentle, Registered
  <2>9. CASE ~ (Registered(home[w]) /\ v = w)
    <3>1. homes[v] = home[v]
      BY <2>1, <2>9, <1>0
    <3> QED
      BY <2>1, <2>7, <3>1 DEF Gentle, Registered
  <2> QED
    BY <2>8, <2>9
<1>6. CASE Crash(c)
  <2>1. home'[v].files = home[v].files /\ home'[v].record = home[v].record
    BY <1>6, <1>0 DEF Crash, Homes
  <2> QED
    BY <2>1 DEF Gentle, Registered
<1> QED
  BY <1>a, <1>b, <1>1, <1>4, <1>5, <1>6

\* No home loses a good file, none its record,
GoodStays(v)   == \A f \in File : home[v].files[f] = "good" => home'[v].files[f] = "good"
RecordStays(v) == Registered(home[v]) => Registered(home'[v])
\* none gains a record but with the whole payload,
Comes(v) == ~ Registered(home[v]) /\ Registered(home'[v]) => Whole(home'[v])
\* and a record is one that was there, one that names its home, or about to be stamped.
Names(c, v) == Registered(home'[v]) =>
                 \/ Registered(home[v]) /\ home'[v].record.loc = home[v].record.loc
                 \/ home'[v].record.loc = v
                 \/ cmd'[c].pc \in {"arrived", "settle"} /\ cmd'[c].dst = v

\* A gentle step is such a step.
LEMMA GentleIsHarmless ==
    ASSUME NEW c, NEW v, Gentle(v) PROVE GoodStays(v) /\ RecordStays(v) /\ Comes(v) /\ Names(c, v)
BY DEF Gentle, GoodStays, RecordStays, Comes, Names

\* The directory whose entry c takes away now.
Takes(c, v) == SweepEntry(c) /\ Doomed(c) = v

\* Every step but a rename leaves what is good in a home and its record where they
\* are, unless it removes the home, or is about to bring another record there.
LEMMA HomeSteps ==
    ASSUME TypeOK, NEW c \in Cmd, Aimed(c), Sure(c), Work(c) \/ Begin(c) \/ Mishap(c), NEW v \in Vault
    PROVE  \/ Rename(c) /\ ~ Fail(c, home)
           \/ /\ GoodStays(v) \/ Takes(c, v)
              /\ RecordStays(v) \/ Takes(c, v) \/ (Carry(c) /\ cmd[c].dst = v)
              /\ Comes(v) /\ Names(c, v)
<1> USE DEF Relocating, HoldsSrc, HoldsDst, Copying, Landing, Stashing, Importing
<1> DEFINE Calm == GoodStays(v) /\ RecordStays(v) /\ Comes(v) /\ Names(c, v)
<1>0. home \in [Vault -> Homes] /\ staging \in [Stages -> Homes] /\ home[v] \in Homes
  BY DEF TypeOK
<1>a. ASSUME Gentle(v) PROVE Calm
  BY <1>a, GentleIsHarmless
<1>b. ASSUME home'[v] = home[v] PROVE Calm
  BY <1>b DEF GoodStays, RecordStays, Comes, Names
<1>1. CASE \/ LockSource(c) \/ LockDest(c) \/ Replicate(c) \/ Confirm(c) \/ Crash(c) \/ Fail(c, home)
           \/ Arrive(c) \/ Settle(c)
  BY <1>1, <1>a, GentleSteps, ArrivalIsStamped
<1>2. CASE \/ MakeStaging(c) \/ CopyNext(c) \/ Hash(c) \/ RecordStaged(c) \/ Look(c) \/ Rehash(c)
           \/ Unpack(c) \/ CheckUnpacked(c) \/ OpenTar(c) \/ Pack(c)
           \/ Remove(c) \/ Removed(c) \/ Clear(c) \/ Cleared(c) \/ Broken(c)
  <2>1. Fail(c, home) \/ UNCHANGED home
    BY <1>2 DEF MakeStaging, CopyNext, Hash, RecordStaged, Look, Rehash, Unpack, CheckUnpacked, OpenTar, Pack,
       Remove, Removed, Clear, Cleared, Broken
  <2> QED
    BY <2>1, <1>a, GentleSteps
<1>3. CASE Begin(c)
  BY <1>3, <1>b, BeginTypes
<1>4. CASE Place(c) \/ Enter(c)
  <2>1. CASE ~ Fail(c, home)
    <3>1. /\ cmd[c].pc \in {"place", "enter"} /\ ~ Occupied(home[cmd[c].dst])
          /\ home' = [home EXCEPT ![cmd[c].dst] = staging[Stage(c)]]
      BY <1>4, <2>1 DEF Place, Enter
    <3>2. Complete(staging[Stage(c)], cmd[c].dst) /\ cmd[c].dst \in Vault
      BY <3>1, StageTypes DEF Sure, Staged
    <3>3. CASE v = cmd[c].dst
      <4>1. home'[v] = staging[Stage(c)] /\ home[v] = Empty
        BY <3>1, <3>2, <3>3, <1>0 DEF Occupied
      <4>2. \A f \in File : home[v].files[f] # "good"
        BY <4>1, EmptyTypes DEF Nothing
      <4> QED
        BY <3>2, <3>3, <4>1, <4>2, EmptyTypes DEF GoodStays, RecordStays, Comes, Names, Complete
    <3>4. CASE v # cmd[c].dst
      BY <3>1, <3>4, <1>0, <1>b
    <3> QED
      BY <3>3, <3>4
  <2> QED
    BY <2>1, <1>1
<1>5. CASE Fill(c)
  <2>1. CASE ~ Fail(c, home)
    <3> DEFINE item == Min(cmd[c].todo)
               from == home[cmd[c].src]
               h == Copied(home[cmd[c].dst], from, item)
    <3>1. cmd[c].pc = "fill" /\ cmd[c].todo # {} /\ home' = [home EXCEPT ![cmd[c].dst] = h]
      BY <1>5, <2>1 DEF Fill
    <3>2. /\ cmd[c].src \in Vault /\ cmd[c].dst \in Vault /\ cmd[c].todo \subseteq File
      BY <3>1 DEF Aimed
    <3>3. item \in cmd[c].todo /\ item \in File /\ item # 0
      BY <3>1, <3>2, MinIsIn, ConstantFacts
    <3>4. CASE v = cmd[c].dst
      <4>1. home[v].files[item] # "good" /\ home[v].files \in [File -> Content]
        BY <3>1, <3>3, <3>4, <1>0 DEF Sure, Landed, Homes
      <4>2. /\ h.record = home[v].record
            /\ \A f \in File : h.files[f] = IF f = item THEN from.files[item] ELSE home[v].files[f]
        <5>1. from \in Homes /\ h = Copied(home[v], from, item)
          BY <3>2, <3>3, <3>4, <1>0
        <5> HIDE DEF from, item, h
        <5> QED
          BY <5>1, <3>3, <1>0, CopyFile
      <4>3. home'[v] = h
        BY <3>1, <3>2, <3>4, <1>0
      <4> HIDE DEF h, item
      <4>4. Registered(home'[v]) <=> Registered(home[v])
        BY <4>2, <4>3 DEF Registered
      <4>5. \A f \in File : home[v].files[f] = "good" => home'[v].files[f] = "good"
        BY <4>1, <4>2, <4>3
      <4> QED
        BY <4>2, <4>3, <4>4, <4>5 DEF GoodStays, RecordStays, Comes, Names
    <3>5. CASE v # cmd[c].dst
      BY <3>1, <3>5, <1>0, <1>b
    <3> QED
      BY <3>4, <3>5
  <2> QED
    BY <2>1, <1>1
<1>6. CASE Carry(c)
  <2>1. /\ cmd[c].pc = "carry" /\ cmd[c].dst \in Vault
        /\ home' = [home EXCEPT ![cmd[c].dst].record = NoRecord]
    BY <1>6 DEF Carry, Aimed, Sure, Landed
  <2>2. CASE v = cmd[c].dst
    <3>1. home'[v].files = home[v].files /\ home'[v].record = NoRecord
      BY <2>1, <2>2, <1>0 DEF Homes
    <3> QED
      BY <1>6, <2>2, <3>1 DEF GoodStays, Comes, Names, Registered
  <2>3. CASE v # cmd[c].dst
    BY <2>1, <2>3, <1>0, <1>b
  <2> QED
    BY <2>2, <2>3
<1>7. CASE Bring(c)
  <2>1. /\ cmd[c].pc = "bring" /\ cmd[c].src \in Vault /\ cmd[c].dst \in Vault
        /\ home' = [home EXCEPT ![cmd[c].dst].record = home[cmd[c].src].record]
        /\ Registered(home[cmd[c].src]) /\ Whole(home[cmd[c].dst])
    BY <1>7 DEF Bring, Aimed, Sure, Landed
  <2>2. CASE v = cmd[c].dst
    <3>1. home'[v].files = home[v].files /\ home'[v].record = home[cmd[c].src].record
      BY <2>1, <2>2, <1>0 DEF Homes
    <3>2. Registered(home'[v]) /\ Whole(home'[v])
      BY <2>1, <2>2, <3>1 DEF Registered, Whole
    <3>3. Becomes(c, "settle", cmd[c].todo, cmd[c].seen)
      BY <1>7, NextStop
    <3> QED
      BY <2>2, <3>1, <3>2, <3>3 DEF GoodStays, RecordStays, Comes, Names, Becomes
  <2>3. CASE v # cmd[c].dst
    BY <2>1, <2>3, <1>0, <1>b
  <2> QED
    BY <2>2, <2>3
<1>8. CASE SweepEntry(c)
  <2>1. PICK item \in cmd[c].todo : home' = [home EXCEPT ![Doomed(c)] = Without(@, item)]
    BY <1>8 DEF SweepEntry
  <2>2. item \in Items
    BY <2>1 DEF TypeOK, Cmds
  <2>3. CASE v = Doomed(c)
    <3>1. home'[v] = Without(home[v], item)
      BY <2>1, <2>3, <1>0
    <3>2. home'[v].record = home[v].record \/ home'[v].record = NoRecord
      BY <2>2, <3>1, <1>0, EntryGoes
    <3> QED
      BY <1>8, <2>3, <3>2 DEF Takes, Comes, Names, Registered
  <2>4. CASE v # Doomed(c)
    BY <2>1, <2>4, <1>0, <1>b
  <2> QED
    BY <2>3, <2>4
<1>9. CASE OpenCopy(c) \/ Miscopied(c)
  <2> DEFINE f == Min(cmd[c].todo)
  <2>1. CASE Fail(c, home) \/ UNCHANGED home
    BY <2>1, <1>a, GentleSteps
  <2>2. CASE ~ (Fail(c, home) \/ UNCHANGED home)
    <3>4. PICK x \in {"half", "bad"} :
             /\ cmd[c].pc = "fill" /\ cmd[c].todo # {}
             /\ home' = [home EXCEPT ![cmd[c].dst].files[f] = x]
      BY <2>2, <1>9 DEF OpenCopy, Miscopied
    <3>1. cmd[c].dst \in Vault /\ cmd[c].todo \subseteq File /\ cmd[c].todo # {}
      BY <3>4 DEF Aimed
    <3>2. f \in cmd[c].todo /\ f \in File
      BY <3>1, MinIsIn, ConstantFacts
    <3>3. home[cmd[c].dst].files[f] # "good"
      BY <3>4, <3>2 DEF Sure, Landed
    <3> DEFINE h == [home[cmd[c].dst] EXCEPT !.files[f] = x]
    <3>5. home' = [home EXCEPT ![cmd[c].dst] = h]
      BY <3>1, <3>4, <1>0
    <3> HIDE DEF f
    <3>6. h.files = [home[cmd[c].dst].files EXCEPT ![f] = x] /\ h.record = home[cmd[c].dst].record
      <4>1. x \in Content /\ home[cmd[c].dst] \in Homes
        BY <3>1, <1>0 DEF Content
      <4> QED
        BY <4>1, <3>2, FileTypes
    <3> HIDE DEF h
    <3>7. CASE v = cmd[c].dst
      <4>1. home'[v] = h /\ home[v].files \in [File -> Content]
        BY <3>1, <3>5, <3>7, <1>0 DEF Homes
      <4>2. \A g \in File : home[v].files[g] = "good" => home'[v].files[g] = "good"
        BY <3>3, <3>6, <3>7, <4>1
      <4>3. home'[v].record = home[v].record
        BY <3>6, <3>7, <4>1
      <4> QED
        BY <4>2, <4>3 DEF GoodStays, RecordStays, Comes, Names, Registered
    <3>8. CASE v # cmd[c].dst
      BY <3>5, <3>8, <1>0, <1>b
    <3> QED
      BY <3>7, <3>8
  <2> QED
    BY <2>1, <2>2
<1>10. CASE Rename(c)
  BY <1>10, <1>1
<1> QED
  BY <1>1, <1>2, <1>3, <1>4, <1>5, <1>6, <1>7, <1>8, <1>9, <1>10 DEF Work, Mishap

\* An mv begins to remove its source only at the step that leaves the whole, recorded
\* bundle at its destination, which nobody else held.
LEMMA RemovingBegins ==
    ASSUME TypeOK, NEW c \in Cmd, Aimed(c), Sure(c), Work(c) \/ Begin(c) \/ Mishap(c), Removes(c)'
    PROVE  /\ cmd'[c].src = cmd[c].src
           /\ \/ Removes(c)
              \/ /\ cmd[c].dst \in Vault /\ cmd[c].src # cmd[c].dst
                 /\ Registered(home'[cmd[c].dst]) /\ Whole(home'[cmd[c].dst])
                 /\ home[cmd[c].dst].lock = c \/ ~ Occupied(home[cmd[c].dst])
<1> USE DEF Relocating, HoldsSrc, HoldsDst, Copying, Landing, Stashing
<1>0. home \in [Vault -> Homes] /\ staging \in [Stages -> Homes]
  BY DEF TypeOK
<1>1. CASE cmd'[c].pc = "removing" /\ cmd'[c].todo # {}
  <2>1. /\ cmd'[c].src = cmd[c].src
        /\ \/ Remove(c)
           \/ SweepEntry(c) /\ Sweeping(c) /\ cmd[c].pc = "removing"
    BY <1>1, SweepingBegins
  <2> QED
    BY <2>1 DEF Remove, Removes, Sweeping
<1>2. CASE cmd'[c].pc = "remove"
  <2>a. \A todo, seen :
         /\ ~ Becomes(c, "arrived", todo, seen) /\ ~ Becomes(c, "look", todo, seen)
         /\ ~ Becomes(c, "fill", todo, seen) /\ ~ Becomes(c, "carry", todo, seen)
         /\ ~ Becomes(c, "bring", todo, seen) /\ ~ Becomes(c, "settle", todo, seen)
         /\ ~ Becomes(c, "removing", todo, seen) /\ ~ Becomes(c, "clearing", todo, seen)
    BY <1>2 DEF Becomes
  <2>b. \A todo, seen :
         /\ ~ Becomes(c, "confirm", todo, seen) /\ ~ Becomes(c, "copy", todo, seen)
         /\ ~ Becomes(c, "record", todo, seen) /\ ~ Becomes(c, "place", todo, seen)
         /\ ~ Becomes(c, "clear", todo, seen) /\ ~ Becomes(c, "enter", todo, seen)
         /\ ~ Becomes(c, "check", todo, seen) /\ ~ Becomes(c, "pack", todo, seen)
    BY <1>2 DEF Becomes
  <2>c. cmd' # [cmd EXCEPT ![c] = Idle] /\ ~ Fail(c, home) /\ \A homes : ~ Fail(c, homes)
    BY <1>2, EmptyTypes DEF Fail, TypeOK
  <2>1. ~ LockSource(c)
    <3>1. \A way \in Ways : ~ Becomes(c, way, cmd[c].todo, {})
      BY <1>2 DEF Becomes, Ways
    <3> QED
      BY <2>c, <3>1, NextStop
  <2>2. /\ ~ Rename(c) /\ ~ LockDest(c) /\ ~ Look(c) /\ ~ Fill(c) /\ ~ Rehash(c)
        /\ ~ Carry(c) /\ ~ Bring(c) /\ ~ Remove(c) /\ ~ Clear(c)
    BY <2>a, <2>c, NextStop
  <2>3. /\ ~ Enter(c) /\ ~ CopyNext(c) /\ ~ Hash(c) /\ ~ RecordStaged(c) /\ ~ CheckUnpacked(c)
        /\ ~ Cleared(c) /\ ~ MakeStaging(c) /\ ~ Unpack(c) /\ ~ OpenTar(c)
    BY <2>b, <2>c, NextStop
  <2>4. ~ Pack(c)
    BY <2>b, <2>c, NextStop
  <2>5. /\ ~ Arrive(c) /\ ~ Replicate(c) /\ ~ Confirm(c) /\ ~ Removed(c) /\ ~ Crash(c) /\ ~ Broken(c)
    BY <2>c DEF Arrive, Replicate, Confirm, Removed, Crash, Broken
  <2>6. ~ OpenCopy(c) /\ ~ Begin(c)
    <3>1. OpenCopy(c) => cmd[c].pc = "fill" /\ cmd' = cmd
      BY <2>c, NextStop DEF OpenCopy
    <3> QED
      BY <1>2, <3>1, BeginTypes
  <2>7. ~ Miscopied(c) /\ ~ SweepEntry(c)
    <3>1. \A t : cmd' = [cmd EXCEPT ![c].todo = t] => cmd[c].pc = "remove"
      BY <1>2 DEF TypeOK, Cmds
    <3> QED
      BY <3>1 DEF Miscopied, SweepEntry
  <2>8. CASE Place(c)
    <3>1. /\ cmd[c].pc = "place" /\ After(c) /\ ~ Occupied(home[cmd[c].dst])
          /\ home' = [home EXCEPT ![cmd[c].dst] = staging[Stage(c)]]
      BY <2>8, <2>c DEF Place
    <3>2. cmd[c].dst \in Vault /\ cmd[c].src # cmd[c].dst
      BY <3>1 DEF Aimed
    <3>3. Complete(home'[cmd[c].dst], cmd[c].dst)
      BY <3>1, <3>2, <1>0 DEF Sure, Staged
    <3>4. cmd'[c].src = cmd[c].src
      BY <3>1, NextStop DEF Becomes
    <3> QED
      BY <3>1, <3>2, <3>3, <3>4 DEF Complete
  <2>9. CASE Settle(c)
    <3>1. cmd[c].pc = "settle" /\ After(c) /\ Registered(home[cmd[c].dst])
      BY <2>9, <2>c DEF Settle
    <3>2. cmd[c].dst \in Vault /\ cmd[c].src # cmd[c].dst
      BY <3>1 DEF Aimed
    <3>3. ASSUME NEW v \in Vault, v = cmd[c].dst
          PROVE  home'[v].files = home[v].files /\ Registered(home'[v])
      <4>1. Gentle(v)
        BY <2>9, ArrivalIsStamped
      <4> QED
        BY <3>1, <3>3, <4>1 DEF Gentle
    <3>4. home'[cmd[c].dst].files = home[cmd[c].dst].files /\ Registered(home'[cmd[c].dst])
      BY <3>2, <3>3
    <3>5. Whole(home'[cmd[c].dst]) /\ home[cmd[c].dst].lock = c
      BY <3>1, <3>4 DEF Sure, Landed, Locked, Whole
    <3>6. cmd'[c].src = cmd[c].src
      BY <3>1, NextStop DEF Becomes
    <3> QED
      BY <3>2, <3>4, <3>5, <3>6
  <2> QED
    BY <2>1, <2>2, <2>3, <2>4, <2>5, <2>6, <2>7, <2>8, <2>9 DEF Work, Mishap
<1> QED
  BY <1>1, <1>2 DEF Removes

\* A whole home has every file good, and the other way round.
LEMMA WholeIsAllGood ==
    ASSUME NEW h \in Homes PROVE Whole(h) <=> \A f \in File : h.files[f] = "good"
BY DEF Whole, Payload, Homes

\* A rename takes a home as it is to where there was nothing.
LEMMA RenameMoves ==
    ASSUME TypeOK, NEW c \in Cmd, Aimed(c), Sure(c), Rename(c), ~ Fail(c, home)
    PROVE  /\ cmd[c].src \in Vault /\ cmd[c].dst \in Vault /\ cmd[c].src # cmd[c].dst
           /\ home[cmd[c].dst] = Empty /\ home'[cmd[c].dst] = home[cmd[c].src]
           /\ home'[cmd[c].src] = Empty /\ home[cmd[c].src].lock = c
           /\ \A v \in Vault \ {cmd[c].src, cmd[c].dst} : home'[v] = home[v]
           /\ cmd[c].pc = "rename" /\ cmd'[c].pc = "arrived" /\ cmd'[c].dst = cmd[c].dst
<1>1. /\ cmd[c].pc = "rename" /\ ~ Occupied(home[cmd[c].dst])
      /\ home' = [home EXCEPT ![cmd[c].dst] = home[cmd[c].src], ![cmd[c].src] = Empty]
  BY DEF Rename
<1>2. /\ cmd[c].src \in Vault /\ cmd[c].dst \in Vault /\ cmd[c].src # cmd[c].dst
      /\ home[cmd[c].src].lock = c
  BY <1>1 DEF Aimed, Sure, Locked, Relocating, HoldsSrc
<1>3. Becomes(c, "arrived", cmd[c].todo, cmd[c].seen)
  BY NextStop
<1> QED
  BY <1>1, <1>2, <1>3 DEF Occupied, TypeOK, Becomes

\* What no mv is removing keeps its good files where the export does not hold them
\* (import --force removes a home only then), and its record, but for one replaced.
LEMMA SparedIsKept ==
    ASSUME TypeOK, NEW c \in Cmd, Aimed(c), Sure(c), Work(c) \/ Begin(c) \/ Mishap(c),
           tar # Payload, ~ (Rename(c) /\ ~ Fail(c, home)), NEW v \in Vault, ~ Removing(c, v)
    PROVE  GoodStays(v) /\ (RecordStays(v) \/ (Carry(c) /\ cmd[c].dst = v))
<1>1. ~ Takes(c, v)
  <2> SUFFICES ASSUME Takes(c, v) PROVE FALSE
    OBVIOUS
  <2>1. cmd[c].pc \in {"removing", "clearing"} /\ cmd[c].todo # {} /\ Doomed(c) = v
    BY DEF Takes, SweepEntry
  <2>2. cmd[c].pc # "clearing"
    BY DEF Sure, Staged
  <2> QED
    BY <2>1, <2>2 DEF Doomed, Removing, Removes
<1> QED
  BY <1>1, HomeSteps

\* While sources are being removed, the copy that lasts is not touched, or
\* moves as a whole.
LEMMA SafeInductive ==
    ASSUME TypeOK, TypeOK', AllAimed, NEW c \in Cmd, Moves(c), Work(c) \/ Begin(c) \/ Mishap(c), ~ raced',
           Alone, \A e \in Cmd : Sure(e), Safe
    PROVE  Safe'
<1>0. Aimed(c) /\ Sure(c) /\ Swept(c) /\ \A d \in Cmd \ {c} : cmd'[d] = cmd[d]
  BY DEF AllAimed, Moves, Sure
<1>a. tar = Payload => tar' = Payload
  BY <1>0, TarIsKept DEF Sure
<1>c. ASSUME NEW d \in Cmd \ {c}, NEW v \in Vault, Removing(d, v)'
      PROVE  Removing(d, v) /\ Occupied(home[v]) /\ home[v].lock # c
  <2>1. Removing(d, v)
    BY <1>c, <1>0 DEF Removing, Removes
  <2>2. Keeps(d, v)
    BY <2>1 DEF Removing, Removes, Keeps, Sweeping, Doomed, Sure, Locked, HoldsSrc
  <2>3. Swept(d)
    BY DEF Sure
  <2> QED
    BY <2>1, <2>2, <2>3, <1>0, KeptApart
<1>1. CASE Removes(c)' /\ ~ Removes(c)
  <2>1. /\ cmd'[c].src = cmd[c].src
        /\ cmd[c].dst \in Vault /\ cmd[c].src # cmd[c].dst
        /\ Registered(home'[cmd[c].dst]) /\ Whole(home'[cmd[c].dst])
        /\ home[cmd[c].dst].lock = c \/ ~ Occupied(home[cmd[c].dst])
    BY <1>0, <1>1, RemovingBegins
  <2>2. ASSUME NEW d \in Cmd, NEW v \in Vault, v = cmd[c].dst PROVE ~ Removing(d, v)'
    <3>1. CASE d = c
      BY <2>1, <2>2, <3>1 DEF Removing
    <3>2. CASE d # c
      BY <2>1, <2>2, <3>2, <1>c
    <3> QED
      BY <3>1, <3>2
  <2>3. cmd[c].dst \in Spared'
    BY <2>1, <2>2 DEF Spared
  <2> QED
    BY <2>1, <2>3 DEF Safe
<1>2. CASE Removes(c)' => Removes(c)
  <2>1. Removes(c)' => cmd'[c].src = cmd[c].src
    BY <1>0, RemovingBegins
  <2>2. ASSUME NEW d \in Cmd, NEW v \in Vault, Removing(d, v)' PROVE Removing(d, v)
    <3>1. CASE d = c
      BY <1>2, <2>1, <2>2, <3>1 DEF Removing
    <3>2. CASE d # c
      BY <2>2, <3>2, <1>c
    <3> QED
      BY <3>1, <3>2
  <2>3. CASE tar = Payload
    BY <2>3, <1>a DEF Safe
  <2>4. CASE \A d \in Cmd : ~ Removes(d)
    <3>1. \A d \in Cmd : ~ Removes(d)'
      BY <2>4, <1>0, <1>2 DEF Removes
    <3> QED
      BY <3>1 DEF Safe
  <2>5. ASSUME tar # Payload, NEW v \in Spared, Whole(home[v]), NEW w \in Spared, Registered(home[w])
        PROVE  Safe'
    <3>0. /\ v \in Vault /\ w \in Vault /\ v \in Spared' /\ w \in Spared'
          /\ ~ Removing(c, v) /\ ~ Removing(c, w)
      BY <2>2 DEF Spared
    <3>1. CASE Rename(c) /\ ~ Fail(c, home)
      <4>1. /\ cmd[c].src \in Vault /\ cmd[c].dst \in Vault /\ home[cmd[c].dst] = Empty
            /\ home'[cmd[c].dst] = home[cmd[c].src] /\ cmd'[c].pc = "arrived"
            /\ \A u \in Vault \ {cmd[c].src, cmd[c].dst} : home'[u] = home[u]
        BY <3>1, <1>0, RenameMoves
      <4>2. ASSUME NEW u \in Vault, u = cmd[c].dst, NEW d \in Cmd PROVE ~ Removing(d, u)'
        <5>1. CASE d = c
          BY <4>1, <5>1 DEF Removing, Removes
        <5>2. CASE d # c
          BY <4>1, <4>2, <5>2, <1>c DEF Occupied
        <5> QED
          BY <5>1, <5>2
      <4>3. cmd[c].dst \in Spared'
        BY <4>1, <4>2 DEF Spared
      <4>4. ~ Whole(home[cmd[c].dst]) /\ ~ Registered(home[cmd[c].dst])
        BY <4>1, EmptyTypes DEF Whole
      <4>5. \E u \in Spared' : Whole(home'[u])
        <5>1. CASE v = cmd[c].src
          BY <2>5, <4>1, <4>3, <5>1
        <5>2. CASE v # cmd[c].src
          BY <2>5, <3>0, <4>1, <4>4, <5>2
        <5> QED
          BY <5>1, <5>2
      <4>6. \E u \in Spared' : Registered(home'[u])
        <5>1. CASE w = cmd[c].src
          BY <2>5, <4>1, <4>3, <5>1
        <5>2. CASE w # cmd[c].src
          BY <2>5, <3>0, <4>1, <4>4, <5>2
        <5> QED
          BY <5>1, <5>2
      <4> QED
        BY <4>5, <4>6 DEF Safe
    <3>2. CASE ~ (Rename(c) /\ ~ Fail(c, home))
      <4>1. \E u \in Spared' : Whole(home'[u])
        <5>1. home[v] \in Homes /\ home'[v] \in Homes
          BY <3>0 DEF TypeOK
        <5>2. GoodStays(v)
          BY <2>5, <3>0, <3>2, <1>0, SparedIsKept
        <5>3. Whole(home'[v])
          BY <2>5, <5>1, <5>2, WholeIsAllGood DEF GoodStays
        <5> QED
          BY <3>0, <5>3
      <4>2. \E u \in Spared' : Registered(home'[u])
        <5>1. CASE RecordStays(w)
          BY <2>5, <3>0, <5>1 DEF RecordStays
        <5>2. CASE ~ RecordStays(w)
          <6>1. Carry(c) /\ cmd[c].dst = w
            BY <2>5, <3>0, <3>2, <5>2, <1>0, SparedIsKept
          <6>2. /\ cmd[c].pc = "carry" /\ cmd[c].src \in Vault /\ cmd[c].src # w
                /\ Registered(home[cmd[c].src]) /\ home[cmd[c].src].lock = c
            BY <6>1, <1>0 DEF Carry, Aimed, Relocating, HoldsSrc, Landing, Sure, Landed, Locked
          <6>3. ~ Removes(c) /\ ~ Removes(c)'
            BY <6>2, <1>2 DEF Removes
          <6>4. ASSUME NEW u \in Vault, u = cmd[c].src
                PROVE  Registered(home'[u]) /\ \A d \in Cmd : ~ Removing(d, u)'
            <7>3. ~ Removing(c, u) /\ ~ (Carry(c) /\ cmd[c].dst = u)
              BY <6>1, <6>2, <6>3, <6>4 DEF Removing
            <7>1. RecordStays(u)
              BY <2>5, <3>2, <7>3, <1>0, SparedIsKept
            <7>2. \A d \in Cmd : ~ Removing(d, u)'
              BY <6>2, <6>3, <6>4, <1>c DEF Removing
            <7> QED
              BY <6>2, <6>4, <7>1, <7>2 DEF RecordStays
          <6> QED
            BY <6>2, <6>4 DEF Spared
        <5> QED
          BY <5>1, <5>2
      <4> QED
        BY <4>1, <4>2 DEF Safe
    <3> QED
      BY <3>1, <3>2
  <2> QED
    BY <2>3, <2>4, <2>5 DEF Safe
<1> QED
  BY <1>1, <1>2

\* A home stops being one that a verb left unstamped when a verb stamps it.
LEMMA LapsedIsStamped ==
    ASSUME TypeOK, NEW c \in Cmd, Aimed(c), Sure(c), Work(c) \/ Begin(c) \/ Mishap(c),
           NEW v \in lapsed, v \notin lapsed'
    PROVE  home'[v].record.loc = v \/ ~ Registered(home'[v])
<1>0. v \in Vault /\ home \in [Vault -> Homes]
  BY DEF TypeOK
<1>1. ~ Still /\ \A raise : ~ Races(raise)
  BY DEF Still, Races
<1>2. ~ Begin(c)
  BY DEF Begin, Relocate, Import, Export
<1>3. ~ Mishap(c)
  BY DEF Mishap, Crash, Broken, Miscopied, Lapses
<1>4. Arrive(c) \/ Settle(c) \/ ((Place(c) \/ Enter(c)) /\ Stamps(cmd[c].dst))
  <2>1. /\ ~ LockSource(c) /\ ~ Rename(c) /\ ~ MakeStaging(c) /\ ~ CopyNext(c) /\ ~ Hash(c)
        /\ ~ RecordStaged(c) /\ ~ LockDest(c) /\ ~ Look(c) /\ ~ OpenCopy(c) /\ ~ Fill(c)
    BY <1>1 DEF LockSource, Rename, MakeStaging, CopyNext, Hash, RecordStaged, LockDest, Look, OpenCopy, Fill
  <2>2. /\ ~ Rehash(c) /\ ~ Carry(c) /\ ~ Bring(c) /\ ~ Remove(c) /\ ~ SweepEntry(c) /\ ~ Removed(c)
        /\ ~ Replicate(c) /\ ~ Unpack(c) /\ ~ CheckUnpacked(c) /\ ~ Clear(c) /\ ~ Cleared(c)
        /\ ~ Confirm(c) /\ ~ OpenTar(c) /\ ~ Pack(c)
    BY <1>1 DEF Rehash, Carry, Bring, Remove, SweepEntry, Removed, Replicate, Unpack, CheckUnpacked, Clear,
       Cleared, Confirm, OpenTar, Pack
  <2>3. (Place(c) \/ Enter(c)) => Stamps(cmd[c].dst)
    BY <1>1 DEF Place, Enter
  <2> QED
    BY <1>2, <1>3, <2>1, <2>2, <2>3 DEF Work
<1>5. CASE Arrive(c) \/ Settle(c)
  <2>1. v = cmd[c].dst
    BY <1>1, <1>5 DEF Arrive, Settle, Stamps
  <2> QED
    BY <1>0, <1>5, <2>1, ArrivalIsStamped
<1>6. CASE (Place(c) \/ Enter(c)) /\ Stamps(cmd[c].dst)
  <2>1. v = cmd[c].dst
    BY <1>6 DEF Stamps
  <2>2. /\ cmd[c].pc \in {"place", "enter"}
        /\ (Fail(c, home) /\ Still) \/ home' = [home EXCEPT ![cmd[c].dst] = staging[Stage(c)]]
    BY <1>6 DEF Place, Enter
  <2>3. home' = [home EXCEPT ![cmd[c].dst] = staging[Stage(c)]]
    BY <1>1, <2>2
  <2>4. Complete(staging[Stage(c)], cmd[c].dst)
    BY <2>2 DEF Sure, Staged
  <2> QED
    BY <1>0, <2>1, <2>3, <2>4 DEF Complete
<1> QED
  BY <1>4, <1>5, <1>6

\* What left a foreign record in a home stamps it before it ends, or the home lapses.
LEMMA NamedInductive ==
    ASSUME TypeOK, AllAimed, NEW c \in Cmd, Moves(c), Work(c) \/ Begin(c) \/ Mishap(c), Sure(c), Named
    PROVE  Named'
<1>0. Aimed(c) /\ \A d \in Cmd \ {c} : cmd'[d] = cmd[d]
  BY DEF AllAimed, Moves
<1> SUFFICES ASSUME NEW v \in Vault, Registered(home'[v]), home'[v].record.loc # v, v \notin lapsed'
             PROVE  \E d \in Cmd : cmd'[d].pc \in {"arrived", "settle"} /\ cmd'[d].dst = v
  BY DEF Named
<1>a. v \notin lapsed
  BY <1>0, LapsedIsStamped
<1>1. CASE Rename(c) /\ ~ Fail(c, home)
  <2>1. v # cmd[c].src
    BY <1>0, <1>1, RenameMoves, EmptyTypes
  <2>2. CASE v = cmd[c].dst
    BY <1>0, <1>1, <2>2, RenameMoves
  <2>3. CASE v # cmd[c].dst
    <3>1. home'[v] = home[v] /\ cmd[c].pc = "rename"
      BY <1>0, <1>1, <2>1, <2>3, RenameMoves
    <3>2. PICK d \in Cmd : cmd[d].pc \in {"arrived", "settle"} /\ cmd[d].dst = v
      BY <3>1, <1>a DEF Named
    <3> QED
      BY <3>1, <3>2, <1>0
  <2> QED
    BY <2>2, <2>3
<1>2. CASE ~ (Rename(c) /\ ~ Fail(c, home))
  <2>1. Names(c, v)
    BY <1>0, <1>2, HomeSteps
  <2>2. CASE Registered(home[v]) /\ home'[v].record.loc = home[v].record.loc
    <3>1. PICK d \in Cmd : cmd[d].pc \in {"arrived", "settle"} /\ cmd[d].dst = v
      BY <2>2, <1>a DEF Named
    <3>2. CASE d # c
      BY <3>1, <3>2, <1>0
    <3>3. CASE d = c
      <4>1. ~ Begin(c)
        BY <3>1, <3>3, EmptyTypes DEF Begin, Relocate, Import, Export
      <4>2. ~ Miscopied(c)
        BY <3>1, <3>3 DEF Miscopied
      <4>4. ~ Crash(c) /\ ~ Broken(c)
        BY <3>1, <3>3 DEF Crash, Broken, Lapses
      <4>3. Arrive(c) \/ Settle(c)
        BY <3>1, <3>3, <4>1, <4>2, <4>4 DEF Mishap, Work, LockSource, Rename, MakeStaging, CopyNext, Hash,
           RecordStaged, Place, LockDest, Look, OpenCopy, Fill, Rehash, Carry, Bring, Remove, SweepEntry,
           Removed, Replicate, Unpack, CheckUnpacked, Clear, Cleared, Enter, Confirm, OpenTar, Pack
      <4> QED
        BY <3>1, <3>3, <4>3, <1>0, ArrivalIsStamped
    <3> QED
      BY <3>2, <3>3
  <2> QED
    BY <2>1, <2>2 DEF Names
<1> QED
  BY <1>1, <1>2

\* Rot that no verb had a hand in disturbs none of this.
LEMMA RotIsSeen ==
    ASSUME TypeOK, NEW v \in Vault, NEW f \in File, Rot(v, f), ~ raced'
    PROVE  /\ \A c \in Cmd : cmd[c] = Idle /\ cmd'[c] = Idle
           /\ \A w \in Vault : home'[w].record = home[w].record
           /\ rotten' # rotten /\ lapsed' = lapsed
<1>1. /\ home' = [home EXCEPT ![v].files[f] = "bad"] /\ UNCHANGED cmd
      /\ rotten' = rotten + 1 /\ UNCHANGED lapsed /\ \A c \in Cmd : cmd[c] = Idle
  BY DEF Rot
<1>2. \A w \in Vault : home'[w].record = home[w].record
  BY <1>1 DEF TypeOK, Homes
<1>3. rotten' # rotten
  BY <1>1 DEF TypeOK
<1> QED
  BY <1>1, <1>2, <1>3

\* The invariant holds at first,
LEMMA PlacesInit == Init => PlacesInv
<1> SUFFICES ASSUME Init PROVE PlacesInv
  OBVIOUS
<1>1. TypeOK /\ AllAimed
  BY TypeInit
<1>2. \A c \in Cmd : cmd[c].pc = "idle"
  BY EmptyTypes DEF Init
<1>3. (\A c \in Cmd : Sure(c)) /\ Alone /\ Safe
  BY <1>2 DEF Sure, Locked, Staged, Landed, Packed, Swept, Sweeping, Alone, Safe, Removes, HoldsSrc, HoldsDst,
     Copying, Landing, Stashing
<1>4. Named
  <2> SUFFICES ASSUME NEW v \in Vault, Registered(home[v]) PROVE home[v].record.loc = v
    BY DEF Named
  <2>1. PICK first \in First, second \in Vault,
             held \in {Nothing, Payload, [Nothing EXCEPT ![1] = "bad"]} :
        home = [w \in Vault |->
                  IF w = first \/ (w = second /\ held = Payload)
                  THEN [files |-> Payload, record |-> Record(w, "pass"), lock |-> Free]
                  ELSE IF w = second THEN [Empty EXCEPT !.files = held] ELSE Empty]
    BY DEF Init
  <2>2. ~ Registered([Empty EXCEPT !.files = held])
    BY DEF Registered, Empty
  <2>3. home[v] = [files |-> Payload, record |-> Record(v, "pass"), lock |-> Free]
    BY <2>1, <2>2, EmptyTypes
  <2>4. Record(v, "pass").loc = v
    BY DEF Record, NoRecord
  <2>5. home[v].record = Record(v, "pass")
    BY <2>3
  <2> QED
    BY <2>4, <2>5
<1> QED
  BY <1>1, <1>3, <1>4 DEF PlacesInv

\* and every step keeps it.
LEMMA PlacesInductive == PlacesInv /\ [Next]_vars => PlacesInv'
<1> SUFFICES ASSUME PlacesInv, [Next]_vars, ~ raced' PROVE PlacesInv'
  BY TypeInductive DEF PlacesInv
<1>0. /\ TypeOK /\ AllAimed /\ TypeOK' /\ AllAimed'
      /\ (\A c \in Cmd : Sure(c)) /\ Alone /\ Safe /\ Named
  <2>1. TypeOK /\ AllAimed
    BY DEF PlacesInv
  <2>2. TypeOK' /\ AllAimed'
    BY <2>1, TypeInductive
  <2>3. raced => raced'
    BY <2>1, GhostsGrow
  <2>4. (\A c \in Cmd : Sure(c)) /\ Alone /\ Safe /\ Named
    BY <2>3 DEF PlacesInv
  <2> QED
    BY <2>1, <2>2, <2>4
<1>1. ASSUME NEW c \in Cmd, Work(c) \/ Begin(c) \/ Mishap(c) PROVE PlacesInv'
  <2>1. Moves(c) /\ Aimed(c) /\ Sure(c)
    BY <1>0, <1>1, WorkTypes, BeginTypes, MishapTypes DEF AllAimed
  <2>2. ASSUME NEW d \in Cmd PROVE Sure(d)'
    BY <1>0, <1>1, <2>1, OwnStaysSure, OthersStaySure
  <2>3. Alone'
    BY <1>0, <1>1, <2>1, AloneInductive
  <2>4. Safe'
    BY <1>0, <1>1, <2>1, SafeInductive
  <2>5. Named'
    BY <1>0, <1>1, <2>1, NamedInductive
  <2> QED
    BY <1>0, <2>2, <2>3, <2>4, <2>5 DEF PlacesInv
<1>2. ASSUME NEW v \in Vault, NEW f \in File, Rot(v, f) PROVE PlacesInv'
  <2>1. /\ \A c \in Cmd : cmd[c].pc = "idle" /\ cmd'[c].pc = "idle"
        /\ \A w \in Vault : home'[w].record = home[w].record
        /\ lapsed' = lapsed
    BY <1>0, <1>2, RotIsSeen, EmptyTypes
  <2>2. (\A c \in Cmd : Sure(c)') /\ Alone' /\ Safe'
    BY <2>1 DEF Sure, Locked, Staged, Landed, Packed, Swept, Sweeping, Alone, Safe, Removes, HoldsSrc, HoldsDst,
       Copying, Landing, Stashing
  <2>3. Named'
    BY <1>0, <2>1 DEF Named, Registered
  <2> QED
    BY <1>0, <2>2, <2>3 DEF PlacesInv
<1>3. CASE UNCHANGED vars
  <2>1. \A c \in Cmd : Sure(c)'
    BY <1>0, <1>3 DEF vars, Sure, Locked, Staged, Landed, Packed, Swept, Sweeping, Doomed, Carries,
       Complete, Registered, Whole, Stage
  <2>2. Alone' /\ Named'
    BY <1>0, <1>3 DEF vars, Alone, Named, Sweeping, Doomed, Registered, Stage
  <2>3. Safe'
    BY <1>0, <1>3 DEF vars, Safe, Spared, Removing, Removes, Registered, Whole
  <2> QED
    BY <1>0, <2>1, <2>2, <2>3 DEF PlacesInv
<1> QED
  BY <1>1, <1>2, <1>3 DEF Next

-----------------------------------------------------------------------------
(* The results. *)

\* relocate.py and export.py: the types, and the invariant of the argument above.
THEOREM PlacesHold == Spec => []PlacesInv
BY PlacesInit, PlacesInductive, PTL DEF Spec

\* A record names the home it lies in (`location` in manifest.json), except while a
\* verb is about to stamp it, or where one ended just before, by an error or a crash.
THEOREM RecordsNameTheirHomes == Spec => []RecordNamesItsHome
<1>1. PlacesInv => RecordNamesItsHome
  BY EmptyTypes DEF PlacesInv, Named, RecordNamesItsHome
<1> QED
  BY <1>1, PlacesHold, PTL

\* A home that gains a record holds the whole payload (_copy_and_verify,
\* _land_onto, import_bundle), or is a home that was renamed.
THEOREM HomesArriveWhole == Spec => ArrivesWhole
<1> DEFINE A == \A v \in Vault :
        (~Registered(home[v]) /\ Registered(home'[v])) =>
          \/ Whole(home'[v])
          \/ \E w \in Vault : home'[v] = home[w] /\ home'[w] = Empty
          \/ raced
<1>1. PlacesInv /\ [Next]_vars => [A]_vars
  <2> SUFFICES ASSUME PlacesInv, [Next]_vars, ~ raced,
                      NEW v \in Vault, ~ Registered(home[v]), Registered(home'[v]), ~ Whole(home'[v])
               PROVE  \E w \in Vault : home'[v] = home[w] /\ home'[w] = Empty
    OBVIOUS
  <2>0. TypeOK /\ AllAimed /\ \A c \in Cmd : Sure(c)
    BY DEF PlacesInv
  <2>1. ASSUME NEW c \in Cmd, Work(c) \/ Begin(c) \/ Mishap(c)
        PROVE  \E w \in Vault : home'[v] = home[w] /\ home'[w] = Empty
    <3>1. Aimed(c) /\ Sure(c)
      BY <2>0 DEF AllAimed
    <3>2. CASE Rename(c) /\ ~ Fail(c, home)
      <4>1. v # cmd[c].src
        BY <2>0, <3>1, <3>2, RenameMoves, EmptyTypes
      <4>2. v = cmd[c].dst
        BY <2>0, <3>1, <3>2, <4>1, RenameMoves
      <4> QED
        BY <2>0, <3>1, <3>2, <4>2, RenameMoves
    <3>3. CASE ~ (Rename(c) /\ ~ Fail(c, home))
      BY <2>0, <2>1, <3>1, <3>3, HomeSteps DEF Comes
    <3> QED
      BY <3>2, <3>3
  <2>2. ASSUME NEW w \in Vault, NEW f \in File, Rot(w, f) PROVE FALSE
    <3>1. home' = [home EXCEPT ![w].files[f] = "bad"]
      BY <2>2 DEF Rot
    <3>2. home'[v].record = home[v].record
      BY <2>0, <3>1 DEF TypeOK, Homes
    <3> QED
      BY <3>2 DEF Registered
  <2>3. CASE UNCHANGED vars
    BY <2>3 DEF vars
  <2> QED
    BY <2>1, <2>2, <2>3 DEF Next
<1>2. Spec => [][A]_vars
  BY <1>1, PlacesHold, PTL DEF Spec
<1> QED
  BY <1>2 DEF ArrivesWhole

\* Without an export to fall back on, what no mv is removing is there after any step
\* of a verb, maybe in another vault.
LEMMA SparedLivesOn ==
    ASSUME TypeOK, NEW c \in Cmd, Aimed(c), Sure(c), Work(c) \/ Begin(c) \/ Mishap(c),
           tar # Payload, NEW v \in Vault, ~ Removing(c, v)
    PROVE  /\ \E w \in Vault : \A f \in File : home[v].files[f] = "good" => home'[w].files[f] = "good"
           /\ Registered(home[v]) => \E w \in Vault : Registered(home'[w])
<1>1. CASE Rename(c) /\ ~ Fail(c, home)
  <2>1. CASE v = cmd[c].src
    BY <1>1, <2>1, RenameMoves
  <2>2. CASE v = cmd[c].dst
    <3>1. home[v] = Empty
      BY <1>1, <2>2, RenameMoves
    <3>2. \A f \in File : home[v].files[f] # "good"
      BY <3>1, EmptyTypes DEF Nothing
    <3> QED
      BY <3>1, <3>2, EmptyTypes
  <2>3. CASE v # cmd[c].src /\ v # cmd[c].dst
    BY <1>1, <2>3, RenameMoves
  <2> QED
    BY <2>1, <2>2, <2>3
<1>2. CASE ~ (Rename(c) /\ ~ Fail(c, home))
  <2>1. GoodStays(v) /\ (RecordStays(v) \/ (Carry(c) /\ cmd[c].dst = v))
    BY <1>2, SparedIsKept
  <2>2. CASE Carry(c) /\ cmd[c].dst = v
    <3>1. /\ cmd[c].pc = "carry" /\ cmd[c].src \in Vault /\ cmd[c].src # v
          /\ Registered(home[cmd[c].src])
      BY <2>2 DEF Carry, Aimed, Relocating, HoldsSrc, Landing, Sure, Landed
    <3>2. ASSUME NEW w \in Vault, w = cmd[c].src PROVE Registered(home'[w])
      <4>1. ~ Removing(c, w)
        BY <3>1 DEF Removing, Removes
      <4>2. RecordStays(w)
        BY <1>2, <2>2, <3>1, <3>2, <4>1, SparedIsKept
      <4> QED
        BY <3>1, <3>2, <4>2 DEF RecordStays
    <3> QED
      BY <2>1, <3>1, <3>2 DEF GoodStays
  <2> QED
    BY <2>1, <2>2 DEF GoodStays, RecordStays
<1> QED
  BY <1>1, <1>2

\* No step of mv, cp, import and export, no crash, no error and no wrong copy takes
\* away the last whole home, the last record or the last good copy of a file.
THEOREM NothingIsLost == Spec => NothingLost
<1> DEFINE A == \/ rotten' # rotten \/ raced' \/ tar' = Payload
                \/ /\ (\E v \in Vault : Whole(home[v])) => \E v \in Vault : Whole(home'[v])
                   /\ (\E v \in Vault : Registered(home[v])) => \E v \in Vault : Registered(home'[v])
                   /\ \A f \in File : Backed(f) => Backed(f)'
<1>1. PlacesInv /\ [Next]_vars => [A]_vars
  <2> SUFFICES ASSUME PlacesInv, [Next]_vars, ~ raced', rotten' = rotten, tar' # Payload
               PROVE  A \/ UNCHANGED vars
    OBVIOUS
  <2>0. /\ TypeOK /\ AllAimed /\ TypeOK' /\ Alone /\ Safe /\ \A c \in Cmd : Sure(c)
    <3>1. TypeOK /\ AllAimed
      BY DEF PlacesInv
    <3>2. TypeOK'
      BY <3>1, TypeInductive
    <3>3. raced => raced'
      BY <3>1, GhostsGrow
    <3>4. Alone /\ Safe /\ \A c \in Cmd : Sure(c)
      BY <3>3 DEF PlacesInv
    <3> QED
      BY <3>1, <3>2, <3>4
  <2>a. \A v \in Vault : home[v] \in Homes /\ home'[v] \in Homes
    BY <2>0 DEF TypeOK
  <2>1. ASSUME NEW c \in Cmd, Work(c) \/ Begin(c) \/ Mishap(c) PROVE A
    <3>1. Aimed(c) /\ Sure(c)
      BY <2>0 DEF AllAimed
    <3>2. tar # Payload
      BY <2>0, <2>1, <3>1, TarIsKept DEF Sure
    <3>3. ASSUME NEW v \in Vault, ~ Removing(c, v)
          PROVE  /\ Registered(home[v]) => \E w \in Vault : Registered(home'[w])
                 /\ Whole(home[v]) => \E w \in Vault : Whole(home'[w])
                 /\ \A f \in File : home[v].files[f] = "good" => Backed(f)'
      <4>1. PICK w \in Vault : \A f \in File : home[v].files[f] = "good" => home'[w].files[f] = "good"
        BY <2>0, <2>1, <3>1, <3>2, <3>3, SparedLivesOn
      <4>2. Registered(home[v]) => \E u \in Vault : Registered(home'[u])
        BY <2>0, <2>1, <3>1, <3>2, <3>3, SparedLivesOn
      <4>3. Whole(home[v]) => Whole(home'[w])
        BY <4>1, <2>a, WholeIsAllGood
      <4> QED
        BY <4>1, <4>2, <4>3 DEF Backed
    <3>4. CASE Removes(c)
      <4>1. PICK v \in Spared, w \in Spared : Whole(home[v]) /\ Registered(home[w])
        BY <2>0, <3>2, <3>4 DEF Safe
      <4>2. v \in Vault /\ w \in Vault /\ ~ Removing(c, v) /\ ~ Removing(c, w)
        BY DEF Spared
      <4>3. \A f \in File : home[v].files[f] = "good"
        BY <4>1, <4>2, <2>a, WholeIsAllGood
      <4> QED
        BY <4>1, <4>2, <4>3, <3>3
    <3>5. CASE ~ Removes(c)
      <4>1. \A v \in Vault : ~ Removing(c, v)
        BY <3>5 DEF Removing
      <4>2. \A f \in File : Backed(f) => \E v \in Vault : home[v].files[f] = "good"
        BY <3>2 DEF Backed
      <4> QED
        BY <4>1, <4>2, <3>3
    <3> QED
      BY <3>4, <3>5
  <2>2. ASSUME NEW v \in Vault, NEW f \in File, Rot(v, f) PROVE A
    BY <2>0, <2>2, RotIsSeen
  <2> QED
    BY <2>1, <2>2 DEF Next
<1>2. Spec => [][A]_vars
  BY <1>1, PlacesHold, PTL DEF Spec
<1> QED
  BY <1>2 DEF NothingLost
=============================================================================
