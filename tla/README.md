# Specifications of darsay

TLA+ models of the parts of darsay that decide what is on disk: which bytes a
vault keeps, what its ledgers and manifests say of them, and who may delete
them. TLC checks every model on small instances; TLAPS proves every safety
property that TLC checks, invariants and action properties alike, for every
value of the constants.

Paths below are relative to `src/` (the repository). The package is
`src/darsay/`.

## 1. Inventory

| Part | Code | Its state | Its operations |
|---|---|---|---|
| Archive session | `archiver.py`, `transfer.py` | payload files, `transfer.json`, `manifest.json`; the ledger in memory | pin, resume, `--force`, dry run, reconcile, transfer, register |
| Transfer lock | `transfer.py` `transfer_lock` | `transfer.lock` | take, judge, reclaim, release |
| Assembly and hand-off | `transfer.py` `assemble_partials` … | ledgers and payloads of several vaults | copy, adopt, hand off, dissolve |
| Pipeline | `transfer.py` `_transfer_large_files`, `_FileJob` | queue, futures, banked stop, sticky disk stop | start, fetch, hash, settle, commit, stop |
| Stop controller, network counter, throttle | `transfer.py` | Ctrl-C count, deadline, disk stop, bytes received | check, bank, raise, sleep |
| Network link | `transfer.py` `Link` | offline since, waiting and retrying paths | lost, retrying, online |
| Doctor | `doctor.py` | `.doctor/runs/*/actions.jsonl`, quarantine, `doctor.lock` | diagnose, repair, undo, gc |
| Relocation | `relocate.py` | two bundle directories, staging, replica stamps | mv, cp, landing onto an existing bundle |
| Bundle record | `verify.py`, `hydrate.py`, `smoke.py` | `manifest.json`, `verification.json`, `hydration.json` | verify, smoke, hydrate, run, dehydrate |
| Environments | `hydrate.py` | `.runtime/envs/<key>`, `hydration.json` | hydrate, run, prune |
| Migration | `migrate.py`, `schema.py` | `manifest.json`, `manifest.v*.json` | migrate |
| Export, import | `export.py`, `standalone_verify.py` | tar files, staging directory | export, import, import --force |
| Catalogs | `catalog.py`, `collection.py` | `catalog.json` | upsert, drop, adopt, overlay, next |
| Board | `board.py` | claims on a server, one reporter thread | claim, report, release |
| Vault lookup | `vault.py`, `identity.py` | none of its own | find, resolve |
| Selection | `subset.py`, `weight_variants.py`, `collection_tui.py` | an include list while it is chosen | choose files of a pin |
| Classification | `classify.py` | facts read once per pin | read indexes, group, skip twins, verify the selection |
| Live panel | `progress.py` | the screen, the captured streams | start, paint, echo, capture, stop |
| Providers | `providers/*`, `sources.py` | partial downloads | pin, download |
| Description | `precision.py`, `metadata.py`, `lineage.py`, `references.py`, `estimate.py`, … | none | read headers and cards |
| Surfaces | `cli.py`, `config.py`, `readme_gen.py`, runners, … | configuration, terminal | dispatch, render |

How they interact. Everything that writes a bundle goes through its
`transfer.lock`, except verification, hydration, runs, import and `rm`, which
do without it. An archive session owns a bundle until it is registered:
`reconcile` compares the ledger with the payload, `transfer_all` runs workers
that never touch the ledger, the main thread commits one record after the
other, and `_register_bundle` seals them in a manifest. `assemble --handoff` and `mv`
write into one bundle and delete from another. Sibling bundles
are read as sources by an archive session, without their lock. The doctor takes
both its own lock and the bundles'. Environments belong to no bundle and are
guarded by nothing. `archive --next` reads a catalog's overlay or a board's rows
to choose what to archive, and a reporter thread tells the board how far it is.
The panel, the log lines and other code write to one terminal.

What is hard. A process may die between any two durable writes, and the next
run must make sense of whatever it finds. Bytes and records are written in
different files. Locks are judged, then reclaimed, in two steps. `assemble` acts
on ledgers it read hours earlier. In the pipeline a stop may come from five
sides at once, and futures finish in any order. `PROJECT.json` lists the hazards
with their lines, and the properties that stand against each.

What makes each part correct, in one line each:

- archive session: the ledger and the manifest never vouch for bytes other
  than those that were hashed; repeating the command converges;
- transfer lock: one holder, a live claim is never removed, no endless race;
- assembly: the last good copy of a file is never deleted;
- pipeline: every complete file gets its record, budgets and the floor hold,
  the loop ends;
- link: an outage ends by proof only, and a patience that runs out is real;
- doctor: undo restores exactly what a repair changed, whatever crashed between;
- relocation: one whole bundle at every moment, a stamp names where it is;
- record: no writer undoes another one's verdict; a recorded mismatch stays;
- environments: what is registered is whole; what is referenced is kept;
- import: a replaced bundle is replaced or kept, never lost;
- catalogs: no two entries share a key; what `archive --next` registers for a
  row is what the overlay then finds for it;
- board: two volunteers never fetch one row; nothing is reported for a claim
  that was given back;
- selection and classification: what is shown is what is kept, and what is left
  out by default is kept elsewhere in the same pin;
- panel: every text stays on the terminal, and the terminal is given back.


## 2. Modules

Four kinds of module. A component module has the state of one component as
VARIABLES, one action per operation and its own `Init`, `Next` and `Spec`. `Parts`
puts ten components side by side, with constants of its own for each. An `MC`
module gives constants for TLC. A `…Proofs` module holds theorems.

| Module | What it is | Composed in | Proofs in |
|---|---|---|---|
| `ArchivePromise` | what archiving promises of the durable record alone (abstract) | refined by `ArchiveSession` | `ArchiveSessionProofs` |
| `ArchiveSession` | the sessions that bring a bundle from nothing to registered | itself the root of its run | `ArchiveSessionProofs` |
| `TransferLock` | `transfer.lock`, file operation by file operation | `Parts`, `MCLiveness`, `MCTransferLock` | `TransferLockProofs` |
| `Pipeline` | `_transfer_large_files`: main thread, workers, stops | `MCLiveness` (one stream), `Parts` (two) | `PipelineProofs` |
| `Link` | what workers know about the network, and the retry loop | `Parts`, `MCLiveness` | `PartsProofs` |
| `Handoff` | `assemble` between vaults, with archive sessions beside it | `MCHandoff` | `HandoffProofs` |
| `Places` | `mv`, `cp`, `export`, `import` | `MCPlaces` | `PlacesProofs` |
| `Repairs` | `doctor`: scan, fix, journal, undo, recovery, gc | itself the root of its runs | `RepairsProofs` |
| `BundleRecord` | `manifest.json` and the two histories after registration | `Parts` | `PartsProofs` |
| `Environments` | `.runtime/envs`: hydrate, run, prune | `Parts` | `PartsProofs` |
| `Board` | claims of volunteers and their reporter threads | `Parts` | `PartsProofs` |
| `Catalog` | catalog edits, pricing, the overlay, `archive --next` | `Parts` | `CatalogProofs` |
| `WeightVariants` | the variants of a publication and what globs keep (operators) | `CollectionRoom` | `CatalogProofs` |
| `CollectionRoom` | the terminal room in which variants are chosen | `Parts` | `CatalogProofs` |
| `Classification` | the default selection of a fresh model pin | `Parts` | `PartsProofs` |
| `Panel` | the live panel and everybody else who writes to the terminal | `Parts` | `PartsProofs` |
| `Parts` | the ten components above that share no state, one per behaviour | `MCSafety` | `PartsProofs`, `CatalogProofs`, `TransferLockProofs` |

`Parts` and `MCLiveness` hold several components. Those components share no state
in the program either (a board does not see a hydration), so nothing is gained
from interleaving them: a behaviour belongs to one part, which is chosen by the
initial state, and the others' variables stand still. `Parts` extends `Pipeline` and
instantiates the others; its constants are theirs, and `PartsAssumption` is what
they assume of them. `MCSafety` and `Safety.cfg` give it a small instance;
`MCLiveness` does the same, by itself, for the three components that are checked
under fairness. The components that do interact are modelled together: assembles
with the archive sessions, locks and ledgers of the vaults they work on
(`Handoff`); the doctor with sessions, users and other doctors' journals
(`Repairs`); `mv`, `cp`, `export` and `import` with each other (`Places`); the
five commands that write a bundle's record (`BundleRecord`); hydrates, runs and
prunes over one directory of environments (`Environments`).

What a module leaves to another one: `ArchiveSession` assumes that one session runs
at a time, which is what `TransferLock` is about (and when it fails);
`Pipeline` takes a whole outage as one paused or failed fetch, which `Link`
takes apart; `Places` takes a lock in one step, and lets `rmtree` take it away
again, while what may go wrong between creating, judging and unlinking one is in
`TransferLock`; `Handoff` takes an archive session as the steps in which it changes
what an assemble reads, which `ArchiveSession` takes apart.

## 3. How the models correspond to the code

Each map entry in `PROJECT.json` names the lines a definition stands for. What
follows is how to read the state.

**ArchiveSession.** Durable: `payload` (what lies at each path: good bytes,
wrong bytes of the right size, a short file, nothing), `hasLedger`, `pin` and
`saved` (`transfer.json`), `registered` and `manifest`. In memory, lost by a
crash: `files` (the ledger), `rehash`, `todo` (what `reconcile` has not reached),
`job` (the `_FileJob` of each file), `halt`. A verified record is represented by
the bytes that were hashed for it, so "the ledger vouches for other bytes" can be
said. `Pin`, `Resume`, `DryRun` and `ForcePin` begin; `Unlink` is `--force`
taking the manifest away after the fresh ledger is saved; `Sweep` and the
`Reconcile…` actions are the two walks of `reconcile`, over what lies in the
payload and over the pin; `Reject` and `SaveLedger` are the two writes of a
demotion; `Start` … `Drop`
follow one file through sibling copy, network, hash, second fetch and commit;
`EndTransfer`, `FinishSession`, `Register`, `Decline` end the session. `Crash` may
come between any two of them, `Damage` and `LoseLedger` are the outside world,
`HandOff` is another vault's assemble. The sets `NoDigest`, `Unsized` and
`Sibling` say what is published about a file and who claims a copy.

**TransferLock.** The actors are process ids, not runs: an id is used for up to
`MaxRuns` runs, so a dead owner's id may be alive again. `open("x")` and the
write of the owner record are two steps, reading and judging are two, and the
unlink is by name. A lock that came along with a copied directory is `copied`.
The ghost `raced` says that two acquisitions have overlapped.

**Handoff.** Every vault has payload bytes, a ledger, a lock. `Launch` reads the
sources' ledgers and whether they are registered, before any lock;
`LockDest`, `Open`, `Merge` set up the destination; `BeginCopy`, `EndCopy`,
`Adopt` take a file over; `Release` takes the source's lock; `HandOff` unlinks
and `SaveSource` saves; `Settle` and `Dissolve` drain a source. Archive
sessions go on in vaults whose lock is free. `wet` are files that were written
and not flushed: a power loss cuts them. The ghost `stale` says that a source
changed between the load of its ledger and its release.

**Pipeline.** `queue`, `fetching`, `hashing`, `todo` and `cleanStop` are the main
thread's variables; `at` is where each file is; `pending` is the stop a worker
banked, `full` the sticky disk stop, `pressed` Ctrl-C, `late` the deadline. Space
and the byte budget are counted in chunks. The main thread waits for any
future, looks at what finished in any order, commits or goes around. A second
Ctrl-C is `Abort`; `Neighbour` is another program that takes disk space.

**Link.** `fetch` is each fetch's place in the retry loop of
`_fetch_with_reconnect` and what has become of its connection; `offline`,
`age` and `retrying` are the `Link` object. The network (`up`) drops and returns
on its own. `tried` and `late` are ghosts: whether an attempt has begun in
the outage, and whether one was entered as retrying just after it was over.

**Places.** A home is a directory of files with a record and a lock; a staging
directory is named after the verb and the destination only, as in the code. A
whole verb is a dozen steps: lock, refuse, rename or stage, copy file by file,
hash, stamp, place, record the replica. What lands on a home that holds something
replaces the files first (`OpenCopy`, `Fill`), then the record (`Carry` unlinks the
old one, `Bring` puts the source's there), then stamps it (`Settle`). A removal
(`Remove`, `Clear`) lists the entries and takes them in any order, `transfer.lock`
among them (`SweepEntry`). Any step may be the last one, by a crash (`Crash`,
which leaves the lock and the staging directory) or by an error (`Broken`, which
gives them back). The ghosts name the exceptions the properties make: `raced` says
that two verbs worked on one staging directory or home, that a verb locked a home
whose own `mv` had removed the lock and not yet the rest, or that a file rotted
under a verb; `lapsed` are the homes in which a verb ended between bringing a
record and stamping it, until the next stamp.

**Repairs.** A file is the class its bytes are in (absent, stale, edited, fresh;
dead, live, orphaned lock). A run is its journal: a sequence of actions with the
bytes before, after and an outcome. `Fix` scans and preflights, then the doctor
takes the bundles' locks, checks again, prepares, renames, journals, verifies;
failing, it rolls back. `Undo` plays a journal backwards, or recovers one that was
interrupted. `plans` are the changes still to come, each with its `turn`. A
bundle's lock is taken call by call: in a recovery `Look` judges what lies there
and `Unlink` removes it by name, `Create` makes the file, `Own` writes the owner
into the file it made, `OwnFails` removes it by name. An archive does the same
(`SessionJudges`, `SessionReclaims`, `SessionMakes`, `SessionOwns`); `blank` says
whose file lies under the name without an owner yet, and everybody takes such a
file for a stale lock. The ghost `raced` says that somebody else came under a name
between the doctor's last look and what it did there, or that it put a lock aside
whose archive had not signed it yet; no code could see either.

**BundleRecord.** A record has a schema, the integrity verdict and three sections
that hold the number of the command that wrote them. `Start` reads the record and
`WorkEnds` is minutes of hashing or probing. Verify and run then read the record
again (`Reread`); smoke, hydrate and migrate keep the one of their start. The write
(`WriteBack`) is a step of its own for all five, so whatever another command
recorded between the last reading and the write is undone by it. The ghost `stale`
holds the sections to which that happened, and no others: a section is in it only
if the command wrote it back unlike it stood, and leaves it when it is written
anew. `seen` is what the record really was at the last reading.

**Environments.** `env[key]` has a body, a marker (`env.json`) and the process
that began it; building and removing go entry by entry. `hydration[b]` is the key
a bundle's `hydration.json` names.

**Board, Catalog, CollectionRoom, Classification, Panel.** `Board`: the server's
status and claim per row, each process's place in `archive`, and the one report its
reporter thread may have in flight, which can arrive late or not at all. A command
reports a pause or a registration, and hands a row back at a SystemExit; any other
error ends it with nothing reported (`Leave`, `cli.py:2988`), and the claim is
marked `left`.
`Catalog`: entries in order, the bundles of the vault, the upstream commit, and
pricing as a read followed minutes later by a write; an `archive SOURCE` without
a stated scope resumes the selectors of the pin it finds (`resume_scope`), which
`--next` does not. `CollectionRoom`: the include
list, cursor, scroll offset, page and window height, one action per key, and the
redraw at another height that an unbound key or a resize is (`Redraw`).
`Classification`: which indexes could be read, the digests published, and the
selection that follows; names are records of stem, shard and directory, and
`odd` marks a name with a bracket, which a pattern does not match literally.
`Panel`: the screen as a sequence of texts and the panel, the painter thread,
two echoing threads and a captured writer.

## 4. Runs

Twelve runs. "Rests" means that the deadlock check is off because the system really
stops there (everything registered, all commands used up).

| Run | Instance | Question and answer |
|---|---|---|
| `archive_session` | 2 files (one without digest and size, one with a sibling copy), 4 faults; fair; rests | The ledger and the manifest vouch only for hashed bytes, a hand-off is kept, sessions end and converge, and all of it implements `ArchivePromise` |
| `handoff` | 2 vaults, 2 files, assembles both ways, 1 fault; rests | The last good copy of a file is never deleted, unless a source changed after its ledger was read |
| `handoff_live` | 2 vaults, 1 file, 1 power loss; fair; rests | Crossed assembles end; nothing is released on the strength of a copy a power loss cut |
| `repairs` | 2 bundles, `README.md` and `transfer.lock`, 3 runs, 2 faults; rests | Interrupted repairs are recognised, undo is all or nothing, live locks and later edits stand |
| `places` | 3 vaults, two of them on one filesystem, 2 files, 2 processes, 3 verbs, 1 fault; rests | A whole copy and a record always remain, an arriving home is whole, a record names its home unless a verb ended just before it stamped it |
| `liveness` | pipeline: 1 stream, 4 files; lock: 3 ids on 2 machines, 2 runs each; link: 2 files, patience 2, 3 faults; fair; rests | The pipeline, attempts at the lock and fetches end; complete means all |
| `safety` | the ten parts of `Parts`, with the constants of `MCSafety` and `Safety.cfg`; rests | See the comment at each property |
| `transfer_lock_mutex` | 3 ids, one run each | *Violated*: a lock that was just created has no owner, is judged stale and unlinked by name, and two runs hold a bundle at once |
| `handoff_frozen` | as `handoff`, without faults | *Violated*: a registered payload is deleted by a hand-off |
| `repairs_recovery` | 1 bundle, 4 runs | *Violated*: a repair and the undo of it, both interrupted, lock each other out |
| `upstream_mismatch` | 2 processes, 3 commands, 1 fault | *Violated*: a recorded mismatch becomes "verified" after a verify that fails and one that passes |
| `panel_torn` | 2 texts | *Violated*: a line is lost when the panel stops |

Why these bounds. Two files are the smallest set in which one file's verdict
can be lost with another one's saved; the two differ in what is published about
them, so every branch of the walk is taken. Two vaults with assembles both
ways reach the crossed locks and the mutual hand-off; `places` needs three, so
that a move and a copy can meet in a home neither came from, and two
filesystems for both methods. Three process ids give a reclaimer, a victim and
a bystander, two runs each give a reused id, and two machines a foreign lock. Four
faults let a session crash, be damaged, crash again and be re-pinned. Four
pipeline files of which two have two chunks let the byte budget of three chunks and
the room of four run out in the middle of a file, with another one waiting for
its digest. Three doctor runs are a repair, its undo and a recovery. Every
property of a passing run is broken by a plausible bug in the code (the mutants
in `PROJECT.json`), within the run's own bounds, so none holds for want of room.
`places` looks only at states before two verbs raced (`Unraced`) and treats its
two processes alike (`SYMMETRY`; no property of it is about liveness); while an
export of the whole payload exists, when nothing can be lost, its third verb has
nobody at work beside it (`LastWaits`). `repairs`
lets archives come to the last bundle (`LastArchived`: the doctor may hold the lock
of the first one by then; how archives of one bundle meet is `TransferLock`'s
question), starts with two READMEs that are not in the same state (`Unlike`), and
follows a command that raced to its end and no further (`RacedToTheEnd`).

Fairness. Faults, commands and the user are never fair. `ArchiveSession`: the
command is repeated (`Launch`), and a session goes on once it runs. `TransferLock`:
the operating system runs every process, but none need start or leave. `Handoff`:
each assemble's own steps, not its launch and not the archive sessions beside it. `Pipeline`: the
main thread and each worker. `Link`: threads run, intervals pass, a request to a
host out of reach times out, and an open stream completes; that the network ever
returns is not assumed, so `FetchesEnd` rests on the patience alone.

## 5. Proofs

The proofs hold for every value of the constants, from the named assumptions of the
modules; TLC evaluates the same assumptions on every instance. Of the forty
properties the passing runs check, thirty-four are proved, all but the six about
liveness. Each proof
has the same shape: an inductive invariant (the large ones were checked by TLC
first, on an instance of their own), one lemma per action that the action keeps it, a lemma that
puts them together for `Next`, and theorems that the invariant implies. The
invariant is written down, part by part and with what each part says, at the head
of its module. An action property follows from the invariant before the step.

**`ArchiveSessionProofs`** (from `ArchiveAssumption`). `LedgerHonest` is not
inductive: what the ledger on disk says is decided earlier, in memory, by a
job. `IInv` adds what the argument needs: a job's shape says where its bytes come
from and that what it hashed lies at the path (`JobShape`); memory and disk differ
by at most one file, and only between a discard and its save (`MemorySaved`,
`OneBehind`); memory is honest too (`MemoryHonest`); it knows of every hand-off
(`HandOffsKnown`); what the walk has passed was there (`WalkedIsThere`). From it:
`LedgerIsHonest`, `ManifestIsHonest`, `OnlyMissingIsFetched`,
`RegisteredIsFrozen`, `MismatchTakesTwoFetches`, `HandOffIsKept`,
`RegistrationSees`, and `PromiseIsKept`, the refinement: every step of a session is a
step of `ArchivePromise` on the durable record or a stutter (lemmas
`RecordingLearns`, `SavingLearns`).

**`TransferLockProofs`** (from `LockAssumption`, by way of `PartsAssumption`). `LockInv`: until two acquisitions
overlap there is one acquirer at most, what it wrote or judged is what lies
there, and it never unlinks under a holder. From it `HolderIsAlwaysNamed` and
`LockIsExclusive`. `JudgedHere` adds that what an acquirer is about to unlink
names no owner of another machine; from it `ForeignLockIsKept`.

**The parts side by side.** The properties that the `safety` run checks of a part are
those of `Parts`. For each part there is a lemma (`LockAlone`, `LinkAlone`, `RecordAlone`,
…) that a behaviour of `PartsSpec` is a behaviour of that part alone, or one in which
nothing of the part moves; with it the theorem about the component gives the one
about `Parts` (`PartsHoldApart`, `PartsKeepRecords`, `VolunteersKeepApart`, …). So
what is proved of any constants is, by name, what TLC checks of some. Of the
pipeline, which `Parts` and `MCLiveness` extend, the properties are `Pipeline`'s own.

**`HandoffProofs`** (from `HandoffAssumption`: every assemble has a destination and
some sources). What an assemble has locked nobody else writes
(`LockedIsUntouched`), so what it remembers of its destination is true from its
last reconcile on (`JobInv`). What it remembers of a source it read before any
lock, and that is true if the source did not change until its release (`FromLoad`; the
ghost `stale` says that one did). Both together keep a good and recorded copy
of every file that some ledger, on disk or in memory, calls handed off
(`HandedOffIsKept`), whichever assembles cross each other and whichever archive
sessions go on beside them. `HandedOffIsSomewhere` alone is not inductive: the copy
that vouches for a file may itself be handed on, by a job that decides from
memory. From it `HandedOffStaysSomewhere`, `LastCopyIsNeverDeleted`,
`DissolvedIsSafe` and `ReleasedFilesAreWhole`.

**`PlacesProofs`** (from `PlacesAssumption`: the names of nowhere and nobody are no
vault's and no process's). A verb keeps others from what it locked (`Locked`) and
from its staging directory (`Alone`), so what it verified still lies there when
it is renamed into place, or when the source is removed (`Staged`, `Landed`,
`Packed`). What it removes is still its own when the lock has gone with the first
entries: nobody has locked it since, or `raced` says so (`Swept`). While any `mv`
removes a source, a whole copy and a record stand in homes that no `mv` is removing
(`Safe`, over the homes `Spared`): this is what two concurrent moves could break and
one move could not. A record that names another home is about to be stamped, or its
home has `lapsed` (`Named`). All but the types hold until `raced`. From it
`RecordsNameTheirHomes`, `HomesArriveWhole` and `NothingIsLost`.

**`RepairsProofs`** (from `RepairsAssumption`: the files a fixer may touch). At the
commit a file is as journaled and at the verification as written, unless others
changed it in between (`Window`); only one action of a run is ever open
(`Quiet`), and it has happened or has not (`Known`); a run changes a file once,
and nothing else in a bundle whose dead lock it removes (`Shape`). For undoing,
what must be remembered is where each file is bound for: until a repair ends, what
no action has touched is as at the start, and what one has touched was
(`Forward`); in a rollback every file is as at the start, or a plan or the action under
way brings it there and none takes it elsewhere (`Backward`); in an undo the same
towards what the undone run found (`Undoing`). From it `LocksOfArchivesStay`,
`RepairsAllOrNothing`, `InterruptionsAreKnown` and `EditsStand`.

**`PipelineProofs`** (from `PipelineAssumption`: finitely many files, each once in
the order, none empty, at least one stream). A file stands in a line once, and
exactly if its place says so (`Lines`, with three lemmas on sequences without
repetition); where it can be while its fetch or its digest has not been collected
(`Collected`); an interrupt goes back to Ctrl-C (`Interrupted`); what was given up
has made the main thread stop, and complete bytes are given up at a Ctrl-C only
(`GivenUp`); the loop is left by an exception or with everything collected
(`Left`, which needs that a free stream and an empty set of futures leave nothing
but an empty queue or a stop to wait for). From it `CompleteCommitsAll` and
`CompleteFilesGetRecords`. `FloorHolds` adds `Floor`: the chunks that have landed
and those that are granted, summed over the files, fit above the floor. Its sums
are the library's recursive ones; that they may be taken in any order, and grow
with their members, is proved by induction over finite sets (`FiniteUp`, stated
of a set of sets and not of an operator, from the least counterexample). It
holds where no sibling bundle claims a copy (`NoSiblings`), for the reason in
section 6.

**`PartsProofs`**, six components.

- `RecordsAlwaysSurvive` (`BundleRecord`, from nothing), for any number of
  processes and commands. Each section of the record agrees with what finished
  commands wrote there until a command that read it before a change writes it back
  after; with `HoldsCurrent` a command writes what it read last, so that it undoes
  what has changed since and nothing else, and one that is not a migration has read
  a record that was current already, so the schema never goes back.
- `OutageEndsByTrial` (`Link`, from nothing): `Link.online` ends an outage
  only if a path is entered as retrying, and one is entered only by an attempt that
  began in this outage, or by one that came too late for the last.
- `PruneIsKind` (`Environments`, from nothing), for any bundles, vaults, processes
  and commands: no name on the list of a prune is named by a bundle of its vault
  (`ListedUnnamed`), because only a hydration could name it, and that is what the
  exception says.
- `ProbesFindWhole` (`Environments`, from nothing). An environment that has its
  marker is whole, or somebody is removing it (`MarkersHold`); who builds in a
  directory is the one that began it (`BuildersOwn`). Both hold until an env is
  removed under the command that builds it (`swept`), or a crash cuts a removal
  short (`halfClear`), which are the exceptions the property makes. A command that
  goes on to its probe has just seen the marker or has built all of it itself.
- `NothingUniqueIsSkipped` (`Classification`, from `ClassificationAssumption`:
  finitely many files, each at a place, indexes that list weights), for any
  repository and any failures. The sets are disjoint, whichever indexes were
  read; among the sets with the contents of a skipped one the nearest to the root is
  no one's farther twin, so all of it is fetched, and equal contents mean that every
  digest of the skipped set occurs in it. That globs are verified before they bind
  is what makes the selection the fetched files, whatever the names are.
- `BoardsHold` (`Board`, from `BoardAssumption`: rows are numbered, and the name of
  nobody is no machine's), for any rows, machines and commands. A command that is at
  a row has its machine's claim on it, unless the row was shaken (a lost or slow call,
  a crash, an expired claim) or handed back by another command of the machine, or
  that one has registered the bundle, which the lock will see (`Held`); one that ends
  by an error leaves its claim behind, marked `left`. Two
  machines cannot both have the claim, and one machine has one command in a
  transfer (`OneInTransfer`). A report in flight belongs to the transfer it is
  about (`ReportsJoined`), so none renews a claim that was given up.
- `TerminalIsGivenBack` (`Panel`, from nothing), for any number of texts. The panel
  is the last thing on the screen while it is up and nowhere else (`Upright`);
  it is down while a thread logs, and the count of those is exact (`Counted`); what
  the main thread has undone by the time it gets to a place of `stop` is in
  `Gates`. `Upright` ends with a painter that outlived the join (`late`).
- `TextsStand` (`Panel`, from nothing). Whatever the painter, the threads and the
  stop do, each text that is on the terminal stays at its place, and what is taken
  off the screen is the panel at its end and nothing else (`Upright` again), until
  something is written under the panel of a display that stops (`late`).

**`CatalogProofs`**, the catalog and the collection room.

- `CatalogsHold` (`Catalog`, from `CatalogAssumption`: sources resolve to sources, and
  commands ask for revisions there are), for any sources, scopes, orders and
  answers of the network. The edits are taken one by one; `adopt` and `estimate` are
  folds, whose accumulator stays a catalog without two entries of one key
  (`FoldStays`, by induction on the number of entries, `NatUp`, again stated of
  a set and not of an operator). `Serves` is the case analysis of `archive --next`: what a run for
  an unfinished row pins, whether resumed, found in place or new, matches the row
  once it is done.
- `RoomIsTrue` (`CollectionRoom` and `WeightVariants`, from `RoomAssumption`: one row
  for each group of weights, variants before companions, in the order of their
  names), for any publication, windows and keys. `RoomInv`: whatever the height, each
  drawing scrolls the list to the row of the cursor (`ScrollShows`), and an include
  list the user has made is the whole publication or the globs of some groups
  (`Gathered`). The globs of a group reach its own weights and no others
  (`IncludeNamesItems`), because a shard pattern is used only where it was seen to match
  exactly them; so a row is marked if and only if all it holds is kept
  (`GatheredIsMarked`). The automatic choice needs that the least of several variants
  exists, whatever sizes they share (`SmallestIsOption`).

What the attempt to prove showed: `NextServesItsRow` once excused a tag or a branch
by what upstream calls main *now*, which a push after the registration makes
false; the property now remembers the bundle that was registered and compares its
name with the row's. No state of the checked instance had told the two apart.

`TextStands` once compared the texts on the screen without their places, which left
open whether one had been written over by the panel and repeated elsewhere; it now
says of each position what may become of it.

Only model-checked: liveness (`SessionsEnd`, `Converges`, `AssembleEnds`, `LoopEnds`,
`AttemptsEnd`, `FetchesEnd`), because the provers know neither fairness with its
ENABLED nor induction over a temporal formula. Of the five properties that are
violated there is nothing to prove.

## 6. What was found, what is missing

Where the code and what is said of it disagree (each a run that TLC refutes; the
lines are quoted in `PROJECT.json`):

1. Two runs can hold one bundle: a lock is created first and its owner written
   then; a run that reads it in between finds no owner, judges it stale and unlinks
   it by name (`transfer.py:579-601`). The same unlink takes a live lock away when
   two runs have judged the same dead one.
2. `--handoff` deletes the payload of a source that registered while it copied
   (`transfer.py:2905`).
3. A repair and the strict undo of that repair, both interrupted, block each other and every later
   doctor command (`doctor.py:2817`).
4. A failed verify overwrites a recorded upstream mismatch with "compromised", and
   the next one that passes writes "verified against upstream" (`verify.py:132-137`).
   That a failed verify says "compromised" is documented; what the run refutes is
   that the bundle then passes for verified.
5. A partial line that is drained while the panel stops is cleared with the panel
   (`progress.py:971`).

Known limits of what the properties say, seen while modelling, which no run
states as a disagreement:

- Ctrl-C while `reconcile` walks a ledger that is complete registers without the
  rest of the walk, also a file that is absent (`archiver.py:615`);
  `RegisterSeesEveryFile` speaks of sessions that walked the whole pin.
- Nothing flushes a copy before the source's file is unlinked
  (`transfer.py:2453`): a power loss may cut the only copy. `ReleasedIsWhole`
  covers what happens when the source is released after the loss.
- A sibling copy that fails goes on to the network in the same fetch without a
  look at the floor (`transfer.py:2111`); `FloorKept` excludes sibling copies.
- A source whose every file is handed off is removed by name, whatever else was
  put there since (`transfer.py:2509`).
- `rmtree(source)` takes `transfer.lock` away in the middle (`relocate.py:746`). A
  second `mv` or `cp` that was planned before may then lock the half-removed home
  and land on it or read it; two such moves can lose a file, and a half-removed
  home can be given a record. `raced` excludes it from `NothingLost` and
  `ArrivesWhole`.
- A landing that ends after it brought the source's `manifest.json` and before it
  stamped it, by an error in a view, a hash or a write (`relocate.py:659-675`) or by
  a crash, leaves a registered home whose record names the source (`lapsed`); so
  does a rename that is not stamped (`relocate.py:812`). The next verb that stamps
  it mends it.
- A recovery looks at a lock, looks again and then unlinks what lies there by name
  (`doctor.py:1153-1158`); an archive that reclaimed the lock in between loses its
  own. A doctor that cannot write its owner removes by name as well
  (`doctor.py:1180-1183`), and a repair of a stale lock puts one aside that an
  archive has created and not signed yet. `LiveLockStays` excludes these three.
- A doctor that dies between creating a bundle's lock and writing its owner leaves an
  empty lock. The next recovery does not take it for a dead doctor's
  (`doctor.py:1082-1107`) and refuses, so there is a second way in which an
  interrupted run cannot be undone; `AlwaysRecoverable` excludes it, so that its run
  shows the other one. An archive of the bundle, or the user, removes the file.
- What a command recorded between another one's last reading of `manifest.json` and
  its write is lost. For verify and run that is an instant, for smoke, hydrate and
  migrate all of their work (`stale` in `RecordsSurvive`).
- An `archive` that ends by anything but a SystemExit or Ctrl-C (a download that
  failed for good, a full disk, a registration that broke off) leaves its row on
  the board claimed as archiving until the claim expires (`cli.py:765-777`,
  `archiver.py:641-644`); `NoDanglingClaim` excepts it.
- With a runtime directory shared by several vaults, prune looks at one vault's
  bundles only (`hydrate.py:1040-1058`).
- `run` looks for an environment's interpreter, not for `env.json`, and so uses
  one whose rebuild crashed (`hydrate.py:757-763`, against `442-444`); it also
  writes `hydration.json` back after a dehydrate.
- An index that cannot be read puts its weights with the rest of their directory;
  two directories may then be equal, or differ, where they otherwise would not
  (`classify.py:5-8`). Nothing unique is lost either way.
- `archive --next` may serve a row again whose address is a shorthand, or whose tag
  or branch names a commit that was pinned under another name.

Not modelled (the status of every part is in `PROJECT.json`): the providers and
their services (their effects are in `ArchiveSession`, `Pipeline` and `Link`);
estimates, precision, licences, metadata, references and lineage, which read and
describe; hashing and far-side execution, whose results are digests; generated
documents; runners; argument parsing, configuration and completion. Inside the
modelled parts: the merge of partial-download caches, the rate cap, the thread pool
of small files, the numbers of the progress display, preflight arithmetic, the
verdicts R2 to R14 of the classification (none of them skips a file), `rm`
(which takes no lock and is only a disappearance here), disk space of copies,
clones, the tar format.

What could be added: abstract specifications of `Places` (one bundle, a set of whole
homes) and `Repairs` (a set of edits that is applied or not), with refinements that
could rest on `PlacesInv` and `RepairsInv`. What they would promise is proved
today property by property (`HomesArriveWhole`, `NothingIsLost`,
`RepairsAllOrNothing`).
