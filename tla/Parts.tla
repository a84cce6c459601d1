-------------------------------- MODULE Parts --------------------------------
(***************************************************************************)
(* The parts of darsay that share no state, side by side: the pipeline,    *)
(* the link, the lock of a bundle, the panel of a transfer, the record of  *)
(* a bundle, the runtime environments, the board, the catalog, the         *)
(* collection room and the default selection.  A behaviour belongs to one  *)
(* part, which is chosen at the start; the variables of the others stay as *)
(* they are.  Each part has constants and variables of its own.            *)
(***************************************************************************)
EXTENDS Pipeline

CONSTANTS LinkFile, LinkStreams, Patience, Waits, MaxDrops,
          LockProc, Host, HostOf, MaxLockRuns,
          MaxTexts,
          RecordProc, MaxRecordRuns, MaxRecordFaults,
          EnvBundle, VaultOf, EnvProc, MaxEnvRuns, MaxEnvFaults,
          BoardRows, BoardProc, ClientOf, MaxBoardRuns, MaxBoardFaults,
          Source, Rank, Resolves, Home, Wish, Friend, MaxEdits, MaxCatalogRuns,
          Gguf, Begins, Group, Height, Lines, Opening,
          Published, Digest, Index

VARIABLES part,
          up, offline, age, retrying, fetch, stop, drops, tried, lateAttempt,
          lock, pc, run, seen, raced,
          screen, drawn, hidden, suspended, stopping, caught, buf, panelMain, painter,
          echo, worker, texts, struck, lateText,
          manifest, report, history, payload, recordProc, recordRuns, recordFaults, wrote,
          stale, mismatch,
          env, hydration, envProc, envRuns, envFaults, swept, lateName, halfClear,
          status, claim, bundle, boardProc, flight, boardRuns, boardFaults, shaken, handedBack,
          entries, bundles, head, price, edits, catalogRuns, served,
          include, cursor, offset, page, height, shown, result,
          hash, found, pinned

Network == INSTANCE Link
             WITH File <- LinkFile, Streams <- LinkStreams, MaxFaults <- MaxDrops,
                  faults <- drops, late <- lateAttempt

Lock == INSTANCE TransferLock WITH Proc <- LockProc, MaxRuns <- MaxLockRuns

Terminal == INSTANCE Panel WITH main <- panelMain, late <- lateText

Book == INSTANCE BundleRecord
          WITH Proc <- RecordProc, MaxRuns <- MaxRecordRuns, MaxFaults <- MaxRecordFaults,
               hydration <- history, proc <- recordProc, runs <- recordRuns, faults <- recordFaults

Envs == INSTANCE Environments
          WITH Bundle <- EnvBundle, Proc <- EnvProc, MaxRuns <- MaxEnvRuns,
               MaxFaults <- MaxEnvFaults, proc <- envProc, runs <- envRuns,
               faults <- envFaults, late <- lateName

Volunteers == INSTANCE Board
                WITH Rows <- BoardRows, Proc <- BoardProc, MaxRuns <- MaxBoardRuns,
                     MaxFaults <- MaxBoardFaults, proc <- boardProc, runs <- boardRuns,
                     faults <- boardFaults

Wants == INSTANCE Catalog WITH MaxRuns <- MaxCatalogRuns, runs <- catalogRuns

Window == INSTANCE CollectionRoom WITH File <- Gguf

Default == INSTANCE Classification WITH File <- Published

ASSUME PartsAssumption ==
  /\ PipelineAssumption /\ Network!LinkAssumption /\ Lock!LockAssumption
  /\ Volunteers!BoardAssumption /\ Wants!CatalogAssumption
  /\ Window!RoomAssumption /\ Default!ClassificationAssumption

-----------------------------------------------------------------------------
linkVars    == <<up, offline, age, retrying, fetch, stop, drops, tried, lateAttempt>>
lockVars    == <<lock, pc, run, seen, raced>>
panelVars   == <<screen, drawn, hidden, suspended, stopping, caught, buf, panelMain, painter,
                 echo, worker, texts, struck, lateText>>
recordVars  == <<manifest, report, history, payload, recordProc, recordRuns, recordFaults, wrote,
                 stale, mismatch>>
envVars     == <<env, hydration, envProc, envRuns, envFaults, swept, lateName, halfClear>>
boardVars   == <<status, claim, bundle, boardProc, flight, boardRuns, boardFaults, shaken,
                 handedBack>>
catalogVars == <<entries, bundles, head, price, edits, catalogRuns, served>>
roomVars    == <<include, cursor, offset, page, height, shown, result>>
classVars   == <<hash, found, pinned>>

\* Where a part begins with a choice, it is made in its own behaviours only.
PartsInit ==
  /\ part \in {"pipeline", "link", "lock", "panel", "record", "environments", "board", "catalog",
              "room", "classification"}
  /\ Lock!Init /\ (part = "lock" \/ lock = Lock!NoLock)
  /\ Init /\ Network!Init /\ Terminal!Init /\ Envs!Init /\ Volunteers!Init /\ Wants!Init
  /\ Book!Init /\ (part = "record" \/ (~mismatch /\ manifest.schema = "current"))
  /\ Default!Init /\ (part = "classification" \/ \A f \in DOMAIN hash : hash[f] = Default!Unknown)
  /\ Window!Init /\ (part = "room" \/ (/\ include = CHOOSE list \in Opening : TRUE
                                     /\ height = CHOOSE h \in Height : TRUE))

PartsNext ==
  /\ UNCHANGED part
  /\ \/ /\ part = "pipeline" /\ Next
        /\ UNCHANGED <<linkVars, lockVars, panelVars, recordVars, envVars, boardVars, catalogVars,
                       roomVars, classVars>>
     \/ /\ part = "link" /\ Network!Next
        /\ UNCHANGED <<vars, lockVars, panelVars, recordVars, envVars, boardVars, catalogVars,
                       roomVars, classVars>>
     \/ /\ part = "lock" /\ Lock!Next
        /\ UNCHANGED <<vars, linkVars, panelVars, recordVars, envVars, boardVars, catalogVars,
                       roomVars, classVars>>
     \/ /\ part = "panel" /\ Terminal!Next
        /\ UNCHANGED <<vars, linkVars, lockVars, recordVars, envVars, boardVars, catalogVars,
                       roomVars, classVars>>
     \/ /\ part = "record" /\ Book!Next
        /\ UNCHANGED <<vars, linkVars, lockVars, panelVars, envVars, boardVars, catalogVars,
                       roomVars, classVars>>
     \/ /\ part = "environments" /\ Envs!Next
        /\ UNCHANGED <<vars, linkVars, lockVars, panelVars, recordVars, boardVars, catalogVars,
                       roomVars, classVars>>
     \/ /\ part = "board" /\ Volunteers!Next
        /\ UNCHANGED <<vars, linkVars, lockVars, panelVars, recordVars, envVars, catalogVars,
                       roomVars, classVars>>
     \/ /\ part = "catalog" /\ Wants!Next
        /\ UNCHANGED <<vars, linkVars, lockVars, panelVars, recordVars, envVars, boardVars,
                       roomVars, classVars>>
     \/ /\ part = "room" /\ Window!Next
        /\ UNCHANGED <<vars, linkVars, lockVars, panelVars, recordVars, envVars, boardVars,
                       catalogVars, classVars>>
     \/ /\ part = "classification" /\ Default!Next
        /\ UNCHANGED <<vars, linkVars, lockVars, panelVars, recordVars, envVars, boardVars,
                       catalogVars, roomVars>>

partsVars == <<part, vars, linkVars, lockVars, panelVars, recordVars, envVars, boardVars, catalogVars,
               roomVars, classVars>>

PartsSpec == PartsInit /\ [][PartsNext]_partsVars

-----------------------------------------------------------------------------
(* DigestsFinish and FloorKept of the pipeline are Pipeline's own: in the    *)
(* other parts its variables stay as they are at the start.                  *)

(* An outage ends only when an attempt was begun in it, unless two workers   *)
(* raced at its end (Link, transfer.py:326-352).                             *)
NoEndUntried == Network!NoEndUntried

(* Whoever crashes, whatever process ids are reused and whatever lock came   *)
(* with a copy, two runs hold a bundle at once only if two acquisitions have *)
(* overlapped before (TransferLock, transfer.py:568-615).                    *)
ExclusiveUnlessRaced == part = "lock" => Lock!ExclusiveUnlessRaced

(* A lock written on another machine stays until its own run removes it,     *)
(* unless two acquisitions overlapped (TransferLock, transfer.py:588-600).   *)
ForeignLockStays == Lock!ForeignLockStays

(* What a finished command recorded stays in its section of the record and   *)
(* in the histories, unless another command read before and wrote after; a   *)
(* migrated record never goes back (BundleRecord, verify.py:68-157,          *)
(* hydrate.py:597-719, 853-890).                                             *)
RecordsSurvive == part = "record" => Book!RecordsSurvive

(* No text that reached the terminal is overwritten by the panel (Panel,     *)
(* progress.py:933-1085).                                                    *)
TextStands == Terminal!TextStands

(* When the display is gone the terminal is as it was (Panel,                *)
(* progress.py:933-948, transfer.py:528-550).                                *)
TerminalGivenBack == part = "panel" => Terminal!TerminalGivenBack

(* A command goes on to its probe or its inference in a whole environment    *)
(* only (Environments, hydrate.py:442-520, 757-763).                         *)
ProbedIsWhole == Envs!ProbedIsWhole

(* prune removes no environment that a bundle of its vault referenced when   *)
(* it listed them (Environments, hydrate.py:1040-1088).                      *)
PruneKeepsListed == Envs!PruneKeepsListed

(* Two machines fetch one row only after a claim expired, an answer got lost *)
(* or a row was given back (Board, board.py:183-245, cli.py:888-1007).       *)
NoCollision == part = "board" => Volunteers!NoCollision

(* A row that is claimed as being archived is being archived by its holder,  *)
(* unless a call was lost or slow, or the command died or ended by an error  *)
(* that gives nothing back (Board, board.py:358-470, cli.py:765-777).        *)
NoDanglingClaim == part = "board" => Volunteers!NoDanglingClaim

(* A catalog never has two entries with one key (Catalog,                    *)
(* catalog.py:698-863).                                                      *)
KeysUnique == part = "catalog" => Wants!KeysUnique

(* What archive --next registers for a row is what the overlay then finds    *)
(* for it (Catalog, catalog.py:992-1095).                                    *)
NextServesItsRow == part = "catalog" => Wants!NextServesItsRow

(* The group under the cursor is one of the rows that are drawn, and what is *)
(* marked is what the selection keeps (CollectionRoom, WeightVariants,       *)
(* collection_tui.py:350-353, weight_variants.py:57-63).                     *)
ShownIsChosen == part = "room" => Window!ShownIsChosen

(* A pin leaves out only weights whose published bytes it also keeps         *)
(* (Classification, classify.py:434-616).                                    *)
NothingUniqueSkipped == part = "classification" => Default!NothingUniqueSkipped
=============================================================================
