----------------------------- MODULE MCLiveness -----------------------------
(***************************************************************************)
(* The parts of a transfer that are checked under fairness, each on its    *)
(* own small instance, in one run: the pipeline with one stream, the lock, *)
(* and the link.  A behaviour belongs to one part, which is chosen at the  *)
(* start; the variables of the others stay as they are.                    *)
(***************************************************************************)
EXTENDS Pipeline

VARIABLES part,
          lock, pc, run, seen, raced,
          up, offline, age, retrying, fetch, stop, drops, tried, lateAttempt

\* The pipeline: four files of one chunk, one of which a sibling bundle claims
\* to hold.
BigFiles   == {"a", "b", "c", "d"}
Smallest   == <<"a", "b", "c", "d">>
OneChunk   == [f \in BigFiles |-> 1]
OneSibling == [f \in BigFiles |-> IF f = "b" THEN 1 ELSE 0]

\* The lock: three process ids, two on a desk machine, one on a machine that
\* mounts the same vault, each used for up to two runs.
Pids == {1, 2, 3}
Lock == INSTANCE TransferLock
          WITH Proc <- Pids, Host <- {"desk", "nas"},
               HostOf <- [p \in Pids |-> IF p = 3 THEN "nas" ELSE "desk"], MaxRuns <- 2

\* The link: two files, a patience of two ticks, three drops or errors.
TwoFiles == {"a", "b"}
Network  == INSTANCE Link
              WITH File <- TwoFiles, Streams <- 2, Patience <- 2, Waits <- 2, MaxFaults <- 3,
                   faults <- drops, late <- lateAttempt

ASSUME InstancesAssumption == PipelineAssumption /\ Lock!LockAssumption /\ Network!LinkAssumption

-----------------------------------------------------------------------------
lockVars == <<lock, pc, run, seen, raced>>
linkVars == <<up, offline, age, retrying, fetch, stop, drops, tried, lateAttempt>>

MCInit ==
  /\ part \in {"pipeline", "lock", "link"}
  /\ Init /\ Network!Init
  /\ Lock!Init /\ (part = "lock" \/ lock = Lock!NoLock)

MCNext ==
  /\ UNCHANGED part
  /\ \/ part = "pipeline" /\ Next /\ UNCHANGED <<lockVars, linkVars>>
     \/ part = "lock" /\ Lock!Next /\ UNCHANGED <<vars, linkVars>>
     \/ part = "link" /\ Network!Next /\ UNCHANGED <<vars, lockVars>>

\* The fairness of the FairSpec of each part, for the part the behaviour is of.
Fairness ==
  /\ WF_vars(part = "pipeline" /\ Main)
  /\ \A f \in File : WF_vars(part = "pipeline" /\ Work(f))
  /\ \A p \in Pids : WF_lockVars(part = "lock" /\ Lock!Step(p))
  /\ WF_linkVars(part = "link" /\ Network!Tick)
  /\ \A f \in TwoFiles : WF_linkVars(part = "link" /\ Network!Work(f))

MCSpec == MCInit /\ [][MCNext]_<<part, vars, lockVars, linkVars>> /\ Fairness

-----------------------------------------------------------------------------
(* CompleteMeansAll of the pipeline is Pipeline's own: in the other parts    *)
(* its variables stay as they are at the start.                              *)

(* The loop ends in whatever order the futures finish (Pipeline,             *)
(* transfer.py:2156-2190).                                                   *)
LoopEnds == part = "pipeline" => PipelineEnds

(* Every attempt at the lock ends in holding it or in leaving (TransferLock, *)
(* transfer.py:568-615).                                                     *)
AttemptsEnd == Lock!AttemptsEnd

(* No fetch waits or retries for ever (Link, transfer.py:1455-1561).         *)
FetchesEnd == Network!FetchesEnd
=============================================================================
