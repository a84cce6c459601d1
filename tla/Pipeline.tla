------------------------------ MODULE Pipeline ------------------------------
(***************************************************************************)
(* The large-file pipeline of one session (transfer._transfer_large_files):*)
(* up to Streams fetch workers feed one hash worker, the main thread       *)
(* commits.  Three things stop it from different sides: NetworkCounter     *)
(* (byte and time budgets, seen by whichever worker reports a chunk),      *)
(* StopController (Ctrl-C and the free-space floor, sticky) and the main   *)
(* thread's own verdicts.                                                  *)
(*                                                                         *)
(* A file is a number of chunks; disk space and the byte budget are counted*)
(* in chunks.  The outage logic inside one fetch is module Link; a fetch   *)
(* that gives up waiting is a paused fetch here.                           *)
(***************************************************************************)
EXTENDS Naturals, FiniteSets, Sequences, Functions

CONSTANTS File,       \* the large files that remain
          Order,      \* the same as a sequence, smallest first
          Size,       \* chunks in each file
          Copies,     \* sibling bundles claimed to hold each file
          Streams,    \* --jobs
          Budget,     \* --max-bytes, in chunks
          Room,       \* chunks that fit above the free-space floor
          MaxFaults   \* bound on errors, bad digests, Ctrl-C, lateness, neighbours

\* What the constants are: MCSafety and MCLiveness assume it of their instances.
PipelineAssumption ==
    /\ IsFiniteSet(File)
    /\ Order \in Seq(File) /\ {Order[i] : i \in DOMAIN Order} = File
    /\ \A i, j \in DOMAIN Order : Order[i] = Order[j] => i = j
    /\ Size \in [File -> Nat \ {0}] /\ Copies \in [File -> Nat]
    /\ Streams \in Nat \ {0} /\ Budget \in Nat /\ Room \in Nat /\ MaxFaults \in Nat

VARIABLES
    queue,       \* main: files to start, in order
    fetching,    \* main: files whose fetch future it has not collected
    hashing,     \* main: files whose digest future it has not collected
    todo,        \* main: futures the last wait() returned, still to look at
    main,        \* main: where it is
    cleanStop,   \* main: the stop it will report
    firstError,  \* main: a file failed
    outcome,     \* main: how the pipeline was left
    at,          \* workers: where each file is
    digests,     \* hash pool: files queued behind the hash worker
    got,         \* disk: chunks of each file that have landed
    cands,       \* job: sibling copies left to try
    net,         \* job: network fetches begun
    pending,     \* counter: the banked stop
    bytes,       \* session: network chunks received
    pressed,     \* controller: Ctrl-C was pressed
    late,        \* controller: the deadline has passed
    full,        \* controller: the sticky disk stop
    taken,       \* disk: chunks other programs took
    faults       \* ghost: bounds the model

mains   == <<queue, fetching, hashing, todo, main, cleanStop, firstError, outcome>>
jobs    == <<at, digests, got, cands, net>>
signals == <<pending, bytes, pressed, late, full>>
vars    == <<mains, jobs, signals, taken, faults>>

\* A clean stop, by what main does about it: only Ctrl-C abandons digests.
Stops    == {"pause", "interrupt"}
Fetched  == {"landed", "pause", "interrupt", "failed"}      \* its future is done
Digested == {"matched", "missed", "interrupt", "failed", "cancelled"}
Working  == {"begin", "copy", "net", "hash"}
Places   == {"queued", "digest", "committed", "abandoned", "gone"} \cup Fetched \cup Digested \cup Working
\* The bytes are at the payload path.
Landed   == {"landed", "digest", "hash", "matched", "missed", "cancelled", "abandoned",
              "committed"}

TypeOK ==
    /\ queue \in Seq(File) /\ digests \in Seq(File)
    /\ fetching \subseteq File /\ hashing \subseteq File /\ todo \subseteq File
    /\ main \in {"fill", "collect", "leave", "done"}
    /\ cleanStop \in Stops \cup {"none"} /\ firstError \in BOOLEAN
    /\ outcome \in {"none", "complete", "stop", "error", "abort", "full"}
    /\ at \in [File -> Places]
    /\ got \in [File -> Nat] /\ \A f \in File : got[f] <= Size[f]
    /\ cands \in [File -> Nat] /\ net \in [File -> 0..2]
    /\ pending \in Stops \cup {"none"} /\ bytes \in Nat
    /\ pressed \in BOOLEAN /\ late \in BOOLEAN /\ full \in BOOLEAN
    /\ taken \in Nat /\ faults \in 0..MaxFaults

Init ==
    /\ queue = Order /\ fetching = {} /\ hashing = {} /\ todo = {}
    /\ main = "fill" /\ cleanStop = "none" /\ firstError = FALSE /\ outcome = "none"
    /\ at = [f \in File |-> "queued"] /\ digests = <<>>
    /\ got = [f \in File |-> 0] /\ cands = Copies /\ net = [f \in File |-> 0]
    /\ pending = "none" /\ bytes = 0 /\ pressed = FALSE /\ late = FALSE /\ full = FALSE
    /\ taken = 0 /\ faults = 0

Fault == faults < MaxFaults /\ faults' = faults + 1
Put(f, place) == at' = [at EXCEPT ![f] = place]

-----------------------------------------------------------------------------
(***************************************************************************)
(* StopController and NetworkCounter.                                      *)
(***************************************************************************)
Used == SumFunction(got) + taken

\* check_headroom: bytes still to come must fit above the floor, unless a
\* sticky disk stop already stands.
Fits(needed) == needed = 0 \/ (~full /\ Used + needed <= Room)

\* StopController.check with b bytes received: the stop it raises, or "none".
\* The free-space probe is made every two seconds at most, and sticks.
StopCheck(b, stop) ==
    LET spent == b >= Budget \/ late \/ full
    IN  \/ stop = "interrupt" /\ pressed /\ UNCHANGED full
        \/ stop = "pause" /\ ~pressed /\ spent /\ UNCHANGED full
        \/ stop = "pause" /\ ~pressed /\ ~spent /\ Used > Room /\ full' = TRUE
        \/ stop = "none" /\ ~pressed /\ ~spent /\ UNCHANGED full

\* NetworkCounter.halt: the other streams stop at their next chunk.
HaltStreams == pending' = IF pending = "none" THEN "pause" ELSE pending

\* NetworkCounter.add raises a stop that an earlier chunk banked.
Banked == pending # "none"

-----------------------------------------------------------------------------
(***************************************************************************)
(* The main thread.                                                        *)
(***************************************************************************)
Halted == cleanStop # "none" \/ firstError

Note(stop) == cleanStop' = IF cleanStop = "none" \/ stop = "interrupt" THEN stop
                           ELSE cleanStop

\* remaining_bytes of a file, and _pipeline_headroom: a file with sibling
\* copies to try is not guarded.
Needs(f) == IF at[f] \in Landed THEN 0 ELSE Size[f] - got[f]
HeadroomAlone(f) == cands[f] = 0 => Fits(Needs(f))
Headroom(f) ==
    cands[f] = 0 =>
        Fits(Needs(f) + SumFunction([g \in fetching \ {f} |-> Needs(g)]))

CanStart == /\ queue # <<>> /\ ~Halted
            /\ Cardinality(fetching) < Streams /\ Cardinality(hashing) <= Streams

StartFetch ==
    /\ main = "fill" /\ CanStart /\ Headroom(Head(queue))
    /\ Put(Head(queue), "begin")
    /\ queue' = Tail(queue)
    /\ fetching' = fetching \cup {Head(queue)}
    /\ UNCHANGED <<hashing, todo, main, cleanStop, firstError, outcome, digests, got,
                   cands, net, signals, taken, faults>>

RefuseFetch ==
    /\ main = "fill" /\ CanStart /\ ~Headroom(Head(queue))
    /\ Note("pause") /\ full' = TRUE
    /\ UNCHANGED <<queue, fetching, hashing, todo, main, firstError, outcome, jobs,
                   pending, bytes, pressed, late, taken, faults>>

\* wait() returns the futures that are done by now, once there is one.
Done == {f \in fetching : at[f] \in Fetched} \cup {f \in hashing : at[f] \in Digested}

Wait ==
    /\ main = "fill" /\ ~CanStart /\ Done # {}
    /\ todo' = Done /\ main' = "collect"
    /\ UNCHANGED <<queue, fetching, hashing, cleanStop, firstError, outcome, jobs,
                   signals, taken, faults>>

\* Nothing to start and nothing under way: the loop is left.
IdleWhenDrained == fetching \cup hashing = {} /\ queue = <<>>
Idle == fetching \cup hashing = {}
LeaveLoop ==
    /\ main = "fill" /\ ~CanStart /\ Idle
    /\ main' = "leave"
    /\ UNCHANGED <<queue, fetching, hashing, todo, cleanStop, firstError, outcome, jobs,
                   signals, taken, faults>>

Take(f) == /\ main = "collect" /\ f \in todo
           /\ todo' = todo \ {f} /\ fetching' = fetching \ {f}

\* A fetched file goes to the hash worker.
CollectLanded(f) ==
    /\ f \in fetching /\ at[f] = "landed" /\ Take(f)
    /\ Put(f, "digest") /\ digests' = Append(digests, f)
    /\ hashing' = hashing \cup {f}
    /\ UNCHANGED <<queue, main, cleanStop, firstError, outcome, got, cands, net, signals,
                   taken, faults>>

\* A fetch that stopped cleanly has banked its partial; an abandoned digest
\* leaves a complete file; a cancelled one never ran.
CollectStopped(f) ==
    /\ at[f] \in Stops \cup {"cancelled"} /\ Take(f)
    /\ Put(f, IF f \in hashing THEN "abandoned" ELSE "gone")
    /\ hashing' = hashing \ {f}
    /\ IF at[f] \in Stops THEN Note(at[f]) ELSE UNCHANGED cleanStop
    /\ UNCHANGED <<queue, main, firstError, outcome, digests, got, cands, net, signals,
                   taken, faults>>

CollectFailed(f) ==
    /\ at[f] = "failed" /\ Take(f)
    /\ Put(f, "gone") /\ hashing' = hashing \ {f}
    /\ firstError' = TRUE /\ HaltStreams
    /\ UNCHANGED <<queue, main, cleanStop, outcome, digests, got, cands, net, bytes,
                   pressed, late, full, taken, faults>>

\* settle: a match, or the network's second answer whatever it is.
Final(f) == at[f] = "matched" \/ (at[f] = "missed" /\ net[f] = 2)

\* The record is saved, and the commit is a stop check of its own.
Commit(f) ==
    /\ f \in hashing /\ Final(f) /\ Take(f)
    /\ Put(f, "committed") /\ hashing' = hashing \ {f}
    /\ \E stop \in Stops \cup {"none"} :
          /\ StopCheck(bytes, stop)
          /\ IF stop = "none" THEN UNCHANGED cleanStop ELSE Note(stop)
    /\ UNCHANGED <<queue, main, firstError, outcome, digests, got, cands, net, pending,
                   bytes, pressed, late, taken, faults>>

\* The disk is too full for the ledger: main leaves with the disk stop.
CommitFails(f) ==
    /\ f \in hashing /\ Final(f) /\ Take(f) /\ Fault
    /\ Put(f, "gone") /\ hashing' = hashing \ {f}
    /\ full' = TRUE /\ HaltStreams
    /\ main' = "leave" /\ outcome' = "full"
    /\ UNCHANGED <<queue, cleanStop, firstError, digests, got, cands, net, bytes,
                   pressed, late, taken>>

\* The bytes are discarded; the next source is tried ahead of the rest.
AgainForgotten(f) == UNCHANGED queue
Again(f) == queue' = <<f>> \o queue
Discard(f) == got' = [got EXCEPT ![f] = 0]
GoAround(f) ==
    /\ f \in hashing /\ at[f] = "missed" /\ ~Final(f) /\ Take(f)
    /\ Put(f, "queued") /\ hashing' = hashing \ {f}
    /\ Again(f) /\ Discard(f)
    /\ UNCHANGED <<main, cleanStop, firstError, outcome, digests, cands, net, signals,
                   taken, faults>>

\* Digests that have not begun are cancelled.
CancelDigests == /\ at' = [f \in File |-> IF at[f] = "digest" THEN "cancelled" ELSE at[f]]
                 /\ digests' = <<>>

\* All futures were looked at; Ctrl-C abandons the digests.
AbandonsAtAnyStop == cleanStop # "none"
Abandons == cleanStop = "interrupt"
EndCollect ==
    /\ main = "collect" /\ todo = {}
    /\ main' = "fill"
    /\ IF Abandons THEN CancelDigests ELSE UNCHANGED <<at, digests>>
    /\ UNCHANGED <<queue, fetching, hashing, todo, cleanStop, firstError, outcome, got,
                   cands, net, signals, taken, faults>>

\* A second Ctrl-C, wherever main is: KeyboardInterrupt.
Abort ==
    /\ main \in {"fill", "collect"} /\ pressed /\ Fault
    /\ HaltStreams
    /\ main' = "leave" /\ outcome' = "abort"
    /\ UNCHANGED <<queue, fetching, hashing, todo, cleanStop, firstError, jobs, bytes,
                   pressed, late, full, taken>>

\* The pools are shut down: what has not begun is cancelled, the rest waited for.
Shutdown ==
    /\ main = "leave" /\ digests # <<>>
    /\ CancelDigests
    /\ UNCHANGED <<mains, got, cands, net, signals, taken, faults>>

\* An error outranks a clean stop.
Verdict == IF outcome # "none" THEN outcome ELSE IF firstError THEN "error"
           ELSE IF cleanStop # "none" THEN "stop" ELSE "complete"

Leave ==
    /\ main = "leave" /\ digests = <<>> /\ \A f \in File : at[f] \notin Working
    /\ main' = "done" /\ outcome' = Verdict
    /\ UNCHANGED <<queue, fetching, hashing, todo, cleanStop, firstError, jobs, signals,
                   taken, faults>>

-----------------------------------------------------------------------------
(***************************************************************************)
(* The fetch workers (_FileJob.fetch) and the hash worker.                 *)
(***************************************************************************)
Worker(f, place) == at[f] = place /\ UNCHANGED <<mains, taken>>

\* A stop that stands by now ends the fetch; then copies, then the network.
BeginFetch(f) ==
    /\ Worker(f, "begin")
    /\ \E stop \in Stops \cup {"none"} :
          /\ StopCheck(bytes, stop)
          /\ Put(f, IF stop # "none" THEN stop ELSE IF cands[f] > 0 THEN "copy" ELSE "net")
          /\ net' = [net EXCEPT ![f] = IF stop = "none" /\ cands[f] = 0 THEN @ + 1 ELSE @]
    /\ UNCHANGED <<digests, got, cands, pending, bytes, pressed, late, faults>>

Copy(f) ==
    /\ Worker(f, "copy")
    /\ Put(f, "landed") /\ got' = [got EXCEPT ![f] = Size[f]]
    /\ cands' = [cands EXCEPT ![f] = @ - 1]
    /\ UNCHANGED <<digests, net, signals, faults>>

\* A copy that cannot be made is removed; the next one, or the network, is
\* tried in the same fetch.
CopyFails(f) ==
    /\ Worker(f, "copy") /\ Fault
    /\ cands' = [cands EXCEPT ![f] = @ - 1]
    /\ got' = [got EXCEPT ![f] = 0]
    /\ IF cands[f] > 1 THEN UNCHANGED <<at, net>>
       ELSE /\ Put(f, "net") /\ net' = [net EXCEPT ![f] = @ + 1]
    /\ UNCHANGED <<digests, signals>>

\* One chunk is reported to the counter.  A stop that is banked is raised: one
\* provider reports before it writes, the other after.  Otherwise the chunk
\* lands, and a stop it trips is banked and raised with it or with the next.
Chunk(f) ==
    /\ Worker(f, "net")
    /\ bytes' = bytes + 1
    /\ \E stop \in Stops \cup {"none"}, n \in 0..1 :
          /\ IF Banked THEN stop = pending /\ UNCHANGED <<full, pending>>
             ELSE StopCheck(bytes', stop) /\ pending' = stop /\ n = 1
          /\ got' = [got EXCEPT ![f] = @ + n]
          /\ \/ stop # "none" /\ Put(f, stop)
             \/ /\ stop = "none" \/ ~Banked
                /\ IF got'[f] = Size[f] THEN Put(f, "landed") ELSE UNCHANGED at
    /\ UNCHANGED <<digests, cands, net, pressed, late, faults>>

\* The request fails, or the link stays down for too long, or the disk is full.
FetchFails(f) ==
    /\ Worker(f, "net") /\ Fault
    /\ \/ pending # "none" /\ Put(f, pending) /\ UNCHANGED full
       \/ pending = "none" /\ Put(f, "failed") /\ UNCHANGED full
       \/ pending = "none" /\ Put(f, "pause") /\ full' \in {full, TRUE}
    /\ UNCHANGED <<digests, got, cands, net, pending, bytes, pressed, late>>

HashBegin(f) ==
    /\ Worker(f, "digest") /\ f = Head(digests) /\ \A g \in File : at[g] # "hash"
    /\ Put(f, "hash") /\ digests' = Tail(digests)
    /\ UNCHANGED <<got, cands, net, signals, faults>>

HashEnd(f) ==
    /\ Worker(f, "hash")
    /\ Put(f, "matched")
    /\ UNCHANGED <<digests, got, cands, net, signals, faults>>

HashInterrupted(f) ==
    /\ Worker(f, "hash") /\ pressed
    /\ Put(f, "interrupt")
    /\ UNCHANGED <<digests, got, cands, net, signals, faults>>

HashFails(f) ==
    /\ Worker(f, "hash") /\ Fault
    /\ \E place \in {"missed", "failed"} : Put(f, place)
    /\ UNCHANGED <<digests, got, cands, net, signals>>

-----------------------------------------------------------------------------
Press ==
    /\ ~pressed /\ Fault /\ pressed' = TRUE
    /\ UNCHANGED <<mains, jobs, pending, bytes, late, full, taken>>

Deadline ==
    /\ ~late /\ Fault /\ late' = TRUE
    /\ UNCHANGED <<mains, jobs, pending, bytes, pressed, full, taken>>

\* Another program fills the disk.
Neighbour ==
    /\ Fault /\ taken' = taken + 1
    /\ UNCHANGED <<mains, jobs, signals>>

Main ==
    \/ StartFetch \/ RefuseFetch \/ Wait \/ LeaveLoop \/ EndCollect \/ Shutdown \/ Leave
    \/ \E f \in File : \/ CollectLanded(f) \/ CollectStopped(f) \/ CollectFailed(f)
                       \/ Commit(f) \/ GoAround(f)

Work(f) == BeginFetch(f) \/ Copy(f) \/ Chunk(f) \/ HashBegin(f) \/ HashEnd(f)

World ==
    \/ Press \/ Deadline \/ Neighbour \/ Abort
    \/ \E f \in File : CommitFails(f) \/ CopyFails(f) \/ FetchFails(f) \/ HashFails(f)
                       \/ HashInterrupted(f)

Next == Main \/ World \/ \E f \in File : Work(f)

Spec == Init /\ [][Next]_vars

FairSpec == Spec /\ WF_vars(Main) /\ \A f \in File : WF_vars(Work(f))

-----------------------------------------------------------------------------
(***************************************************************************)
(* Properties.                                                             *)
(***************************************************************************)
Committed == {f \in File : at[f] = "committed"}

\* A session that reports nothing amiss has committed every file, whatever
\* went around the loop a second time.
CompleteMeansAll == outcome = "complete" => Committed = File

\* "Only Ctrl-C abandons a running digest ... a byte or time budget lets queued
\* digests finish": after any other stop, and after an error, no complete file
\* is left without its record - unless the ledger itself cannot be written.
DigestsFinish ==
    main = "done" /\ outcome \notin {"abort", "full"} /\ ~pressed
        => \A f \in File : at[f] \in Landed => at[f] = "committed"

\* No other program and no sibling copy has taken space.
OnlyFetches == taken = 0 /\ \A f \in File : got[f] > 0 => net[f] > 0

\* As long as every byte comes over the network and nobody else fills the disk,
\* the streams together never cross the free-space floor.
FloorKept == OnlyFetches => Used <= Room

\* Every session ends, whatever the order in which futures finish.
PipelineEnds == <>(main = "done")
=============================================================================
