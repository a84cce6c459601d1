-------------------------------- MODULE Link --------------------------------
(***************************************************************************)
(* What the workers of a session know about the network (transfer.py):     *)
(* class Link, _wait_for_link and the retry loop of _fetch_with_reconnect, *)
(* under a network that drops and returns.  Time passes in ticks of the    *)
(* wait intervals; the link's clock is the age of the outage.              *)
(***************************************************************************)
EXTENDS Naturals, FiniteSets

CONSTANTS File,      \* files to fetch
          Streams,   \* fetched at once
          Patience,  \* max_offline, in ticks; 0 pauses at the first failure
          Waits,     \* the number of reconnect intervals: 1, 2, .. Waits ticks
          MaxFaults  \* drops, failures of a host that can be reached, errors

\* Assumed by MCLiveness.
LinkAssumption == Streams \in Nat \ {0} /\ Patience \in Nat /\ Waits \in Nat \ {0}

VARIABLES up,        \* whether hosts can be reached
          offline,   \* link.offline_since # None
          age,       \* link.offline_for()
          retrying,  \* link._retrying
          fetch,     \* the attempt for each file
          stop,      \* the controller asks for a clean stop
          faults,
          tried,     \* some attempt has begun since the link knows of the outage
          late       \* an attempt was entered as retrying when the outage was over

vars == <<up, offline, age, retrying, fetch, stop, faults, tried, late>>

\* pc: queued, begin (the top of the loop), mark (it found the link offline),
\* net (inside download_file), wait, and the ends done, paused and failed.
\* conn: none yet, open, or cut with bytes of it still in the buffers.
NoFetch == [pc |-> "queued", conn |-> "none", attempt |-> 0, left |-> 0]
Ended(f)    == fetch[f].pc \in {"done", "paused", "failed"}
InFlight(f) == fetch[f].pc # "queued" /\ ~Ended(f)

Init ==
  /\ up = TRUE /\ offline = FALSE /\ age = 0 /\ retrying = {}
  /\ fetch = [f \in File |-> NoFetch]
  /\ stop = FALSE /\ faults = 0 /\ tried = FALSE /\ late = FALSE

Goto(f, pc) == fetch' = [fetch EXCEPT ![f].pc = pc]
World == <<up, stop, faults>>
Known == <<offline, age, retrying, tried, late>>

-----------------------------------------------------------------------------
(* The retry loop.                                                           *)
Start(f) ==
  /\ fetch[f].pc = "queued" /\ ~stop
  /\ Cardinality({g \in File : InFlight(g)}) < Streams
  /\ Goto(f, "begin")
  /\ UNCHANGED <<World, Known>>

Begin(f) ==
  /\ fetch[f].pc = "begin"
  /\ fetch' = [fetch EXCEPT ![f].pc = IF offline THEN "mark" ELSE "net", ![f].conn = "none"]
  /\ UNCHANGED <<World, Known>>

\* link.retrying: the outage may be over by now.
Mark(f) ==
  /\ fetch[f].pc = "mark"
  /\ retrying' = retrying \cup {f}
  /\ tried' = (tried \/ offline) /\ late' = (late \/ ~offline)
  /\ Goto(f, "net")
  /\ UNCHANGED <<World, offline, age>>

Connect(f) ==
  /\ fetch[f].pc = "net" /\ fetch[f].conn = "none" /\ up
  /\ fetch' = [fetch EXCEPT ![f].conn = "open"]
  /\ UNCHANGED <<World, Known>>

\* link.online: the first byte after an outage ends it for every worker, as
\* long as some attempt is entered as retrying.
\* Mutated: any byte ends it.
ProvesAny == offline
Proves == offline /\ retrying # {}

Online ==
  IF Proves THEN /\ offline' = FALSE /\ age' = 0 /\ retrying' = {} /\ tried' = FALSE
                 /\ UNCHANGED late
  ELSE UNCHANGED Known

\* A chunk is reported: NetworkCounter.add raises a stop, or tells the link.  Of
\* a connection that was cut one chunk at most is still to come.
Chunk(f) ==
  /\ fetch[f].pc = "net" /\ fetch[f].conn \in {"open", "cut"}
  /\ IF stop THEN Goto(f, "paused") /\ UNCHANGED Known
     ELSE /\ fetch' = IF fetch[f].conn = "cut" THEN [fetch EXCEPT ![f].conn = "none"] ELSE fetch
          /\ Online
  /\ UNCHANGED World

Complete(f) ==
  /\ fetch[f].pc = "net" /\ fetch[f].conn \in {"open", "cut"}
  /\ Online
  /\ Goto(f, "done")
  /\ UNCHANGED World

\* A transient failure: without patience a pause at once, else link.lost and
\* the wait.
Lose(f) ==
  LET n == IF fetch[f].attempt < Waits THEN fetch[f].attempt + 1 ELSE Waits IN
  IF Patience = 0 THEN Goto(f, "paused") /\ UNCHANGED Known
  ELSE /\ offline' = TRUE
       /\ IF offline THEN UNCHANGED <<age, tried>> ELSE age' = 0 /\ tried' = FALSE
       /\ retrying' = retrying \ {f}
       /\ fetch' = [fetch EXCEPT ![f].pc = "wait", ![f].attempt = n, ![f].left = n]
       /\ UNCHANGED late

Unreachable(f) ==
  /\ fetch[f].pc = "net" /\ ~up /\ fetch[f].conn # "open"
  /\ Lose(f)
  /\ UNCHANGED World

\* A host that can be reached fails, or the failure is not the network's: then
\* the path stays entered as retrying.
Stumble(f) ==
  /\ fetch[f].pc = "net" /\ faults < MaxFaults /\ faults' = faults + 1
  /\ Lose(f) \/ (Goto(f, "failed") /\ UNCHANGED Known)
  /\ UNCHANGED <<up, stop>>

\* One slice of _wait_for_link: the stop, the patience, the interval.
\* Mutated: the interval is looked at and the patience is not.
GivesUpNever(f) == stop
GivesUp(f) == stop \/ age >= Patience

Wait(f) ==
  /\ fetch[f].pc = "wait"
  /\ \/ ~offline /\ Goto(f, "begin")
     \/ offline /\ GivesUp(f) /\ Goto(f, "paused")
     \/ offline /\ ~GivesUp(f) /\ fetch[f].left = 0 /\ Goto(f, "begin")
  /\ UNCHANGED <<World, Known>>

-----------------------------------------------------------------------------
Tick ==
  /\ \E f \in File : fetch[f].pc = "wait" /\ fetch[f].left > 0
  /\ age' = IF offline /\ age < Patience THEN age + 1 ELSE age
  /\ fetch' = [f \in File |-> [fetch[f] EXCEPT !.left = IF @ > 0 THEN @ - 1 ELSE 0]]
  /\ UNCHANGED <<World, offline, retrying, tried, late>>

Drop ==
  /\ up /\ faults < MaxFaults
  /\ up' = FALSE /\ faults' = faults + 1
  /\ fetch' = [f \in File |-> [fetch[f] EXCEPT !.conn = IF @ = "open" THEN "cut" ELSE @]]
  /\ UNCHANGED <<Known, stop>>

\* Connections that were not closed meanwhile may go on.
Return ==
  /\ ~up /\ up' = TRUE
  /\ \E alive \in SUBSET {f \in File : fetch[f].conn = "cut"} :
       fetch' = [f \in File |-> [fetch[f] EXCEPT !.conn = IF f \in alive THEN "open" ELSE @]]
  /\ UNCHANGED <<Known, stop, faults>>

Stop ==
  /\ ~stop /\ faults < MaxFaults
  /\ stop' = TRUE /\ faults' = faults + 1
  /\ UNCHANGED <<Known, up, fetch>>

Work(f) == \/ Start(f) \/ Begin(f) \/ Mark(f) \/ Connect(f) \/ Complete(f)
           \/ Unreachable(f) \/ Wait(f)

Next == (\E f \in File : Work(f) \/ Chunk(f) \/ Stumble(f)) \/ Tick \/ Drop \/ Return \/ Stop

Spec == Init /\ [][Next]_vars

\* Threads run, intervals pass, a request to a host out of reach times out and
\* a stream that stays open completes.  That the network returns is not assumed.
FairSpec == Spec /\ WF_vars(Tick) /\ \A f \in File : WF_vars(Work(f))

-----------------------------------------------------------------------------
(* "The first network byte received by an attempt begun during the outage    *)
(* ends it.  Bytes still draining from a stream that was open before the     *)
(* drop do not" (docs/INCREMENTAL.md:642-644): as long as no attempt at all  *)
(* has begun in the outage, unless one was entered as retrying when another  *)
(* worker had just ended the outage before.                                  *)
NoEndUntried == [][offline /\ ~offline' => tried \/ late]_vars

(* Whatever the network does, and if it never returns: no fetch waits or     *)
(* retries for ever.                                                         *)
FetchesEnd == \A f \in File : InFlight(f) ~> Ended(f)
=============================================================================
