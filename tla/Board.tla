-------------------------------- MODULE Board --------------------------------
(***************************************************************************)
(* Volunteers that share a darsay.io board: `archive --next BOARD` and     *)
(* `archive SOURCE --board BOARD` (cli.py) claim a row, archive it while a *)
(* reporter thread posts progress (board.py), and report how it ended or   *)
(* release the row.  The board itself is not in the repository: it answers *)
(* as docs/CATALOGS.md and the board of the tests say.  What archive does  *)
(* to the vault is the start, the lock and the outcome.                    *)
(***************************************************************************)
EXTENDS Naturals, FiniteSets, FiniteSetsExt

CONSTANTS Rows,      \* rows are numbers, the most wanted first
          Proc,
          ClientOf,  \* the machine each process runs on: its client id and vault
          MaxRuns,   \* commands started
          MaxFaults  \* calls lost or slow, crashes, claims that expire, check-offs

VARIABLES status,    \* board: want or have
          claim,     \* board: who holds each row, and what was reported last; left
                     \* says that the command behind it has ended and told nobody
          bundle,    \* the bundles registered in each client's vault
          proc,
          flight,    \* the report each process's reporter has in flight
          runs, faults,
          shaken,    \* rows with a lost or slow call, a crash or an expired claim
          handedBack \* rows released by one process under another of its client

vars == <<status, claim, bundle, proc, flight, runs, faults, shaken, handedBack>>

Row == 1..Rows
Client == {ClientOf[p] : p \in Proc}
NoClaim == [client |-> "none", state |-> "none", left |-> FALSE]
\* A client id is never the word that stands for nobody.
BoardAssumption == Rows \in Nat /\ "none" \notin Client
NoFlight == 0

\* next: the candidates --next has still to try; seen: those the board called
\* have; reporting: the reporter thread has not been told to stop.
Idle == [pc |-> "idle", row |-> 0, next |-> {}, seen |-> {}, reporting |-> FALSE]

Init ==
  /\ status = [r \in Row |-> "want"] /\ claim = [r \in Row |-> NoClaim]
  /\ bundle = [c \in Client |-> {}]
  /\ proc = [p \in Proc |-> Idle]
  /\ flight = [p \in Proc |-> NoFlight]
  /\ runs = 0 /\ faults = 0 /\ shaken = {} /\ handedBack = {}

Ends(p)     == proc' = [proc EXCEPT ![p] = Idle]
Goto(p, pc) == proc' = [proc EXCEPT ![p].pc = pc]
Counts == <<runs, faults, shaken, handedBack>>
Remote == <<status, claim>>

-----------------------------------------------------------------------------
(* The board.  A claim is refused while another client holds the row, and on *)
(* a row that is have, unless it is a refetch or the holder's own.           *)
Accepts(r, c, refetch) ==
  /\ claim[r].client \in {"none", c} \/ claim[r].state = "done"
  /\ status[r] = "have" => refetch \/ claim[r].client = c

Claimed(r, c, state) ==
  /\ claim' = [claim EXCEPT ![r] = [client |-> c, state |-> state, left |-> FALSE]]
  /\ status' = IF state = "done" THEN [status EXCEPT ![r] = "have"] ELSE status

\* release: a DELETE that names the client.
Released(r, c) ==
  /\ claim' = IF claim[r].client = c THEN [claim EXCEPT ![r] = NoClaim] ELSE claim
  /\ UNCHANGED status

\* Best effort: a call that gets no answer is not repeated.
Lost(r) == /\ faults < MaxFaults /\ faults' = faults + 1
           /\ shaken' = shaken \cup {r}
           /\ UNCHANGED Remote

-----------------------------------------------------------------------------
(* --next: the overlay of this vault, then the board's rows, then one claim  *)
(* after the other until one is accepted.                                    *)
PickNext(p) ==
  /\ proc[p] = Idle /\ runs < MaxRuns /\ runs' = runs + 1
  /\ proc' = [proc EXCEPT ![p] = [Idle EXCEPT !.pc = "pick",
                                    !.next = Row \ bundle[ClientOf[p]],
                                    !.seen = {r \in Row : status[r] = "have"}]]
  /\ UNCHANGED <<Remote, bundle, flight, faults, shaken, handedBack>>

\* Mutated: what the board answers is not looked at.
TakenAnyway(r, c, refetch) == TRUE
Taken(r, c, refetch) == Accepts(r, c, refetch)

Pick(p) ==
  LET c == ClientOf[p]
      r == Min(proc[p].next) IN
  /\ proc[p].pc = "pick"
  /\ \/ proc[p].next = {} /\ Ends(p) /\ UNCHANGED <<Remote, Counts>>
     \/ /\ proc[p].next # {}
        /\ \/ /\ r \notin proc[p].seen /\ Taken(r, c, FALSE)
              /\ IF Accepts(r, c, FALSE) THEN Claimed(r, c, "archiving") ELSE UNCHANGED Remote
              /\ proc' = [proc EXCEPT ![p].pc = "lock", ![p].row = r]
              /\ UNCHANGED Counts
           \/ /\ r \in proc[p].seen \/ ~Taken(r, c, FALSE)
              /\ proc' = [proc EXCEPT ![p].next = @ \ {r}]
              /\ UNCHANGED <<Remote, Counts>>
           \/ r \notin proc[p].seen /\ Lost(r) /\ Ends(p) /\ UNCHANGED <<runs, handedBack>>
  /\ UNCHANGED <<bundle, flight>>

\* --board: the named source is claimed, with refetch, or the command ends.
Name(p, r) ==
  /\ proc[p] = Idle /\ runs < MaxRuns /\ runs' = runs + 1
  /\ IF Accepts(r, ClientOf[p], TRUE)
     THEN /\ Claimed(r, ClientOf[p], "archiving")
          /\ proc' = [proc EXCEPT ![p].pc = "lock", ![p].row = r]
     ELSE UNCHANGED <<Remote, proc>>
  /\ UNCHANGED <<bundle, flight, faults, shaken, handedBack>>

-----------------------------------------------------------------------------
(* archive.  The bundle's lock, a registered bundle, a refusal by the source *)
(* and a dry run all end it before bytes move.                               *)
InTransfer(p, r) == proc[p].row = r /\ proc[p].pc \in {"transfer", "boundary"}
Twins(p)   == {q \in Proc \ {p} : ClientOf[q] = ClientOf[p] /\ proc[q].row = proc[p].row}
Blocked(p) == \/ \E q \in Twins(p) : InTransfer(q, proc[p].row)
              \/ proc[p].row \in bundle[ClientOf[p]]
HandsBack(p) == handedBack' = IF Twins(p) = {} THEN handedBack ELSE handedBack \cup {proc[p].row}

Begin(p) ==
  /\ proc[p].pc = "lock" /\ ~Blocked(p)
  /\ proc' = [proc EXCEPT ![p].pc = "transfer", ![p].reporting = TRUE]
  /\ UNCHANGED <<Remote, bundle, flight, Counts>>

Refused(p) ==
  LET r == proc[p].row IN
  /\ proc[p].pc = "lock"
  /\ \/ /\ Released(r, ClientOf[p])
        /\ HandsBack(p)
        /\ UNCHANGED <<faults, shaken>>
     \/ Lost(r) /\ UNCHANGED handedBack
  /\ Ends(p)
  /\ UNCHANGED <<bundle, flight, runs>>

\* Ctrl-C before the transfer is reported as a pause.
Interrupted(p) ==
  LET r == proc[p].row
      c == ClientOf[p] IN
  /\ proc[p].pc = "lock"
  /\ IF Accepts(r, c, FALSE) THEN Claimed(r, c, "paused") ELSE UNCHANGED Remote
  /\ Ends(p)
  /\ UNCHANGED <<bundle, flight, Counts>>

-----------------------------------------------------------------------------
(* The reporter: one report in flight at a time; a refusal ends the reports, *)
(* an answer that does not come is tried again at the next tick.             *)
Tick(p) ==
  /\ proc[p].pc = "transfer" /\ proc[p].reporting /\ flight[p] = NoFlight
  /\ flight' = [flight EXCEPT ![p] = proc[p].row]
  /\ UNCHANGED <<Remote, bundle, proc, Counts>>

Arrive(p) ==
  LET r == flight[p]
      ok == Accepts(r, ClientOf[p], FALSE) IN
  /\ r # NoFlight
  /\ \/ /\ IF ok THEN Claimed(r, ClientOf[p], "archiving") ELSE UNCHANGED Remote
        /\ UNCHANGED <<faults, shaken>>
        /\ proc' = IF proc[p].row = r THEN [proc EXCEPT ![p].reporting = @ /\ ok] ELSE proc
     \/ Lost(r) /\ UNCHANGED proc
  /\ flight' = [flight EXCEPT ![p] = NoFlight]
  /\ UNCHANGED <<bundle, runs, handedBack>>

\* The transfer ends: stop() sets the event and joins the thread, so no report
\* is in flight, unless one takes longer than the join waits.
\* Mutated: the thread is told to stop and not waited for.
JoinedAtOnce(p) == TRUE
Joined(p) == flight[p] = NoFlight

StopReports(p) ==
  /\ proc[p].pc = "transfer"
  /\ \/ Joined(p) /\ UNCHANGED <<faults, shaken>>
     \/ ~Joined(p) /\ faults < MaxFaults /\ faults' = faults + 1
                   /\ shaken' = shaken \cup {proc[p].row}
  /\ proc' = [proc EXCEPT ![p].pc = "boundary", ![p].reporting = FALSE]
  /\ UNCHANGED <<Remote, bundle, flight, runs, handedBack>>

\* A pause and a registration are reported; a SystemExit (the source refuses the
\* download) hands the row back.
Boundary(p) ==
  LET r == proc[p].row
      c == ClientOf[p] IN
  /\ proc[p].pc = "boundary"
  /\ \E end \in {"paused", "done", "refused"} :
       /\ bundle' = IF end = "done" THEN [bundle EXCEPT ![c] = @ \cup {r}] ELSE bundle
       /\ \/ /\ IF end = "refused" THEN Released(r, c)
                ELSE IF Accepts(r, c, FALSE) THEN Claimed(r, c, end) ELSE UNCHANGED Remote
             /\ IF end = "refused" THEN HandsBack(p) ELSE UNCHANGED handedBack
             /\ UNCHANGED <<faults, shaken>>
          \/ Lost(r) /\ UNCHANGED handedBack
  /\ Ends(p)
  /\ UNCHANGED <<flight, runs>>

\* Any other exception (a download that failed for good, a full disk, a
\* registration that breaks off, before or after the record is written) leaves
\* archive as it was raised; cmd_archive does not catch it, _run prints it, and
\* the claim stays on the board as it was reported last.
Leave(p) ==
  LET r == proc[p].row
      c == ClientOf[p] IN
  /\ proc[p].pc \in {"lock", "boundary"}
  /\ claim' = IF claim[r].client = c THEN [claim EXCEPT ![r].left = TRUE] ELSE claim
  /\ \/ UNCHANGED bundle
     \/ proc[p].pc = "boundary" /\ bundle' = [bundle EXCEPT ![c] = @ \cup {r}]
  /\ Ends(p)
  /\ UNCHANGED <<status, flight, Counts>>

-----------------------------------------------------------------------------
Fault == faults < MaxFaults /\ faults' = faults + 1

Crash(p) ==
  /\ proc[p].row # 0 /\ Fault
  /\ shaken' = shaken \cup {proc[p].row}
  /\ Ends(p) /\ flight' = [flight EXCEPT ![p] = NoFlight]
  /\ UNCHANGED <<Remote, bundle, runs, handedBack>>

\* The board drops a claim it has not heard of for a day.
Expire(r) ==
  /\ claim[r] # NoClaim /\ Fault
  /\ claim' = [claim EXCEPT ![r] = NoClaim]
  /\ shaken' = shaken \cup {r}
  /\ UNCHANGED <<status, bundle, proc, flight, runs, handedBack>>

\* Somebody checks a row off, or wants it again, on the board's page.
CheckOff(r) ==
  /\ Fault
  /\ status' = [status EXCEPT ![r] = IF @ = "want" THEN "have" ELSE "want"]
  /\ UNCHANGED <<claim, bundle, proc, flight, runs, shaken, handedBack>>

Step(p) ==
  \/ PickNext(p) \/ Pick(p) \/ Begin(p) \/ Refused(p) \/ Interrupted(p) \/ Tick(p) \/ Arrive(p)
  \/ StopReports(p) \/ Boundary(p) \/ Leave(p) \/ Crash(p)
  \/ \E r \in Row : Name(p, r)

Next == (\E p \in Proc : Step(p)) \/ (\E r \in Row : Expire(r) \/ CheckOff(r))

Spec == Init /\ [][Next]_vars

-----------------------------------------------------------------------------
(* "A row another client holds a live claim on is skipped - that is how two  *)
(* people split one board without colliding" (docs/CATALOGS.md:229-231): two *)
(* clients fetch one row only if a claim on it expired or an answer got      *)
(* lost, or if a command of one of them gave the row back that another       *)
(* command of the same machine was working on.                               *)
NoCollision ==
  \A p, q \in Proc : \A r \in Row :
    ClientOf[p] # ClientOf[q] /\ InTransfer(p, r) /\ InTransfer(q, r)
      => r \in shaken \cup handedBack

(* "waiting for a report in flight so none lands after the boundary"         *)
(* (board.py:418-419): a row that is claimed as being archived is being      *)
(* archived by its holder, unless a call was lost or slow, a command died,   *)
(* or the command that reported it last ended by an error other than         *)
(* SystemExit, which gives nothing back (cli.py:765-777, archiver.py:641-644)*)
(* - the claim then waits for its expiry.                                    *)
NoDanglingClaim ==
  \A r \in Row : claim[r].state = "archiving"
    => \/ r \in shaken \/ claim[r].left
       \/ \E p \in Proc : ClientOf[p] = claim[r].client /\ proc[p].row = r
=============================================================================
