--------------------------- MODULE PipelineProofs ---------------------------
(***************************************************************************)
(* Proofs about Pipeline for any files, sizes and sibling copies, any      *)
(* number of streams, any budget and any number of faults.                 *)
(***************************************************************************)
EXTENDS Pipeline, FiniteSetTheorems, WellFoundedInduction, TLAPS

Elems(s)    == {s[i] : i \in DOMAIN s}
Distinct(s) == \A i, j \in DOMAIN s : s[i] = s[j] => i = j

\* The bounds of what is counted: a file that is to be fetched lacks a chunk, is
\* asked of the network twice at most, and only when no sibling is left to copy.
Counts ==
  /\ TypeOK
  /\ \A f \in File : /\ at[f] \in {"queued", "begin", "copy", "net"} => got[f] < Size[f]
                     /\ at[f] \in {"queued", "begin"} => net[f] < 2
                     /\ net[f] > 0 => cands[f] = 0
                     /\ at[f] = "copy" => cands[f] > 0

\* A file stands in a line once, and exactly if its place says so.
Lines ==
  /\ Distinct(queue) /\ Elems(queue) = {f \in File : at[f] = "queued"}
  /\ Distinct(digests) /\ Elems(digests) = {f \in File : at[f] = "digest"}

\* Where a file can be while its fetch or its digest has not been collected.
InFetch  == {"begin", "copy", "net"} \cup Fetched
InDigest == {"digest", "hash"} \cup Digested
Settled  == {"queued", "committed", "abandoned", "gone"}
Collected ==
  /\ fetching \cap hashing = {}
  /\ \A f \in File : /\ f \in fetching => at[f] \in InFetch
                     /\ f \in hashing => at[f] \in InDigest
                     /\ f \notin fetching \cup hashing => at[f] \in Settled

\* Every interrupt goes back to Ctrl-C.
Interrupted ==
  \/ pressed
  \/ /\ cleanStop # "interrupt" /\ pending # "interrupt"
     /\ \A f \in File : at[f] # "interrupt"

\* What was given up has made main stop, and complete bytes are given up at a
\* Ctrl-C only, unless main left by an exception.
Thrown == outcome \in {"abort", "full"}
GivenUp ==
  \A f \in File : /\ at[f] \in {"gone", "abandoned", "cancelled"} => Halted \/ Thrown
                  /\ at[f] \in {"abandoned", "cancelled"} => pressed \/ Thrown

\* Main leaves the loop by an exception, or with everything collected.
Drained == fetching = {} /\ hashing = {} /\ (queue = <<>> \/ Halted)
Left ==
  /\ main \in {"fill", "collect"} => outcome = "none"
  /\ main = "leave" => Thrown \/ (outcome = "none" /\ Drained)
  /\ main = "done" => Thrown \/ (Drained /\ (outcome = "complete" => ~Halted))
  /\ outcome = "complete" => main = "done"

PipelineInv == Counts /\ Lines /\ Collected /\ Interrupted /\ GivenUp /\ Left

-----------------------------------------------------------------------------
(* Sequences without repetition. *)

\* The first of a line leaves it.
LEMMA TakeFirst ==
  ASSUME NEW S, NEW s \in Seq(S), s # <<>>, Distinct(s)
  PROVE  /\ Head(s) \in S /\ Tail(s) \in Seq(S) /\ Distinct(Tail(s))
         /\ Head(s) \in Elems(s) /\ Elems(Tail(s)) = Elems(s) \ {Head(s)}
<1>1. /\ Len(s) \in Nat /\ Len(s) > 0 /\ DOMAIN s = 1..Len(s) /\ Head(s) = s[1]
      /\ Tail(s) \in Seq(S) /\ Len(Tail(s)) = Len(s) - 1 /\ DOMAIN Tail(s) = 1..(Len(s) - 1)
      /\ \A i \in 1..(Len(s) - 1) : Tail(s)[i] = s[i + 1]
  OBVIOUS
<1>2. Head(s) \in S /\ Head(s) \in Elems(s)
  BY <1>1 DEF Elems
<1>3. Distinct(Tail(s))
  BY <1>1 DEF Distinct
<1>4. ASSUME NEW x \in Elems(Tail(s)) PROVE x \in Elems(s) /\ x # Head(s)
  <2>1. PICK i \in 1..(Len(s) - 1) : x = s[i + 1]
    BY <1>1 DEF Elems
  <2> QED
    BY <1>1, <2>1 DEF Elems, Distinct
<1>5. ASSUME NEW x \in Elems(s), x # Head(s) PROVE x \in Elems(Tail(s))
  <2>1. PICK i \in 1..Len(s) : x = s[i]
    BY <1>1 DEF Elems
  <2>2. i - 1 \in 1..(Len(s) - 1) /\ Tail(s)[i - 1] = s[i]
    BY <1>1, <1>5, <2>1
  <2> QED
    BY <1>1, <2>1, <2>2 DEF Elems
<1> QED
  BY <1>1, <1>2, <1>3, <1>4, <1>5

\* A newcomer joins at the end.
LEMMA JoinLast ==
  ASSUME NEW S, NEW s \in Seq(S), NEW e \in S, Distinct(s), e \notin Elems(s)
  PROVE  /\ Append(s, e) \in Seq(S) /\ Distinct(Append(s, e))
         /\ Elems(Append(s, e)) = Elems(s) \cup {e}
<1>1. /\ Len(s) \in Nat /\ DOMAIN s = 1..Len(s)
      /\ Append(s, e) \in Seq(S) /\ DOMAIN Append(s, e) = 1..(Len(s) + 1)
      /\ Append(s, e)[Len(s) + 1] = e /\ \A i \in 1..Len(s) : Append(s, e)[i] = s[i]
  OBVIOUS
<1>2. \A i \in 1..Len(s) : s[i] # e
  BY <1>1 DEF Elems
<1>3. Distinct(Append(s, e))
  BY <1>1, <1>2 DEF Distinct
<1>4. Elems(Append(s, e)) \subseteq Elems(s) \cup {e}
  BY <1>1 DEF Elems
<1>5. Elems(s) \cup {e} \subseteq Elems(Append(s, e))
  BY <1>1 DEF Elems
<1> QED
  BY <1>1, <1>3, <1>4, <1>5

\* Or ahead of the rest.
LEMMA JoinFirst ==
  ASSUME NEW S, NEW s \in Seq(S), NEW e \in S, Distinct(s), e \notin Elems(s)
  PROVE  /\ <<e>> \o s \in Seq(S) /\ Distinct(<<e>> \o s)
         /\ Elems(<<e>> \o s) = Elems(s) \cup {e}
<1> DEFINE t == <<e>> \o s
<1>1. /\ Len(s) \in Nat /\ DOMAIN s = 1..Len(s)
      /\ t \in Seq(S) /\ DOMAIN t = 1..(Len(s) + 1)
      /\ t[1] = e /\ \A i \in 2..(Len(s) + 1) : t[i] = s[i - 1]
  OBVIOUS
<1> HIDE DEF t
<1>2. \A i \in 1..Len(s) : s[i] # e
  BY <1>1 DEF Elems
<1>3. Distinct(t)
  <2> SUFFICES ASSUME NEW i \in 1..(Len(s) + 1), NEW j \in 1..(Len(s) + 1), t[i] = t[j] PROVE i = j
    BY <1>1 DEF Distinct
  <2>1. i # 1 => i \in 2..(Len(s) + 1) /\ i - 1 \in 1..Len(s)
    BY <1>1
  <2>2. j # 1 => j \in 2..(Len(s) + 1) /\ j - 1 \in 1..Len(s)
    BY <1>1
  <2>3. CASE i = 1
    BY <2>2, <2>3, <1>1, <1>2
  <2>4. CASE j = 1
    BY <2>1, <2>4, <1>1, <1>2
  <2>5. CASE i # 1 /\ j # 1
    <3>1. s[i - 1] = s[j - 1]
      BY <2>1, <2>2, <2>5, <1>1
    <3>2. i - 1 = j - 1
      BY <2>1, <2>2, <2>5, <3>1, <1>1 DEF Distinct
    <3> QED
      BY <3>2
  <2> QED
    BY <2>3, <2>4, <2>5
<1>4. ASSUME NEW x \in Elems(t) PROVE x \in Elems(s) \cup {e}
  <2>1. PICK i \in 1..(Len(s) + 1) : x = t[i]
    BY <1>1 DEF Elems
  <2>2. CASE i = 1
    BY <1>1, <2>1, <2>2
  <2>3. CASE i # 1
    <3>1. i \in 2..(Len(s) + 1) /\ i - 1 \in 1..Len(s)
      BY <1>1, <2>3
    <3> QED
      BY <3>1, <1>1, <2>1 DEF Elems
  <2> QED
    BY <2>2, <2>3
<1>5. ASSUME NEW x \in Elems(s) PROVE x \in Elems(t)
  <2>1. PICK i \in 1..Len(s) : x = s[i]
    BY <1>1 DEF Elems
  <2>2. i + 1 \in 2..(Len(s) + 1) /\ i + 1 \in 1..(Len(s) + 1) /\ (i + 1) - 1 = i
    BY <1>1
  <2>3. t[i + 1] = s[i]
    BY <1>1, <2>2
  <2> QED
    BY <1>1, <2>1, <2>2, <2>3 DEF Elems
<1>6. e \in Elems(t)
  <2>1. 1 \in DOMAIN t
    BY <1>1
  <2> QED
    BY <1>1, <2>1 DEF Elems
<1> QED
  BY <1>1, <1>3, <1>4, <1>5, <1>6 DEF t

-----------------------------------------------------------------------------
(* What the steps have in common. *)

\* A file moves.
LEMMA MoveOne ==
  ASSUME at \in [File -> Places], NEW f \in File, NEW p \in Places, Put(f, p)
  PROVE  at' \in [File -> Places] /\ at'[f] = p /\ \A g \in File : g # f => at'[g] = at[g]
BY DEF Put

\* What a stop check raises.
LEMMA CheckRaises ==
  ASSUME NEW b, NEW stop, StopCheck(b, stop), full \in BOOLEAN
  PROVE  full' \in BOOLEAN /\ (stop = "interrupt" => pressed) /\ stop \in Stops \cup {"none"}
BY DEF StopCheck, Stops

\* Where no file need be fetched but those that were, the bounds stand.
Bounds == \A f \in File : /\ at[f] \in {"queued", "begin", "copy", "net"} => got[f] < Size[f]
                          /\ at[f] \in {"queued", "begin"} => net[f] < 2
                          /\ net[f] > 0 => cands[f] = 0
                          /\ at[f] = "copy" => cands[f] > 0

LEMMA BoundsStay ==
  ASSUME Bounds, UNCHANGED <<got, net, cands>>,
         \A f \in File : at'[f] = at[f] \/ at'[f] \notin {"queued", "begin", "copy", "net"}
                         \/ (at'[f] = "begin" /\ at[f] = "queued")
  PROVE  Bounds'
BY DEF Bounds

\* A worker moves its file on.
LEMMA WorkerMoves ==
  ASSUME Lines, Collected, Interrupted, GivenUp, Left, at \in [File -> Places],
         NEW f \in File, NEW p \in Places, at[f] \in Working, Put(f, p),
         at[f] # "hash" => p \in {"copy", "net"} \cup Fetched,
         at[f] = "hash" => p \in {"matched", "missed", "failed", "interrupt"},
         p = "interrupt" => pressed, pending' = "interrupt" => pressed \/ pending = "interrupt",
         UNCHANGED <<mains, digests, pressed>>
  PROVE  Lines' /\ Collected' /\ Interrupted' /\ GivenUp' /\ Left'
<1>1. /\ at' \in [File -> Places] /\ at'[f] = p /\ \A g \in File : g # f => at'[g] = at[g]
  BY MoveOne
<1>2. UNCHANGED <<queue, fetching, hashing, todo, main, cleanStop, firstError, outcome, digests, pressed>>
  BY DEF mains
<1>3. p \notin {"queued", "digest", "gone", "abandoned", "cancelled"} /\ at[f] \notin {"queued", "digest"}
  BY DEF Working, Fetched, Stops
<1>4. Lines'
  BY <1>1, <1>2, <1>3 DEF Lines
<1>5. Collected'
  <2>1. at[f] \notin Settled
    BY DEF Working, Settled
  <2>2. CASE at[f] = "hash"
    BY <2>1, <2>2, <1>1, <1>2 DEF Collected, InDigest, Digested, InFetch, Fetched, Settled
  <2>3. CASE at[f] # "hash"
    BY <2>1, <2>3, <1>1, <1>2 DEF Collected, InDigest, Digested, InFetch, Fetched, Settled, Working
  <2> QED
    BY <2>2, <2>3
<1>6. Interrupted'
  BY <1>1, <1>2 DEF Interrupted
<1>7. GivenUp'
  BY <1>1, <1>2, <1>3 DEF GivenUp, Halted, Thrown
<1>8. Left'
  BY <1>2 DEF Left, Drained, Halted, Thrown
<1> QED
  BY <1>4, <1>5, <1>6, <1>7, <1>8

\* A fault is counted.
LEMMA Counted ==
  ASSUME PipelineAssumption, TypeOK, Fault
  PROVE  faults' \in 0..MaxFaults
<1>1. faults \in 0..MaxFaults /\ faults < MaxFaults /\ faults' = faults + 1 /\ MaxFaults \in Nat
  BY DEF TypeOK, Fault, PipelineAssumption
<1> QED
  BY <1>1

-----------------------------------------------------------------------------
(* The fetch workers and the hash worker. *)

LEMMA CountsAre == Counts <=> TypeOK /\ Bounds
BY DEF Counts, Bounds

\* A fetch begins, or finds that it should not.
LEMMA BeginFetchKeeps ==
  ASSUME PipelineAssumption, PipelineInv, NEW f \in File, BeginFetch(f)
  PROVE  PipelineInv'
<1>1. TypeOK /\ Bounds /\ Lines /\ Collected /\ Interrupted /\ GivenUp /\ Left
  BY CountsAre DEF PipelineInv
<1>2. /\ at[f] = "begin" /\ UNCHANGED <<mains, taken>>
      /\ UNCHANGED <<digests, got, cands, pending, bytes, pressed, late, faults>>
  BY DEF BeginFetch, Worker
<1>3. PICK stop \in Stops \cup {"none"} :
        /\ StopCheck(bytes, stop)
        /\ Put(f, IF stop # "none" THEN stop ELSE IF cands[f] > 0 THEN "copy" ELSE "net")
        /\ net' = [net EXCEPT ![f] = IF stop = "none" /\ cands[f] = 0 THEN @ + 1 ELSE @]
  BY DEF BeginFetch
<1> DEFINE p == IF stop # "none" THEN stop ELSE IF cands[f] > 0 THEN "copy" ELSE "net"
<1>4. p \in {"copy", "net"} \cup Fetched /\ p \in Places /\ Put(f, p) /\ (p = "interrupt" => stop = "interrupt")
  BY <1>3 DEF Stops, Fetched, Places, Working
<1>5. /\ p = "copy" => stop = "none" /\ cands[f] > 0
      /\ p = "net" => stop = "none" /\ ~(cands[f] > 0)
  BY DEF Stops
<1> HIDE DEF p
<1>6. full' \in BOOLEAN /\ (stop = "interrupt" => pressed)
  BY <1>1, <1>3, CheckRaises DEF TypeOK
<1>7. /\ at' \in [File -> Places] /\ at'[f] = p /\ \A g \in File : g # f => at'[g] = at[g]
  BY <1>1, <1>4, MoveOne DEF TypeOK
<1>8. /\ net[f] \in 0..2 /\ net[f] < 2 /\ cands[f] \in Nat
      /\ net'[f] = (IF stop = "none" /\ cands[f] = 0 THEN net[f] + 1 ELSE net[f])
      /\ net' \in [File -> 0..2] /\ \A g \in File : g # f => net'[g] = net[g]
  BY <1>1, <1>2, <1>3 DEF TypeOK, Bounds
<1>9. TypeOK'
  BY <1>1, <1>2, <1>6, <1>7, <1>8 DEF TypeOK, mains
<1>10. Bounds'
  BY <1>1, <1>2, <1>4, <1>5, <1>7, <1>8 DEF Bounds, Fetched, Stops
<1>11. Lines' /\ Collected' /\ Interrupted' /\ GivenUp' /\ Left'
  BY <1>1, <1>2, <1>4, <1>6, WorkerMoves DEF TypeOK, Working
<1> QED
  BY <1>9, <1>10, <1>11, CountsAre DEF PipelineInv, Counts, Bounds

\* A copy lands.
LEMMA CopyKeeps ==
  ASSUME PipelineAssumption, PipelineInv, NEW f \in File, Copy(f)
  PROVE  PipelineInv'
<1>1. TypeOK /\ Bounds /\ Lines /\ Collected /\ Interrupted /\ GivenUp /\ Left
  BY CountsAre DEF PipelineInv
<1>2. /\ at[f] = "copy" /\ UNCHANGED <<mains, taken>> /\ Put(f, "landed")
      /\ got' = [got EXCEPT ![f] = Size[f]] /\ cands' = [cands EXCEPT ![f] = @ - 1]
      /\ UNCHANGED <<digests, net, faults>> /\ UNCHANGED <<pending, bytes, pressed, late, full>>
  BY DEF Copy, Worker, signals
<1>3. "landed" \in Places /\ "landed" \in Fetched
  BY DEF Places, Fetched
<1>4. /\ at' \in [File -> Places] /\ at'[f] = "landed" /\ \A g \in File : g # f => at'[g] = at[g]
  BY <1>1, <1>2, <1>3, MoveOne DEF TypeOK
<1>5. Size[f] \in Nat /\ cands[f] \in Nat /\ cands[f] > 0 /\ ~(net[f] > 0) /\ net[f] \in 0..2
  BY <1>1, <1>2 DEF TypeOK, Bounds, PipelineAssumption
<1>6. /\ got' \in [File -> Nat] /\ cands' \in [File -> Nat]
      /\ got'[f] = Size[f] /\ cands'[f] = cands[f] - 1
      /\ \A g \in File : g # f => got'[g] = got[g] /\ cands'[g] = cands[g]
  BY <1>1, <1>2, <1>5 DEF TypeOK
<1>7. TypeOK'
  BY <1>1, <1>2, <1>4, <1>5, <1>6 DEF TypeOK, mains
<1>8. Bounds'
  BY <1>1, <1>2, <1>4, <1>5, <1>6 DEF Bounds
<1>9. Lines' /\ Collected' /\ Interrupted' /\ GivenUp' /\ Left'
  BY <1>1, <1>2, <1>3, WorkerMoves DEF TypeOK, Working
<1> QED
  BY <1>7, <1>8, <1>9 DEF PipelineInv, Counts, Bounds

\* Or cannot be made: the next one, or the network, is tried.
LEMMA CopyFailsKeeps ==
  ASSUME PipelineAssumption, PipelineInv, NEW f \in File, CopyFails(f)
  PROVE  PipelineInv'
<1>1. TypeOK /\ Bounds /\ Lines /\ Collected /\ Interrupted /\ GivenUp /\ Left
  BY CountsAre DEF PipelineInv
<1>2. /\ at[f] = "copy" /\ UNCHANGED <<mains, taken>> /\ Fault
      /\ got' = [got EXCEPT ![f] = 0] /\ cands' = [cands EXCEPT ![f] = @ - 1]
      /\ UNCHANGED digests /\ UNCHANGED <<pending, bytes, pressed, late, full>>
  BY DEF CopyFails, Worker, signals
<1>3. /\ Size[f] \in Nat \ {0} /\ cands[f] \in Nat /\ cands[f] > 0 /\ net[f] = 0
      /\ faults' \in 0..MaxFaults
  <2>1. Size[f] \in Nat \ {0} /\ cands[f] \in Nat /\ net[f] \in 0..2
    BY <1>1 DEF TypeOK, PipelineAssumption
  <2>2. cands[f] > 0 /\ ~(net[f] > 0)
    BY <1>1, <1>2, <2>1 DEF Bounds
  <2>3. faults' \in 0..MaxFaults
    BY <1>1, <1>2, Counted
  <2> QED
    BY <2>1, <2>2, <2>3
<1>4. /\ got' \in [File -> Nat] /\ cands' \in [File -> Nat]
      /\ got'[f] = 0 /\ cands'[f] = cands[f] - 1
      /\ \A g \in File : g # f => got'[g] = got[g] /\ cands'[g] = cands[g]
  BY <1>1, <1>2, <1>3 DEF TypeOK
<1>5. PICK p \in {"copy", "net"} :
         /\ at' = [at EXCEPT ![f] = p]
         /\ net' = [net EXCEPT ![f] = IF p = "net" THEN 1 ELSE 0]
         /\ p = "copy" => cands[f] > 1
         /\ p = "net" => ~(cands[f] > 1)
  <2>1. CASE cands[f] > 1
    <3>1. at' = at /\ net' = net
      BY <2>1 DEF CopyFails
    <3>2. at' = [at EXCEPT ![f] = "copy"] /\ net' = [net EXCEPT ![f] = 0]
      BY <1>1, <1>2, <1>3, <3>1 DEF TypeOK
    <3> QED
      BY <2>1, <3>2
  <2>2. CASE ~(cands[f] > 1)
    <3>1. Put(f, "net") /\ net' = [net EXCEPT ![f] = net[f] + 1]
      BY <2>2 DEF CopyFails
    <3> QED
      BY <2>2, <3>1, <1>3 DEF Put
  <2> QED
    BY <2>1, <2>2
<1>6. p \in Places /\ Put(f, p)
  BY <1>5 DEF Places, Working, Put
<1>7. /\ at' \in [File -> Places] /\ at'[f] = p /\ \A g \in File : g # f => at'[g] = at[g]
  BY <1>1, <1>6, MoveOne DEF TypeOK
<1>8. /\ net' \in [File -> 0..2] /\ net'[f] = (IF p = "net" THEN 1 ELSE 0)
      /\ \A g \in File : g # f => net'[g] = net[g]
  BY <1>1, <1>5 DEF TypeOK
<1>9. TypeOK'
  BY <1>1, <1>2, <1>3, <1>4, <1>7, <1>8 DEF TypeOK, mains
<1>10. Bounds'
  BY <1>1, <1>3, <1>4, <1>5, <1>7, <1>8 DEF Bounds
<1>11. Lines' /\ Collected' /\ Interrupted' /\ GivenUp' /\ Left'
  BY <1>1, <1>2, <1>6, WorkerMoves DEF TypeOK, Working
<1> QED
  BY <1>9, <1>10, <1>11 DEF PipelineInv, Counts, Bounds

\* A chunk is reported: it lands, or a stop is raised with it.
LEMMA ChunkKeeps ==
  ASSUME PipelineAssumption, PipelineInv, NEW f \in File, Chunk(f)
  PROVE  PipelineInv'
<1>1. TypeOK /\ Bounds /\ Lines /\ Collected /\ Interrupted /\ GivenUp /\ Left
  BY CountsAre DEF PipelineInv
<1>2. /\ at[f] = "net" /\ UNCHANGED <<mains, taken>> /\ bytes' = bytes + 1
      /\ UNCHANGED <<digests, cands, net, pressed, late, faults>>
  BY DEF Chunk, Worker
<1>3. PICK stop \in Stops \cup {"none"}, n \in 0..1 :
        /\ IF Banked THEN stop = pending /\ UNCHANGED <<full, pending>>
           ELSE StopCheck(bytes', stop) /\ pending' = stop /\ n = 1
        /\ got' = [got EXCEPT ![f] = @ + n]
        /\ \/ stop # "none" /\ Put(f, stop)
           \/ /\ stop = "none" \/ ~Banked
              /\ IF got'[f] = Size[f] THEN Put(f, "landed") ELSE UNCHANGED at
  BY DEF Chunk
<1>4. /\ Size[f] \in Nat /\ got[f] \in Nat /\ got[f] < Size[f]
  <2>1. Size[f] \in Nat /\ got[f] \in Nat
    BY <1>1 DEF TypeOK, PipelineAssumption
  <2> QED
    BY <1>1, <1>2, <2>1 DEF Bounds
<1>5. /\ got' \in [File -> Nat] /\ got'[f] = got[f] + n /\ got'[f] <= Size[f]
      /\ \A g \in File : g # f => got'[g] = got[g]
  BY <1>1, <1>3, <1>4 DEF TypeOK
<1>6. /\ pending' \in Stops \cup {"none"} /\ full' \in BOOLEAN
      /\ stop = "interrupt" => pressed
      /\ pending' = "interrupt" => pressed \/ pending = "interrupt"
  <2>1. CASE Banked
    BY <1>1, <1>3, <2>1 DEF TypeOK, Interrupted
  <2>2. CASE ~Banked
    <3>1. StopCheck(bytes', stop) /\ pending' = stop
      BY <1>3, <2>2
    <3>2. full \in BOOLEAN
      BY <1>1 DEF TypeOK
    <3>3. full' \in BOOLEAN /\ (stop = "interrupt" => pressed)
      BY <3>1, <3>2, CheckRaises
    <3> QED
      BY <3>1, <3>3
  <2> QED
    BY <2>1, <2>2
<1>7. PICK p \in {"net", "landed"} \cup Stops :
         /\ Put(f, p)
         /\ p = "net" => got'[f] < Size[f]
         /\ p \in Stops => p = stop
  <2>1. CASE stop # "none" /\ Put(f, stop)
    BY <2>1 DEF Stops
  <2>2. CASE got'[f] = Size[f] /\ Put(f, "landed")
    BY <2>2 DEF Stops
  <2>3. CASE got'[f] # Size[f] /\ UNCHANGED at
    <3>1. Put(f, "net")
      BY <1>1, <1>2, <2>3 DEF Put, TypeOK
    <3>2. got'[f] < Size[f]
      BY <1>4, <1>5, <2>3
    <3> QED
      BY <3>1, <3>2 DEF Stops
  <2> QED
    BY <1>3, <2>1, <2>2, <2>3
<1>8. p \in Places /\ p \in {"copy", "net"} \cup Fetched
  BY <1>7 DEF Places, Working, Fetched, Stops
<1>9. /\ at' \in [File -> Places] /\ at'[f] = p /\ \A g \in File : g # f => at'[g] = at[g]
  BY <1>1, <1>7, <1>8, MoveOne DEF TypeOK
<1>10. TypeOK'
  <2>1. bytes' \in Nat
    BY <1>1, <1>2 DEF TypeOK
  <2>2. \A g \in File : got'[g] <= Size[g]
    BY <1>1, <1>5 DEF TypeOK
  <2> QED
    BY <1>1, <1>2, <1>5, <1>6, <1>9, <2>1, <2>2 DEF TypeOK, mains
<1>11. Bounds'
  BY <1>1, <1>2, <1>5, <1>7, <1>9 DEF Bounds, Stops
<1>12. Lines' /\ Collected' /\ Interrupted' /\ GivenUp' /\ Left'
  BY <1>1, <1>2, <1>6, <1>7, <1>8, WorkerMoves DEF TypeOK, Working, Stops
<1> QED
  BY <1>10, <1>11, <1>12 DEF PipelineInv, Counts, Bounds

\* A fetch gives up.
LEMMA FetchFailsKeeps ==
  ASSUME PipelineAssumption, PipelineInv, NEW f \in File, FetchFails(f)
  PROVE  PipelineInv'
<1>1. TypeOK /\ Bounds /\ Lines /\ Collected /\ Interrupted /\ GivenUp /\ Left
  BY CountsAre DEF PipelineInv
<1>2. /\ at[f] = "net" /\ UNCHANGED <<mains, taken>> /\ Fault
      /\ UNCHANGED <<digests, got, cands, net, pending, bytes, pressed, late>>
  BY DEF FetchFails, Worker
<1>3. pending \in Stops \cup {"none"} /\ full \in BOOLEAN /\ faults' \in 0..MaxFaults
  BY <1>1, <1>2, Counted DEF TypeOK
<1>4. full' \in BOOLEAN
  <2>1. full' = full \/ full' \in {full, TRUE}
    BY DEF FetchFails
  <2> QED
    BY <2>1, <1>3
<1>5. PICK p \in Stops \cup {"failed"} : Put(f, p) /\ (p = "interrupt" => pending = "interrupt")
  <2>1. \/ pending # "none" /\ Put(f, pending)
        \/ Put(f, "failed")
        \/ Put(f, "pause")
    BY DEF FetchFails
  <2>2. CASE pending # "none" /\ Put(f, pending)
    BY <1>3, <2>2
  <2>3. CASE Put(f, "failed")
    BY <2>3
  <2>4. CASE Put(f, "pause")
    BY <2>4 DEF Stops
  <2> QED
    BY <2>1, <2>2, <2>3, <2>4
<1>6. p \in Places /\ p \in {"copy", "net"} \cup Fetched /\ p \notin {"queued", "begin", "copy", "net"}
  BY <1>5 DEF Places, Working, Fetched, Stops
<1>7. /\ at' \in [File -> Places] /\ at'[f] = p /\ \A g \in File : g # f => at'[g] = at[g]
  BY <1>1, <1>5, <1>6, MoveOne DEF TypeOK
<1>8. p = "interrupt" => pressed
  BY <1>1, <1>5 DEF Interrupted
<1>9. TypeOK'
  BY <1>1, <1>2, <1>3, <1>4, <1>7 DEF TypeOK, mains
<1>10. Bounds'
  BY <1>1, <1>2, <1>6, <1>7, BoundsStay
<1>11. Lines' /\ Collected' /\ Interrupted' /\ GivenUp' /\ Left'
  BY <1>1, <1>2, <1>5, <1>6, <1>8, WorkerMoves DEF TypeOK, Working
<1> QED
  BY <1>9, <1>10, <1>11 DEF PipelineInv, Counts, Bounds

\* The first of the digests begins.
LEMMA HashBeginKeeps ==
  ASSUME PipelineAssumption, PipelineInv, NEW f \in File, HashBegin(f)
  PROVE  PipelineInv'
<1>1. TypeOK /\ Bounds /\ Lines /\ Collected /\ Interrupted /\ GivenUp /\ Left
  BY CountsAre DEF PipelineInv
<1>2. /\ at[f] = "digest" /\ f = Head(digests) /\ Put(f, "hash") /\ digests' = Tail(digests)
      /\ UNCHANGED <<queue, fetching, hashing, todo, main, cleanStop, firstError, outcome>>
      /\ UNCHANGED <<got, cands, net, taken, faults>> /\ UNCHANGED <<pending, bytes, pressed, late, full>>
  BY DEF HashBegin, Worker, mains, signals
<1>3. /\ at' \in [File -> Places] /\ at'[f] = "hash" /\ \A g \in File : g # f => at'[g] = at[g]
  BY <1>1, <1>2, MoveOne DEF TypeOK, Places, Working
<1>4. digests \in Seq(File) /\ digests # <<>> /\ Distinct(digests) /\ Elems(digests) = {g \in File : at[g] = "digest"}
  <2>1. digests \in Seq(File) /\ Distinct(digests) /\ Elems(digests) = {g \in File : at[g] = "digest"}
    BY <1>1 DEF TypeOK, Lines
  <2>2. f \in Elems(digests)
    BY <1>2, <2>1
  <2>3. PICK i \in DOMAIN digests : f = digests[i]
    BY <2>2 DEF Elems
  <2> QED
    BY <2>1, <2>3
<1>5. digests' \in Seq(File) /\ Distinct(digests') /\ Elems(digests') = Elems(digests) \ {f}
  BY <1>2, <1>4, TakeFirst
<1>6. TypeOK'
  BY <1>1, <1>2, <1>3, <1>5 DEF TypeOK
<1>7. Bounds'
  BY <1>1, <1>2, <1>3, BoundsStay
<1>8. Lines'
  <2>1. Distinct(queue') /\ Elems(queue') = {g \in File : at'[g] = "queued"}
    BY <1>1, <1>2, <1>3 DEF Lines
  <2>2. Elems(digests') = {g \in File : at'[g] = "digest"}
    BY <1>3, <1>4, <1>5
  <2> QED
    BY <1>5, <2>1, <2>2 DEF Lines
<1>9. Collected'
  BY <1>1, <1>2, <1>3 DEF Collected, InFetch, InDigest, Fetched, Digested, Settled
<1>10. Interrupted' /\ GivenUp'
  BY <1>1, <1>2, <1>3 DEF Interrupted, GivenUp, Halted, Thrown
<1>11. Left'
  BY <1>1, <1>2 DEF Left, Drained, Halted, Thrown
<1> QED
  BY <1>6, <1>7, <1>8, <1>9, <1>10, <1>11 DEF PipelineInv, Counts, Bounds

\* A digest ends: with a verdict, an error, or at a Ctrl-C.
LEMMA HashEndKeeps ==
  ASSUME PipelineAssumption, PipelineInv, NEW f \in File,
         HashEnd(f) \/ HashInterrupted(f) \/ HashFails(f)
  PROVE  PipelineInv'
<1>1. TypeOK /\ Bounds /\ Lines /\ Collected /\ Interrupted /\ GivenUp /\ Left
  BY CountsAre DEF PipelineInv
<1>2. /\ at[f] = "hash" /\ UNCHANGED <<mains, taken>> /\ UNCHANGED <<digests, got, cands, net>>
      /\ UNCHANGED <<pending, bytes, pressed, late, full>>
  BY DEF HashEnd, HashInterrupted, HashFails, Worker, signals
<1>3. PICK p \in {"matched", "missed", "failed", "interrupt"} : Put(f, p) /\ (p = "interrupt" => pressed)
  BY DEF HashEnd, HashInterrupted, HashFails
<1>4. faults' \in 0..MaxFaults
  BY <1>1, Counted DEF HashEnd, HashInterrupted, HashFails, TypeOK
<1>5. p \in Places /\ p \notin {"queued", "begin", "copy", "net"}
  BY <1>3 DEF Places, Digested
<1>6. /\ at' \in [File -> Places] /\ at'[f] = p /\ \A g \in File : g # f => at'[g] = at[g]
  BY <1>1, <1>3, <1>5, MoveOne DEF TypeOK
<1>7. TypeOK'
  BY <1>1, <1>2, <1>4, <1>6 DEF TypeOK, mains
<1>8. Bounds'
  BY <1>1, <1>2, <1>5, <1>6, BoundsStay
<1>9. Lines' /\ Collected' /\ Interrupted' /\ GivenUp' /\ Left'
  BY <1>1, <1>2, <1>3, <1>5, WorkerMoves DEF TypeOK, Working
<1> QED
  BY <1>7, <1>8, <1>9 DEF PipelineInv, Counts, Bounds

-----------------------------------------------------------------------------
(* The main thread. *)

\* Inside its loop main has no outcome yet.
LEMMA InLoop ==
  ASSUME Left, main \in {"fill", "collect"}
  PROVE  /\ outcome = "none"
         /\ main' \in {"fill", "collect"} /\ outcome' = outcome => Left'
BY DEF Left

\* A file that is done with is in no line and has no future.
LEMMA SettleOne ==
  ASSUME Bounds, Lines, Collected, at \in [File -> Places],
         NEW f \in File, NEW p \in {"gone", "abandoned", "committed"},
         at[f] \notin {"queued", "digest"}, Put(f, p),
         fetching' = fetching \ {f}, hashing' = hashing \ {f},
         UNCHANGED <<queue, digests, got, net, cands>>
  PROVE  /\ Bounds' /\ Lines' /\ Collected'
         /\ at' \in [File -> Places] /\ at'[f] = p /\ \A g \in File : g # f => at'[g] = at[g]
<1>1. /\ at' \in [File -> Places] /\ at'[f] = p /\ \A g \in File : g # f => at'[g] = at[g]
  BY MoveOne DEF Places
<1>2. p \notin {"queued", "begin", "copy", "net", "digest"} /\ p \in Settled
  BY DEF Settled
<1>3. Bounds'
  BY <1>1, <1>2, BoundsStay
<1>4. Lines'
  BY <1>1, <1>2 DEF Lines
<1>5. Collected'
  BY <1>1, <1>2 DEF Collected
<1> QED
  BY <1>1, <1>3, <1>4, <1>5

\* The first of the queue is fetched.
LEMMA StartFetchKeeps ==
  ASSUME PipelineAssumption, PipelineInv, StartFetch
  PROVE  PipelineInv'
<1>1. TypeOK /\ Bounds /\ Lines /\ Collected /\ Interrupted /\ GivenUp /\ Left
  BY CountsAre DEF PipelineInv
<1> DEFINE f == Head(queue)
<1>2. /\ main = "fill" /\ queue # <<>> /\ Put(f, "begin") /\ queue' = Tail(queue)
      /\ fetching' = fetching \cup {f}
      /\ UNCHANGED <<hashing, todo, main, cleanStop, firstError, outcome>>
      /\ UNCHANGED <<digests, got, cands, net, taken, faults>>
      /\ UNCHANGED <<pending, bytes, pressed, late, full>>
  BY DEF StartFetch, CanStart, signals
<1>3. queue \in Seq(File) /\ Distinct(queue) /\ Elems(queue) = {g \in File : at[g] = "queued"}
  BY <1>1 DEF TypeOK, Lines
<1>4. /\ f \in File /\ Tail(queue) \in Seq(File) /\ Distinct(Tail(queue))
      /\ f \in Elems(queue) /\ Elems(Tail(queue)) = Elems(queue) \ {f}
  BY <1>2, <1>3, TakeFirst
<1> HIDE DEF f
<1>5. at[f] = "queued"
  BY <1>3, <1>4
<1>6. /\ at' \in [File -> Places] /\ at'[f] = "begin" /\ \A g \in File : g # f => at'[g] = at[g]
  BY <1>1, <1>2, <1>4, MoveOne DEF TypeOK, Places, Working
<1>7. TypeOK'
  BY <1>1, <1>2, <1>4, <1>6 DEF TypeOK
<1>8. Bounds'
  BY <1>1, <1>2, <1>5, <1>6, BoundsStay
<1>9. Lines'
  <2>1. Distinct(queue') /\ Elems(queue') = {g \in File : at'[g] = "queued"}
    BY <1>2, <1>3, <1>4, <1>6
  <2>2. Distinct(digests') /\ Elems(digests') = {g \in File : at'[g] = "digest"}
    BY <1>1, <1>2, <1>5, <1>6 DEF Lines
  <2> QED
    BY <2>1, <2>2 DEF Lines
<1>10. Collected'
  BY <1>1, <1>2, <1>4, <1>5, <1>6 DEF Collected, InFetch, InDigest, Fetched, Digested, Settled
<1>11. Interrupted' /\ GivenUp'
  BY <1>1, <1>2, <1>5, <1>6 DEF Interrupted, GivenUp, Halted, Thrown
<1>12. Left'
  BY <1>1, <1>2, InLoop
<1> QED
  BY <1>7, <1>8, <1>9, <1>10, <1>11, <1>12 DEF PipelineInv, Counts, Bounds

\* Or main stops, because it would not fit.
LEMMA RefuseFetchKeeps ==
  ASSUME PipelineAssumption, PipelineInv, RefuseFetch
  PROVE  PipelineInv'
<1>1. TypeOK /\ Bounds /\ Lines /\ Collected /\ Interrupted /\ GivenUp /\ Left
  BY CountsAre DEF PipelineInv
<1>2. /\ main = "fill" /\ cleanStop = "none" /\ firstError = FALSE /\ cleanStop' = "pause" /\ full' = TRUE
      /\ UNCHANGED <<queue, fetching, hashing, todo, main, firstError, outcome>>
      /\ UNCHANGED <<at, digests, got, cands, net>>
      /\ UNCHANGED <<pending, bytes, pressed, late, taken, faults>>
  BY <1>1 DEF RefuseFetch, CanStart, Halted, Note, jobs, TypeOK
<1>3. TypeOK'
  BY <1>1, <1>2 DEF TypeOK, Stops
<1>4. Bounds' /\ Lines' /\ Collected'
  BY <1>1, <1>2 DEF Bounds, Lines, Collected
<1>5. Interrupted' /\ GivenUp'
  BY <1>1, <1>2 DEF Interrupted, GivenUp, Halted, Thrown
<1>6. Left'
  BY <1>1, <1>2, InLoop
<1> QED
  BY <1>3, <1>4, <1>5, <1>6 DEF PipelineInv, Counts, Bounds

\* Main waits for what is done by now.
LEMMA WaitKeeps ==
  ASSUME PipelineAssumption, PipelineInv, Wait
  PROVE  PipelineInv'
<1>1. TypeOK /\ Bounds /\ Lines /\ Collected /\ Interrupted /\ GivenUp /\ Left
  BY CountsAre DEF PipelineInv
<1>2. /\ main = "fill" /\ main' = "collect" /\ todo' = Done
      /\ UNCHANGED <<queue, fetching, hashing, cleanStop, firstError, outcome>>
      /\ UNCHANGED <<at, digests, got, cands, net>>
      /\ UNCHANGED <<pending, bytes, pressed, late, full, taken, faults>>
  BY DEF Wait, jobs, signals
<1>3. TypeOK'
  BY <1>1, <1>2 DEF TypeOK, Done
<1>4. Bounds' /\ Lines' /\ Collected'
  BY <1>1, <1>2 DEF Bounds, Lines, Collected
<1>5. Interrupted' /\ GivenUp'
  BY <1>1, <1>2 DEF Interrupted, GivenUp, Halted, Thrown
<1>6. Left'
  BY <1>1, <1>2, InLoop
<1> QED
  BY <1>3, <1>4, <1>5, <1>6 DEF PipelineInv, Counts, Bounds

\* Main leaves the loop with nothing to start and nothing to collect.
LEMMA LeaveLoopKeeps ==
  ASSUME PipelineAssumption, PipelineInv, LeaveLoop
  PROVE  PipelineInv'
<1>1. TypeOK /\ Bounds /\ Lines /\ Collected /\ Interrupted /\ GivenUp /\ Left
  BY CountsAre DEF PipelineInv
<1>2. /\ main = "fill" /\ main' = "leave" /\ ~CanStart /\ fetching = {} /\ hashing = {}
      /\ UNCHANGED <<queue, fetching, hashing, todo, cleanStop, firstError, outcome>>
      /\ UNCHANGED <<at, digests, got, cands, net>>
      /\ UNCHANGED <<pending, bytes, pressed, late, full, taken, faults>>
  BY DEF LeaveLoop, Idle, jobs, signals
<1>3. queue = <<>> \/ Halted
  <2>1. Cardinality(fetching) = 0 /\ Cardinality(hashing) = 0
    BY <1>2, FS_EmptySet
  <2> QED
    BY <1>2, <2>1 DEF CanStart, PipelineAssumption
<1>4. TypeOK'
  BY <1>1, <1>2 DEF TypeOK
<1>5. Bounds' /\ Lines' /\ Collected'
  BY <1>1, <1>2 DEF Bounds, Lines, Collected
<1>6. Interrupted' /\ GivenUp'
  BY <1>1, <1>2 DEF Interrupted, GivenUp, Halted, Thrown
<1>7. Left'
  BY <1>1, <1>2, <1>3 DEF Left, Drained, Halted, Thrown
<1> QED
  BY <1>4, <1>5, <1>6, <1>7 DEF PipelineInv, Counts, Bounds

\* Digests that have not begun are cancelled.
LEMMA CancelKeeps ==
  ASSUME Bounds, Lines, Collected, at \in [File -> Places], CancelDigests,
         UNCHANGED <<queue, fetching, hashing, got, net, cands>>
  PROVE  /\ Bounds' /\ Lines' /\ Collected'
         /\ at' \in [File -> Places] /\ digests' = <<>> /\ <<>> \in Seq(File)
         /\ \A g \in File : at'[g] = IF at[g] = "digest" THEN "cancelled" ELSE at[g]
<1>1. /\ at' = [g \in File |-> IF at[g] = "digest" THEN "cancelled" ELSE at[g]] /\ digests' = <<>>
  BY DEF CancelDigests
<1>2. at' \in [File -> Places]
  BY <1>1 DEF Places, Digested
<1>3. \A g \in File : at'[g] = IF at[g] = "digest" THEN "cancelled" ELSE at[g]
  BY <1>1
<1> HIDE DEF CancelDigests
<1>4. Bounds'
  BY <1>3, BoundsStay
<1>5. Distinct(<<>>) /\ Elems(<<>>) = {} /\ <<>> \in Seq(File)
  BY DEF Distinct, Elems
<1>6. Lines'
  <2>1. Distinct(queue') /\ Elems(queue') = {g \in File : at'[g] = "queued"}
    BY <1>3 DEF Lines
  <2>2. {g \in File : at'[g] = "digest"} = {}
    BY <1>3
  <2> QED
    BY <1>1, <1>5, <2>1, <2>2 DEF Lines
<1>7. Collected'
  BY <1>3 DEF Collected, InFetch, InDigest, Fetched, Digested, Settled, Stops
<1> QED
  BY <1>1, <1>2, <1>3, <1>4, <1>5, <1>6, <1>7

\* Everything was looked at.
LEMMA EndCollectKeeps ==
  ASSUME PipelineAssumption, PipelineInv, EndCollect
  PROVE  PipelineInv'
<1>1. TypeOK /\ Bounds /\ Lines /\ Collected /\ Interrupted /\ GivenUp /\ Left
  BY CountsAre DEF PipelineInv
<1>2. /\ main = "collect" /\ main' = "fill"
      /\ UNCHANGED <<queue, fetching, hashing, todo, cleanStop, firstError, outcome>>
      /\ UNCHANGED <<got, cands, net>> /\ UNCHANGED <<pending, bytes, pressed, late, full, taken, faults>>
      /\ IF Abandons THEN CancelDigests ELSE UNCHANGED <<at, digests>>
  BY DEF EndCollect, signals
<1>3. Left'
  BY <1>1, <1>2, InLoop
<1>4. CASE ~Abandons
  <2>1. UNCHANGED <<at, digests>>
    BY <1>2, <1>4
  <2>2. TypeOK'
    BY <1>1, <1>2, <2>1 DEF TypeOK
  <2>3. Bounds' /\ Lines' /\ Collected'
    BY <1>1, <1>2, <2>1 DEF Bounds, Lines, Collected
  <2>4. Interrupted' /\ GivenUp'
    BY <1>1, <1>2, <2>1 DEF Interrupted, GivenUp, Halted, Thrown
  <2> QED
    BY <1>3, <2>2, <2>3, <2>4 DEF PipelineInv, Counts, Bounds
<1>5. CASE Abandons
  <2>1. CancelDigests /\ cleanStop = "interrupt"
    BY <1>2, <1>5 DEF Abandons
  <2>2. /\ Bounds' /\ Lines' /\ Collected'
        /\ at' \in [File -> Places] /\ digests' \in Seq(File)
        /\ \A g \in File : at'[g] = IF at[g] = "digest" THEN "cancelled" ELSE at[g]
    BY <1>1, <1>2, <2>1, CancelKeeps DEF TypeOK
  <2>3. TypeOK'
    BY <1>1, <1>2, <2>2 DEF TypeOK
  <2>4. pressed
    BY <1>1, <2>1 DEF Interrupted
  <2>5. Interrupted'
    BY <1>2, <2>4 DEF Interrupted
  <2>6. GivenUp'
    BY <1>1, <1>2, <2>1, <2>4 DEF GivenUp, Halted, Thrown
  <2> QED
    BY <1>3, <2>2, <2>3, <2>5, <2>6 DEF PipelineInv, Counts, Bounds
<1> QED
  BY <1>4, <1>5

\* The pools are shut down: only an exception leaves digests that have not begun.
LEMMA ShutdownKeeps ==
  ASSUME PipelineAssumption, PipelineInv, Shutdown
  PROVE  PipelineInv'
<1>1. TypeOK /\ Bounds /\ Lines /\ Collected /\ Interrupted /\ GivenUp /\ Left
  BY CountsAre DEF PipelineInv
<1>2. /\ main = "leave" /\ digests # <<>> /\ CancelDigests
      /\ UNCHANGED <<queue, fetching, hashing, todo, main, cleanStop, firstError, outcome>>
      /\ UNCHANGED <<got, cands, net>> /\ UNCHANGED <<pending, bytes, pressed, late, full, taken, faults>>
  BY DEF Shutdown, signals, mains
<1>3. /\ Bounds' /\ Lines' /\ Collected'
      /\ at' \in [File -> Places] /\ digests' \in Seq(File)
      /\ \A g \in File : at'[g] = IF at[g] = "digest" THEN "cancelled" ELSE at[g]
  BY <1>1, <1>2, CancelKeeps DEF TypeOK
<1>4. Thrown
  <2>1. digests \in Seq(File) /\ Elems(digests) = {g \in File : at[g] = "digest"}
    BY <1>1 DEF TypeOK, Lines
  <2>2. Head(digests) \in Elems(digests)
    BY <1>1, <1>2, <2>1, TakeFirst DEF Lines
  <2>3. PICK g \in File : at[g] = "digest"
    BY <2>1, <2>2
  <2>4. g \in hashing
    BY <1>1, <2>3 DEF Collected, InFetch, Fetched, Stops, Settled
  <2> QED
    BY <1>1, <1>2, <2>4 DEF Left, Drained
<1>5. TypeOK'
  BY <1>1, <1>2, <1>3 DEF TypeOK
<1>6. Interrupted'
  BY <1>1, <1>2, <1>3 DEF Interrupted
<1>7. GivenUp'
  BY <1>2, <1>4 DEF GivenUp, Thrown
<1>8. Left'
  BY <1>1, <1>2, <1>4 DEF Left, Thrown
<1> QED
  BY <1>3, <1>5, <1>6, <1>7, <1>8 DEF PipelineInv, Counts, Bounds

\* The pipeline is left with its verdict.
LEMMA LeaveKeeps ==
  ASSUME PipelineAssumption, PipelineInv, Leave
  PROVE  PipelineInv'
<1>1. TypeOK /\ Bounds /\ Lines /\ Collected /\ Interrupted /\ GivenUp /\ Left
  BY CountsAre DEF PipelineInv
<1>2. /\ main = "leave" /\ main' = "done" /\ outcome' = Verdict
      /\ UNCHANGED <<queue, fetching, hashing, todo, cleanStop, firstError>>
      /\ UNCHANGED <<at, digests, got, cands, net>>
      /\ UNCHANGED <<pending, bytes, pressed, late, full, taken, faults>>
  BY DEF Leave, signals, jobs
<1>3. /\ Thrown => outcome' = outcome
      /\ ~Thrown => outcome = "none" /\ Drained
      /\ outcome = "none" /\ outcome' = "complete" => ~Halted
      /\ outcome' \in {"none", "complete", "stop", "error", "abort", "full"}
      /\ outcome # "none" => Thrown
  BY <1>1, <1>2 DEF Verdict, Thrown, Left, Halted, TypeOK
<1>4. TypeOK'
  BY <1>1, <1>2, <1>3 DEF TypeOK
<1>5. Bounds' /\ Lines' /\ Collected'
  BY <1>1, <1>2 DEF Bounds, Lines, Collected
<1>6. Interrupted'
  BY <1>1, <1>2 DEF Interrupted
<1>7. GivenUp'
  BY <1>1, <1>2, <1>3 DEF GivenUp, Halted, Thrown
<1>8. Left'
  <2>1. Thrown => Thrown'
    BY <1>3 DEF Thrown
  <2>2. ~Thrown => Drained' /\ (outcome' = "complete" => ~Halted')
    BY <1>2, <1>3 DEF Drained, Halted
  <2> QED
    BY <1>2, <2>1, <2>2 DEF Left
<1> QED
  BY <1>4, <1>5, <1>6, <1>7, <1>8 DEF PipelineInv, Counts, Bounds

-----------------------------------------------------------------------------
(* What main does with a future that is done. *)

\* A fetched file goes behind the hash worker.
LEMMA CollectLandedKeeps ==
  ASSUME PipelineAssumption, PipelineInv, NEW f \in File, CollectLanded(f)
  PROVE  PipelineInv'
<1>1. TypeOK /\ Bounds /\ Lines /\ Collected /\ Interrupted /\ GivenUp /\ Left
  BY CountsAre DEF PipelineInv
<1>2. /\ main = "collect" /\ f \in fetching /\ at[f] = "landed" /\ Put(f, "digest")
      /\ todo' = todo \ {f} /\ fetching' = fetching \ {f} /\ hashing' = hashing \cup {f}
      /\ digests' = Append(digests, f)
      /\ UNCHANGED <<queue, main, cleanStop, firstError, outcome>> /\ UNCHANGED <<got, cands, net>>
      /\ UNCHANGED <<pending, bytes, pressed, late, full, taken, faults>>
  BY DEF CollectLanded, Take, signals
<1>3. /\ at' \in [File -> Places] /\ at'[f] = "digest" /\ \A g \in File : g # f => at'[g] = at[g]
  BY <1>1, <1>2, MoveOne DEF TypeOK, Places
<1>4. digests \in Seq(File) /\ Distinct(digests) /\ Elems(digests) = {g \in File : at[g] = "digest"}
  BY <1>1 DEF TypeOK, Lines
<1>5. f \notin Elems(digests)
  BY <1>2, <1>4
<1>6. digests' \in Seq(File) /\ Distinct(digests') /\ Elems(digests') = Elems(digests) \cup {f}
  BY <1>2, <1>4, <1>5, JoinLast
<1>7. TypeOK'
  BY <1>1, <1>2, <1>3, <1>6 DEF TypeOK
<1>8. Bounds'
  BY <1>1, <1>2, <1>3, BoundsStay
<1>9. Lines'
  <2>1. Distinct(queue') /\ Elems(queue') = {g \in File : at'[g] = "queued"}
    BY <1>1, <1>2, <1>3 DEF Lines
  <2>2. Elems(digests') = {g \in File : at'[g] = "digest"}
    BY <1>3, <1>4, <1>6
  <2> QED
    BY <1>6, <2>1, <2>2 DEF Lines
<1>10. Collected'
  BY <1>1, <1>2, <1>3 DEF Collected, InDigest
<1>11. Interrupted' /\ GivenUp'
  BY <1>1, <1>2, <1>3 DEF Interrupted, GivenUp, Halted, Thrown
<1>12. Left'
  BY <1>1, <1>2, InLoop
<1> QED
  BY <1>7, <1>8, <1>9, <1>10, <1>11, <1>12 DEF PipelineInv, Counts, Bounds

\* A stop that a future brings is noted.
LEMMA Noted ==
  ASSUME TypeOK, NEW stop \in Stops, Note(stop)
  PROVE  /\ cleanStop' \in Stops /\ (cleanStop' = "interrupt" => stop = "interrupt" \/ cleanStop = "interrupt")
         /\ cleanStop' # "none"
BY DEF TypeOK, Note, Stops

\* A future that stopped, or was cancelled, is given up.
LEMMA CollectStoppedKeeps ==
  ASSUME PipelineAssumption, PipelineInv, NEW f \in File, CollectStopped(f)
  PROVE  PipelineInv'
<1>1. TypeOK /\ Bounds /\ Lines /\ Collected /\ Interrupted /\ GivenUp /\ Left
  BY CountsAre DEF PipelineInv
<1>2. /\ main = "collect" /\ todo' = todo \ {f} /\ fetching' = fetching \ {f}
      /\ hashing' = hashing \ {f} /\ at[f] \in Stops \cup {"cancelled"}
      /\ UNCHANGED <<queue, main, firstError, outcome>> /\ UNCHANGED <<digests, got, cands, net>>
      /\ UNCHANGED <<pending, bytes, pressed, late, full, taken, faults>>
      /\ IF at[f] \in Stops THEN Note(at[f]) ELSE UNCHANGED cleanStop
  BY DEF CollectStopped, Take, signals
<1>3. PICK p \in {"gone", "abandoned"} : Put(f, p) /\ (p = "abandoned" => f \in hashing)
  BY DEF CollectStopped
<1>4. outcome = "none" /\ Left'
  BY <1>1, <1>2, InLoop
<1>5. /\ Bounds' /\ Lines' /\ Collected'
      /\ at' \in [File -> Places] /\ at'[f] = p /\ \A g \in File : g # f => at'[g] = at[g]
  <2>1. at[f] \notin {"queued", "digest"} /\ at \in [File -> Places]
    BY <1>1, <1>2 DEF Stops, TypeOK
  <2> QED
    BY <1>1, <1>2, <1>3, <2>1, SettleOne
<1>6. /\ cleanStop' \in Stops \cup {"none"} /\ Halted'
      /\ cleanStop' = "interrupt" => pressed
      /\ p = "abandoned" => pressed
  <2>1. CASE at[f] \in Stops
    <3>1. /\ cleanStop' \in Stops /\ cleanStop' # "none"
          /\ cleanStop' = "interrupt" => at[f] = "interrupt" \/ cleanStop = "interrupt"
      BY <1>1, <1>2, <2>1, Noted
    <3>2. p = "abandoned" => at[f] = "interrupt"
      BY <1>1, <1>3, <2>1 DEF Collected, InDigest, Digested, Stops
    <3> QED
      BY <1>1, <3>1, <3>2 DEF Interrupted, Halted
  <2>2. CASE at[f] \notin Stops
    <3>1. at[f] = "cancelled" /\ cleanStop' = cleanStop
      BY <1>2, <2>2
    <3>2. Halted /\ pressed
      BY <1>1, <1>4, <3>1 DEF GivenUp, Thrown
    <3> QED
      BY <1>1, <1>2, <3>1, <3>2 DEF Halted, TypeOK
  <2> QED
    BY <2>1, <2>2
<1>7. TypeOK'
  BY <1>1, <1>2, <1>5, <1>6 DEF TypeOK
<1>8. Interrupted'
  BY <1>1, <1>2, <1>3, <1>5, <1>6 DEF Interrupted
<1>9. GivenUp'
  BY <1>1, <1>2, <1>3, <1>4, <1>5, <1>6 DEF GivenUp, Thrown
<1> QED
  BY <1>4, <1>5, <1>7, <1>8, <1>9 DEF PipelineInv, Counts, Bounds

\* A future that failed is an error, and the streams are halted.
LEMMA CollectFailedKeeps ==
  ASSUME PipelineAssumption, PipelineInv, NEW f \in File, CollectFailed(f)
  PROVE  PipelineInv'
<1>1. TypeOK /\ Bounds /\ Lines /\ Collected /\ Interrupted /\ GivenUp /\ Left
  BY CountsAre DEF PipelineInv
<1>2. /\ main = "collect" /\ todo' = todo \ {f} /\ fetching' = fetching \ {f}
      /\ hashing' = hashing \ {f} /\ at[f] = "failed" /\ Put(f, "gone") /\ firstError' = TRUE
      /\ UNCHANGED <<queue, main, cleanStop, outcome>> /\ UNCHANGED <<digests, got, cands, net>>
      /\ UNCHANGED <<bytes, pressed, late, full, taken, faults>>
      /\ HaltStreams
  BY DEF CollectFailed, Take
<1>3. outcome = "none" /\ Left'
  BY <1>1, <1>2, InLoop
<1>4. /\ Bounds' /\ Lines' /\ Collected'
      /\ at' \in [File -> Places] /\ at'[f] = "gone" /\ \A g \in File : g # f => at'[g] = at[g]
  <2>1. at[f] \notin {"queued", "digest"} /\ at \in [File -> Places]
    BY <1>1, <1>2 DEF TypeOK
  <2> QED
    BY <1>1, <1>2, <2>1, SettleOne
<1>5. pending' \in Stops \cup {"none"} /\ (pending' = "interrupt" => pending = "interrupt")
  BY <1>1, <1>2 DEF HaltStreams, TypeOK, Stops
<1>6. TypeOK'
  BY <1>1, <1>2, <1>4, <1>5 DEF TypeOK
<1>7. Interrupted'
  BY <1>1, <1>2, <1>4, <1>5 DEF Interrupted
<1>8. GivenUp'
  BY <1>1, <1>2, <1>3, <1>4 DEF GivenUp, Halted, Thrown
<1> QED
  BY <1>3, <1>4, <1>6, <1>7, <1>8 DEF PipelineInv, Counts, Bounds

\* A digest that is final is recorded; the commit is a stop check of its own.
LEMMA CommitKeeps ==
  ASSUME PipelineAssumption, PipelineInv, NEW f \in File, Commit(f)
  PROVE  PipelineInv'
<1>1. TypeOK /\ Bounds /\ Lines /\ Collected /\ Interrupted /\ GivenUp /\ Left
  BY CountsAre DEF PipelineInv
<1>2. /\ main = "collect" /\ todo' = todo \ {f} /\ fetching' = fetching \ {f}
      /\ hashing' = hashing \ {f} /\ at[f] \in {"matched", "missed"} /\ Put(f, "committed")
      /\ UNCHANGED <<queue, main, firstError, outcome>> /\ UNCHANGED <<digests, got, cands, net>>
      /\ UNCHANGED <<pending, bytes, pressed, late, taken, faults>>
  BY DEF Commit, Take, Final
<1>3. PICK stop \in Stops \cup {"none"} :
         /\ StopCheck(bytes, stop)
         /\ IF stop = "none" THEN UNCHANGED cleanStop ELSE Note(stop)
  BY DEF Commit
<1>4. Left'
  BY <1>1, <1>2, InLoop
<1>5. /\ Bounds' /\ Lines' /\ Collected'
      /\ at' \in [File -> Places] /\ at'[f] = "committed" /\ \A g \in File : g # f => at'[g] = at[g]
  <2>1. at[f] \notin {"queued", "digest"} /\ at \in [File -> Places]
    BY <1>1, <1>2 DEF TypeOK
  <2> QED
    BY <1>1, <1>2, <2>1, SettleOne
<1>6. full' \in BOOLEAN /\ (stop = "interrupt" => pressed)
  <2>1. full \in BOOLEAN
    BY <1>1 DEF TypeOK
  <2> QED
    BY <1>3, <2>1, CheckRaises
<1>7. /\ cleanStop' \in Stops \cup {"none"} /\ (cleanStop # "none" => cleanStop' # "none")
      /\ cleanStop' = "interrupt" => pressed
  <2>1. CASE stop = "none"
    BY <1>1, <1>3, <2>1 DEF TypeOK, Interrupted
  <2>2. CASE stop # "none"
    <3>1. stop \in Stops /\ Note(stop)
      BY <1>3, <2>2
    <3>2. /\ cleanStop' \in Stops /\ cleanStop' # "none"
          /\ cleanStop' = "interrupt" => stop = "interrupt" \/ cleanStop = "interrupt"
      BY <1>1, <3>1, Noted
    <3> QED
      BY <1>1, <1>6, <3>2 DEF Interrupted
  <2> QED
    BY <2>1, <2>2
<1>8. TypeOK'
  BY <1>1, <1>2, <1>5, <1>6, <1>7 DEF TypeOK
<1>9. Interrupted'
  BY <1>1, <1>2, <1>5, <1>7 DEF Interrupted
<1>10. GivenUp'
  BY <1>1, <1>2, <1>5, <1>7 DEF GivenUp, Halted, Thrown
<1> QED
  BY <1>4, <1>5, <1>8, <1>9, <1>10 DEF PipelineInv, Counts, Bounds

\* Or cannot be, when the disk is too full for the ledger.
LEMMA CommitFailsKeeps ==
  ASSUME PipelineAssumption, PipelineInv, NEW f \in File, CommitFails(f)
  PROVE  PipelineInv'
<1>1. TypeOK /\ Bounds /\ Lines /\ Collected /\ Interrupted /\ GivenUp /\ Left
  BY CountsAre DEF PipelineInv
<1>2. /\ main = "collect" /\ todo' = todo \ {f} /\ fetching' = fetching \ {f}
      /\ hashing' = hashing \ {f} /\ at[f] \in {"matched", "missed"} /\ Put(f, "gone")
      /\ full' = TRUE /\ main' = "leave" /\ outcome' = "full"
      /\ UNCHANGED <<queue, cleanStop, firstError>> /\ UNCHANGED <<digests, got, cands, net>>
      /\ UNCHANGED <<bytes, pressed, late, taken>>
      /\ HaltStreams /\ Fault
  BY DEF CommitFails, Take, Final
<1>3. /\ Bounds' /\ Lines' /\ Collected'
      /\ at' \in [File -> Places] /\ at'[f] = "gone" /\ \A g \in File : g # f => at'[g] = at[g]
  <2>1. at[f] \notin {"queued", "digest"} /\ at \in [File -> Places]
    BY <1>1, <1>2 DEF TypeOK
  <2> QED
    BY <1>1, <1>2, <2>1, SettleOne
<1>4. /\ pending' \in Stops \cup {"none"} /\ (pending' = "interrupt" => pending = "interrupt")
      /\ faults' \in 0..MaxFaults
  BY <1>1, <1>2, Counted DEF HaltStreams, TypeOK, Stops
<1>5. TypeOK'
  BY <1>1, <1>2, <1>3, <1>4 DEF TypeOK
<1>6. Interrupted'
  BY <1>1, <1>2, <1>3, <1>4 DEF Interrupted
<1>7. GivenUp' /\ Left'
  BY <1>2 DEF GivenUp, Left, Thrown
<1> QED
  BY <1>3, <1>5, <1>6, <1>7 DEF PipelineInv, Counts, Bounds

\* The bytes are discarded, and the file goes ahead of the rest.
LEMMA GoAroundKeeps ==
  ASSUME PipelineAssumption, PipelineInv, NEW f \in File, GoAround(f)
  PROVE  PipelineInv'
<1>1. TypeOK /\ Bounds /\ Lines /\ Collected /\ Interrupted /\ GivenUp /\ Left
  BY CountsAre DEF PipelineInv
<1>2. /\ main = "collect" /\ f \in hashing /\ at[f] = "missed" /\ net[f] # 2 /\ Put(f, "queued")
      /\ todo' = todo \ {f} /\ fetching' = fetching \ {f} /\ hashing' = hashing \ {f}
      /\ queue' = <<f>> \o queue /\ got' = [got EXCEPT ![f] = 0]
      /\ UNCHANGED <<main, cleanStop, firstError, outcome>> /\ UNCHANGED <<digests, cands, net>>
      /\ UNCHANGED <<pending, bytes, pressed, late, full, taken, faults>>
  BY DEF GoAround, Take, Final, Again, Discard, signals
<1>3. /\ at' \in [File -> Places] /\ at'[f] = "queued" /\ \A g \in File : g # f => at'[g] = at[g]
  BY <1>1, <1>2, MoveOne DEF TypeOK, Places
<1>4. queue \in Seq(File) /\ Distinct(queue) /\ Elems(queue) = {g \in File : at[g] = "queued"}
  BY <1>1 DEF TypeOK, Lines
<1>5. f \notin Elems(queue)
  BY <1>2, <1>4
<1>6. queue' \in Seq(File) /\ Distinct(queue') /\ Elems(queue') = Elems(queue) \cup {f}
  BY <1>2, <1>4, <1>5, JoinFirst
<1>7. /\ Size[f] \in Nat \ {0} /\ net[f] < 2
      /\ got' \in [File -> Nat] /\ got'[f] = 0 /\ \A g \in File : g # f => got'[g] = got[g]
  <2>1. Size[f] \in Nat \ {0}
    BY DEF PipelineAssumption
  <2>2. net[f] \in 0..2
    BY <1>1 DEF TypeOK
  <2>3. net[f] < 2
    BY <1>2, <2>2
  <2>4. got' \in [File -> Nat] /\ got'[f] = 0 /\ \A g \in File : g # f => got'[g] = got[g]
    BY <1>1, <1>2 DEF TypeOK
  <2> QED
    BY <2>1, <2>3, <2>4
<1>8. TypeOK'
  <2>1. \A g \in File : got'[g] <= Size[g]
    <3>1. 0 <= Size[f]
      BY <1>7
    <3> QED
      BY <1>1, <1>7, <3>1 DEF TypeOK
  <2> QED
    BY <1>1, <1>2, <1>3, <1>6, <1>7, <2>1 DEF TypeOK
<1>9. Bounds'
  BY <1>1, <1>2, <1>3, <1>7 DEF Bounds
<1>10. Lines'
  <2>1. Distinct(digests') /\ Elems(digests') = {g \in File : at'[g] = "digest"}
    BY <1>1, <1>2, <1>3 DEF Lines
  <2>2. Elems(queue') = {g \in File : at'[g] = "queued"}
    BY <1>3, <1>4, <1>6
  <2> QED
    BY <1>6, <2>1, <2>2 DEF Lines
<1>11. Collected'
  BY <1>1, <1>2, <1>3 DEF Collected, Settled
<1>12. Interrupted' /\ GivenUp'
  BY <1>1, <1>2, <1>3 DEF Interrupted, GivenUp, Halted, Thrown
<1>13. Left'
  BY <1>1, <1>2, InLoop
<1> QED
  BY <1>8, <1>9, <1>10, <1>11, <1>12, <1>13 DEF PipelineInv, Counts, Bounds

-----------------------------------------------------------------------------
(* The world. *)

\* A second Ctrl-C takes main out of the loop.
LEMMA AbortKeeps ==
  ASSUME PipelineAssumption, PipelineInv, Abort
  PROVE  PipelineInv'
<1>1. TypeOK /\ Bounds /\ Lines /\ Collected /\ Interrupted /\ GivenUp /\ Left
  BY CountsAre DEF PipelineInv
<1>2. /\ pressed /\ main' = "leave" /\ outcome' = "abort" /\ HaltStreams /\ Fault
      /\ UNCHANGED <<queue, fetching, hashing, todo, cleanStop, firstError>>
      /\ UNCHANGED <<at, digests, got, cands, net>>
      /\ UNCHANGED <<bytes, pressed, late, full, taken>>
  BY DEF Abort, jobs
<1>3. pending' \in Stops \cup {"none"} /\ faults' \in 0..MaxFaults
  BY <1>1, <1>2, Counted DEF HaltStreams, TypeOK, Stops
<1>4. TypeOK'
  BY <1>1, <1>2, <1>3 DEF TypeOK
<1>5. Bounds' /\ Lines' /\ Collected'
  BY <1>1, <1>2 DEF Bounds, Lines, Collected
<1>6. Interrupted' /\ GivenUp' /\ Left'
  BY <1>2 DEF Interrupted, GivenUp, Left, Thrown
<1> QED
  BY <1>4, <1>5, <1>6 DEF PipelineInv, Counts, Bounds

\* The first Ctrl-C, the deadline, another program.
LEMMA WorldKeeps ==
  ASSUME PipelineAssumption, PipelineInv, Press \/ Deadline \/ Neighbour
  PROVE  PipelineInv'
<1>1. TypeOK /\ Bounds /\ Lines /\ Collected /\ Interrupted /\ GivenUp /\ Left
  BY CountsAre DEF PipelineInv
<1>2. /\ UNCHANGED <<queue, fetching, hashing, todo, main, cleanStop, firstError, outcome>>
      /\ UNCHANGED <<at, digests, got, cands, net>>
      /\ UNCHANGED <<pending, bytes, full>> /\ Fault
      /\ pressed' = pressed \/ pressed' = TRUE
      /\ late' = late \/ late' = TRUE
      /\ taken' = taken \/ taken' = taken + 1
  BY DEF Press, Deadline, Neighbour, mains, jobs, signals
<1>3. pressed => pressed'
  BY <1>2
<1>4. TypeOK'
  <2>1. faults' \in 0..MaxFaults
    BY <1>1, <1>2, Counted
  <2>2. pressed' \in BOOLEAN /\ late' \in BOOLEAN
    BY <1>1, <1>2 DEF TypeOK
  <2>3. taken' \in Nat
    BY <1>1, <1>2 DEF TypeOK
  <2> QED
    BY <1>1, <1>2, <2>1, <2>2, <2>3 DEF TypeOK
<1>5. Bounds' /\ Lines' /\ Collected'
  BY <1>1, <1>2 DEF Bounds, Lines, Collected
<1>6. Interrupted'
  BY <1>1, <1>2, <1>3 DEF Interrupted
<1>7. GivenUp'
  BY <1>1, <1>2, <1>3 DEF GivenUp, Halted, Thrown
<1>8. Left'
  BY <1>1, <1>2 DEF Left, Drained, Halted, Thrown
<1> QED
  BY <1>4, <1>5, <1>6, <1>7, <1>8 DEF PipelineInv, Counts, Bounds

-----------------------------------------------------------------------------
(* The theorems. *)

\* The invariant holds before the first fetch.
LEMMA InitHolds ==
  ASSUME PipelineAssumption, Init
  PROVE  PipelineInv
<1>1. /\ queue = Order /\ fetching = {} /\ hashing = {} /\ todo = {} /\ main = "fill"
      /\ cleanStop = "none" /\ firstError = FALSE /\ outcome = "none"
      /\ at = [f \in File |-> "queued"] /\ digests = <<>>
      /\ got = [f \in File |-> 0] /\ cands = Copies /\ net = [f \in File |-> 0]
      /\ pending = "none" /\ bytes = 0 /\ pressed = FALSE /\ late = FALSE /\ full = FALSE
      /\ taken = 0 /\ faults = 0
  BY DEF Init
<1>2. /\ \A f \in File : at[f] = "queued" /\ got[f] = 0 /\ net[f] = 0 /\ Size[f] \in Nat \ {0}
      /\ Order \in Seq(File) /\ Elems(Order) = File /\ Distinct(Order)
      /\ Copies \in [File -> Nat] /\ MaxFaults \in Nat
  BY <1>1 DEF PipelineAssumption, Elems, Distinct
<1>3. at \in [File -> Places] /\ got \in [File -> Nat] /\ net \in [File -> 0..2] /\ digests \in Seq(File)
  BY <1>1 DEF Places
<1>4. TypeOK
  <2>1. \A f \in File : got[f] <= Size[f]
    BY <1>2
  <2>2. 0 \in 0..MaxFaults
    BY <1>2
  <2> QED
    BY <1>1, <1>2, <1>3, <2>1, <2>2 DEF TypeOK
<1>5. Bounds
  BY <1>2 DEF Bounds
<1>6. Lines
  <2>1. Distinct(digests) /\ Elems(digests) = {}
    BY <1>1 DEF Distinct, Elems
  <2> QED
    BY <1>1, <1>2, <2>1 DEF Lines
<1>7. Collected /\ Interrupted /\ GivenUp
  BY <1>1, <1>2 DEF Collected, Settled, Interrupted, GivenUp
<1>8. Left
  BY <1>1 DEF Left
<1> QED
  BY <1>4, <1>5, <1>6, <1>7, <1>8 DEF PipelineInv, Counts, Bounds

\* Every step keeps it.
LEMMA StepKeeps ==
  ASSUME PipelineAssumption, PipelineInv, [Next]_vars
  PROVE  PipelineInv'
<1>1. CASE UNCHANGED vars
  <2>1. /\ UNCHANGED <<queue, fetching, hashing, todo, main, cleanStop, firstError, outcome>>
        /\ UNCHANGED <<at, digests, got, cands, net>>
        /\ UNCHANGED <<pending, bytes, pressed, late, full, taken, faults>>
    BY <1>1 DEF vars, mains, jobs, signals
  <2>2. TypeOK' /\ Bounds'
    BY <2>1, CountsAre DEF PipelineInv, TypeOK, Bounds
  <2>3. Lines' /\ Collected'
    BY <2>1 DEF PipelineInv, Lines, Collected
  <2>4. Interrupted' /\ GivenUp'
    BY <2>1 DEF PipelineInv, Interrupted, GivenUp, Halted, Thrown
  <2>5. Left'
    BY <2>1 DEF PipelineInv, Left, Drained, Halted, Thrown
  <2> QED
    BY <2>2, <2>3, <2>4, <2>5 DEF PipelineInv, Counts, Bounds
<1>2. CASE Main
  <2>1. CASE \E f \in File : \/ CollectLanded(f) \/ CollectStopped(f) \/ CollectFailed(f)
                             \/ Commit(f) \/ GoAround(f)
    BY <2>1, CollectLandedKeeps, CollectStoppedKeeps, CollectFailedKeeps, CommitKeeps, GoAroundKeeps
  <2> QED
    BY <1>2, <2>1, StartFetchKeeps, RefuseFetchKeeps, WaitKeeps, LeaveLoopKeeps, EndCollectKeeps,
       ShutdownKeeps, LeaveKeeps DEF Main
<1>3. CASE World
  BY <1>3, WorldKeeps, AbortKeeps, CommitFailsKeeps, CopyFailsKeeps, FetchFailsKeeps, HashEndKeeps
     DEF World
<1>4. CASE \E f \in File : Work(f)
  BY <1>4, BeginFetchKeeps, CopyKeeps, ChunkKeeps, HashBeginKeeps, HashEndKeeps DEF Work
<1> QED
  BY <1>1, <1>2, <1>3, <1>4 DEF Next

\* PipelineInv is an invariant of the pipeline.
LEMMA Inductive ==
  ASSUME PipelineAssumption
  PROVE  Spec => []PipelineInv
<1>1. Init => PipelineInv
  BY InitHolds
<1>2. PipelineInv /\ [Next]_vars => PipelineInv'
  BY StepKeeps
<1> QED
  BY <1>1, <1>2, PTL DEF Spec

\* Every counter, queue and stop keeps its type: no file receives more chunks
\* than it has, or is asked of the network a third time.
THEOREM PipelineTyped ==
  ASSUME PipelineAssumption
  PROVE  Spec => []TypeOK
<1>1. PipelineInv => TypeOK
  BY DEF PipelineInv, Counts
<1> QED
  BY <1>1, Inductive, PTL

\* A session that reports nothing amiss has committed every file: none is lost
\* on its way from the queue through a worker and the digests, not even one
\* that went around the loop again.
THEOREM CompleteCommitsAll ==
  ASSUME PipelineAssumption
  PROVE  Spec => []CompleteMeansAll
<1>1. PipelineInv => CompleteMeansAll
  <2> SUFFICES ASSUME PipelineInv, outcome = "complete", NEW f \in File
               PROVE  at[f] = "committed"
    BY DEF CompleteMeansAll, Committed
  <2>1. TypeOK /\ Lines /\ Collected /\ GivenUp /\ Left
    BY DEF PipelineInv, Counts
  <2>2. ~Thrown /\ Drained /\ ~Halted
    BY <2>1 DEF Left, Thrown
  <2>3. queue = <<>> /\ f \notin fetching \cup hashing
    BY <2>2 DEF Drained
  <2>4. Elems(<<>>) = {}
    BY DEF Elems
  <2>5. at[f] \in Settled /\ at[f] # "queued"
    BY <2>1, <2>3, <2>4 DEF Collected, Lines
  <2> QED
    BY <2>1, <2>2, <2>5 DEF GivenUp, Settled
<1> QED
  BY <1>1, Inductive, PTL

\* Only a Ctrl-C, or a ledger that cannot be written, leaves a complete file
\* without its record: a budget, a deadline, a full disk and another file's
\* error all let the digests that stand in line finish.
THEOREM CompleteFilesGetRecords ==
  ASSUME PipelineAssumption
  PROVE  Spec => []DigestsFinish
<1>1. PipelineInv => DigestsFinish
  <2> SUFFICES ASSUME PipelineInv, main = "done", outcome \notin {"abort", "full"}, ~pressed,
                      NEW f \in File, at[f] \in Landed
               PROVE  at[f] = "committed"
    BY DEF DigestsFinish
  <2>1. Collected /\ GivenUp /\ Left
    BY DEF PipelineInv
  <2>2. ~Thrown /\ Drained
    BY <2>1 DEF Left, Thrown
  <2>3. at[f] \in Settled
    BY <2>1, <2>2 DEF Collected, Drained
  <2> QED
    BY <2>1, <2>2, <2>3 DEF GivenUp, Settled, Landed
<1> QED
  BY <1>1, Inductive, PTL

-----------------------------------------------------------------------------
(* Sums over finite sets. *)

\* What holds of the empty set, and of a set whenever it holds of that set
\* without one of its members, holds of every finite set.
LEMMA FiniteUp ==
  ASSUME NEW S, IsFiniteSet(S), NEW Good, {} \in Good,
         \A T \in SUBSET S : (\A x \in T : T \ {x} \in Good) => T \in Good
  PROVE  S \in Good
<1> DEFINE R   == {ss \in Nat \X Nat : ss[1] < ss[2]}
           Bad == {T \in SUBSET S : T \notin Good}
           N   == {Cardinality(T) : T \in Bad}
<1>1. IsWellFoundedOn(R, Nat)
  BY NatLessThanWellFounded, Zenon DEF OpToRel
<1>2. \A m, n \in Nat : m < n => <<m, n>> \in R
  OBVIOUS
<1>3. \A T \in SUBSET S : IsFiniteSet(T) /\ Cardinality(T) \in Nat
  BY FS_Subset, FS_CardinalityType
<1> HIDE DEF R
<1> SUFFICES ASSUME S \notin Good PROVE FALSE
  OBVIOUS
<1>4. N \subseteq Nat /\ N # {}
  BY <1>3
<1>5. PICK n \in N : \A m \in N : ~ (<<m, n>> \in R)
  BY <1>1, <1>4, WFMin
<1>6. PICK T \in Bad : n = Cardinality(T)
  BY <1>5
<1>7. ASSUME NEW x \in T PROVE T \ {x} \in Good
  <2>1. IsFiniteSet(T) /\ Cardinality(T \ {x}) = Cardinality(T) - 1
    BY <1>3, <1>6, FS_RemoveElement
  <2>2. Cardinality(T \ {x}) \in Nat /\ Cardinality(T) \in Nat
    BY <1>3, <1>6
  <2>3. Cardinality(T \ {x}) < n
    BY <1>6, <2>1, <2>2
  <2>4. Cardinality(T \ {x}) \notin N
    BY <1>2, <1>4, <1>5, <2>2, <2>3
  <2> QED
    BY <1>6, <2>4
<1> QED
  BY <1>6, <1>7

\* A sum that may be taken in any order.
Additive(F, g, S) ==
  /\ F \in [SUBSET S -> Nat] /\ F[{}] = 0
  /\ \A s \in SUBSET S : \A x \in s : F[s] = g[x] + F[s \ {x}]

\* There is one.
LEMMA SumExists ==
  ASSUME NEW S, IsFiniteSet(S), NEW g, \A x \in S : g[x] \in Nat
  PROVE  \E F : Additive(F, g, S)
<1> DEFINE Good == {T \in SUBSET S : \E F : Additive(F, g, T)}
<1>1. {} \in Good
  <2>1. Additive([s \in SUBSET {} |-> 0], g, {})
    BY DEF Additive
  <2> QED
    BY <2>1
<1>2. ASSUME NEW T \in SUBSET S, \A x \in T : T \ {x} \in Good PROVE T \in Good
  <2>1. CASE T = {}
    BY <1>1, <2>1
  <2>2. CASE T # {}
    <3>1. PICK x \in T : TRUE
      BY <2>2
    <3>2. T \ {x} \in Good
      BY <1>2
    <3>3. PICK E : Additive(E, g, T \ {x})
      BY <3>2
    <3> DEFINE F == [s \in SUBSET T |-> IF x \in s THEN g[x] + E[s \ {x}] ELSE E[s]]
    <3>4. /\ E \in [SUBSET (T \ {x}) -> Nat] /\ E[{}] = 0
          /\ \A s \in SUBSET (T \ {x}) : \A y \in s : E[s] = g[y] + E[s \ {y}]
      BY <3>3 DEF Additive
    <3>5. \A y \in T : g[y] \in Nat
      BY <1>2
    <3>6. ASSUME NEW s \in SUBSET T PROVE F[s] \in Nat
      <4>1. s \ {x} \in SUBSET (T \ {x}) /\ (x \notin s => s \in SUBSET (T \ {x}))
        OBVIOUS
      <4>2. g[x] \in Nat /\ E[s \ {x}] \in Nat /\ (x \notin s => E[s] \in Nat)
        BY <3>4, <3>5, <4>1
      <4> QED
        BY <4>2
    <3>7. F \in [SUBSET T -> Nat] /\ F[{}] = 0
      BY <3>4, <3>6
    <3>8. ASSUME NEW s \in SUBSET T, NEW y \in s PROVE F[s] = g[y] + F[s \ {y}]
      <4>1. CASE x \notin s
        BY <3>4, <4>1
      <4>2. CASE y = x
        BY <4>2
      <4>3. CASE x \in s /\ y # x
        <5>1. s \ {x} \in SUBSET (T \ {x}) /\ y \in s \ {x} /\ (s \ {y}) \ {x} = (s \ {x}) \ {y}
          BY <4>3
        <5>2. E[s \ {x}] = g[y] + E[(s \ {x}) \ {y}]
          BY <3>4, <5>1
        <5>3. F[s] = g[x] + E[s \ {x}] /\ F[s \ {y}] = g[x] + E[(s \ {x}) \ {y}]
          BY <4>3, <5>1
        <5>4. g[x] \in Nat /\ g[y] \in Nat /\ E[(s \ {x}) \ {y}] \in Nat
          BY <3>4, <3>5
        <5> HIDE DEF F
        <5> QED
          BY <5>2, <5>3, <5>4
      <4> QED
        BY <4>1, <4>2, <4>3
    <3> HIDE DEF F
    <3>9. Additive(F, g, T)
      BY <3>7, <3>8 DEF Additive
    <3> QED
      BY <3>9
  <2> QED
    BY <2>1, <2>2
<1> HIDE DEF Good
<1>3. S \in Good
  BY <1>1, <1>2, FiniteUp
<1> QED
  BY <1>3 DEF Good

\* It is the library's.
LEMMA SumIs ==
  ASSUME NEW S, IsFiniteSet(S), NEW g, NEW F, Additive(F, g, S)
  PROVE  SumFunctionOnSet(g, S) = F[S]
<1> DEFINE One(s)  == CHOOSE x \in s : TRUE
           Sums(h) == h = [s \in SUBSET S |-> IF s = {} THEN 0 ELSE g[One(s)] + h[s \ {One(s)}]]
           h       == CHOOSE h : Sums(h)
<1>1. SumFunctionOnSet(g, S) = h[S]
  BY DEF SumFunctionOnSet, FoldFunctionOnSet, MapThenFoldSet
<1>2. \A s \in SUBSET S : s # {} => One(s) \in s
  OBVIOUS
<1>3. /\ F \in [SUBSET S -> Nat] /\ F[{}] = 0
      /\ \A s \in SUBSET S : \A x \in s : F[s] = g[x] + F[s \ {x}]
  BY DEF Additive
<1> HIDE DEF One
<1>4. Sums(F)
  <2>1. \A s \in SUBSET S : F[s] = IF s = {} THEN 0 ELSE g[One(s)] + F[s \ {One(s)}]
    BY <1>2, <1>3
  <2> QED
    BY <1>3, <2>1
<1>5. Sums(h)
  BY <1>4
<1> HIDE DEF h
<1> DEFINE Good == {T \in SUBSET S : h[T] = F[T]}
<1>6. \A s \in SUBSET S : h[s] = IF s = {} THEN 0 ELSE g[One(s)] + h[s \ {One(s)}]
  BY <1>5
<1>7. {} \in Good
  BY <1>3, <1>6
<1>8. ASSUME NEW T \in SUBSET S, \A x \in T : T \ {x} \in Good PROVE T \in Good
  <2>1. CASE T = {}
    BY <1>7, <2>1
  <2>2. CASE T # {}
    <3>1. One(T) \in T /\ h[T] = g[One(T)] + h[T \ {One(T)}] /\ F[T] = g[One(T)] + F[T \ {One(T)}]
      BY <1>2, <1>3, <1>6, <2>2
    <3> QED
      BY <1>8, <3>1
  <2> QED
    BY <2>1, <2>2
<1> HIDE DEF Good
<1>9. S \in Good
  BY <1>7, <1>8, FiniteUp
<1> QED
  BY <1>1, <1>9 DEF Good

\* A sum over nothing, and one with a member set apart.
LEMMA SumStep ==
  ASSUME NEW S, IsFiniteSet(S), NEW g, \A x \in S : g[x] \in Nat
  PROVE  /\ SumFunctionOnSet(g, S) \in Nat
         /\ S = {} => SumFunctionOnSet(g, S) = 0
         /\ \A x \in S : SumFunctionOnSet(g, S) = g[x] + SumFunctionOnSet(g, S \ {x})
<1>1. PICK F : Additive(F, g, S)
  BY SumExists
<1>2. /\ F \in [SUBSET S -> Nat] /\ F[{}] = 0
      /\ \A s \in SUBSET S : \A x \in s : F[s] = g[x] + F[s \ {x}]
  BY <1>1 DEF Additive
<1>3. SumFunctionOnSet(g, S) = F[S]
  BY <1>1, SumIs
<1>4. ASSUME NEW x \in S PROVE SumFunctionOnSet(g, S \ {x}) = F[S \ {x}]
  <2> DEFINE T == S \ {x}
             E == [s \in SUBSET T |-> F[s]]
  <2>1. IsFiniteSet(T)
    BY FS_Subset
  <2>2. Additive(E, g, T)
    BY <1>2 DEF Additive
  <2>3. E[T] = F[T]
    OBVIOUS
  <2> HIDE DEF E
  <2> QED
    BY <2>1, <2>2, <2>3, SumIs
<1>5. S \in SUBSET S
  OBVIOUS
<1> QED
  BY <1>2, <1>3, <1>4, <1>5

\* A sum that is no more than two others, member by member, is no more than
\* the two together.
LEMMA SumBelow ==
  ASSUME NEW S, IsFiniteSet(S), NEW D, D \subseteq S, NEW h, NEW g, NEW n,
         \A x \in S : h[x] \in Nat /\ g[x] \in Nat, \A x \in D : n[x] \in Nat,
         \A x \in S : h[x] <= g[x] + (IF x \in D THEN n[x] ELSE 0)
  PROVE  SumFunctionOnSet(h, S) <= SumFunctionOnSet(g, S) + SumFunctionOnSet(n, D)
<1> DEFINE Good == {T \in SUBSET S :
      SumFunctionOnSet(h, T) <= SumFunctionOnSet(g, T) + SumFunctionOnSet(n, T \cap D)}
<1>1. ASSUME NEW T \in SUBSET S
      PROVE  /\ IsFiniteSet(T) /\ IsFiniteSet(T \cap D)
             /\ \A x \in T : h[x] \in Nat /\ g[x] \in Nat
             /\ \A x \in T \cap D : n[x] \in Nat
  BY FS_Subset
<1>2. {} \in Good
  <2>1. SumFunctionOnSet(h, {}) = 0 /\ SumFunctionOnSet(g, {}) = 0
    BY <1>1, SumStep
  <2>2. {} \cap D = {} /\ SumFunctionOnSet(n, {}) = 0
    BY <1>1, SumStep
  <2> QED
    BY <2>1, <2>2
<1>3. ASSUME NEW T \in SUBSET S, \A x \in T : T \ {x} \in Good PROVE T \in Good
  <2>1. CASE T = {}
    BY <1>2, <2>1
  <2>2. CASE T # {}
    <3>1. PICK x \in T : TRUE
      BY <2>2
    <3> DEFINE U == T \ {x}
    <3>2. /\ U \in SUBSET S
          /\ SumFunctionOnSet(h, U) <= SumFunctionOnSet(g, U) + SumFunctionOnSet(n, U \cap D)
      BY <1>3
    <3>3. /\ SumFunctionOnSet(h, T) = h[x] + SumFunctionOnSet(h, U)
          /\ SumFunctionOnSet(g, T) = g[x] + SumFunctionOnSet(g, U)
      BY <1>1, SumStep
    <3>4. /\ SumFunctionOnSet(h, U) \in Nat /\ SumFunctionOnSet(g, U) \in Nat
          /\ SumFunctionOnSet(n, U \cap D) \in Nat
      BY <1>1, <3>2, SumStep
    <3>5. SumFunctionOnSet(n, T \cap D) = (IF x \in D THEN n[x] ELSE 0) + SumFunctionOnSet(n, U \cap D)
      <4>1. CASE x \in D
        <5>1. x \in T \cap D /\ (T \cap D) \ {x} = U \cap D
          BY <4>1
        <5>2. SumFunctionOnSet(n, T \cap D) = n[x] + SumFunctionOnSet(n, (T \cap D) \ {x})
          BY <1>1, <5>1, SumStep
        <5> QED
          BY <4>1, <5>1, <5>2
      <4>2. CASE x \notin D
        <5>1. T \cap D = U \cap D
          BY <4>2
        <5> QED
          BY <3>4, <4>2, <5>1
      <4> QED
        BY <4>1, <4>2
    <3>6. /\ h[x] \in Nat /\ g[x] \in Nat /\ (x \in D => n[x] \in Nat)
          /\ h[x] <= g[x] + (IF x \in D THEN n[x] ELSE 0)
      OBVIOUS
    <3>7. PICK k \in Nat : k = IF x \in D THEN n[x] ELSE 0
      BY <3>6
    <3> HIDE DEF U
    <3>8. h[x] <= g[x] + k /\ SumFunctionOnSet(n, T \cap D) = k + SumFunctionOnSet(n, U \cap D)
      BY <3>5, <3>6, <3>7
    <3> QED
      BY <3>2, <3>3, <3>4, <3>6, <3>7, <3>8
  <2> QED
    BY <2>1, <2>2
<1> HIDE DEF Good
<1>4. S \in Good
  BY <1>2, <1>3, FiniteUp
<1>5. S \cap D = D
  OBVIOUS
<1> QED
  BY <1>4, <1>5 DEF Good

\* A sum of nothings.
LEMMA SumZero ==
  ASSUME NEW S, IsFiniteSet(S), NEW g, \A x \in S : g[x] = 0
  PROVE  SumFunctionOnSet(g, S) = 0
<1> DEFINE Good == {T \in SUBSET S : SumFunctionOnSet(g, T) = 0}
<1>1. \A T \in SUBSET S : IsFiniteSet(T) /\ \A x \in T : g[x] \in Nat
  BY FS_Subset
<1>2. {} \in Good
  BY <1>1, SumStep
<1>3. ASSUME NEW T \in SUBSET S, \A x \in T : T \ {x} \in Good PROVE T \in Good
  <2>1. CASE T = {}
    BY <1>2, <2>1
  <2>2. CASE T # {}
    <3>1. PICK x \in T : TRUE
      BY <2>2
    <3>2. SumFunctionOnSet(g, T) = g[x] + SumFunctionOnSet(g, T \ {x})
      BY <1>1, SumStep
    <3> QED
      BY <1>3, <3>2
  <2> QED
    BY <2>1, <2>2
<1> HIDE DEF Good
<1>4. S \in Good
  BY <1>2, <1>3, FiniteUp
<1> QED
  BY <1>4 DEF Good

-----------------------------------------------------------------------------
(* The floor. *)

NoSiblings == \A f \in File : Copies[f] = 0

\* What a file takes, or will have taken when its fetch has landed.
Granted == {f \in fetching : at[f] \notin Landed}
Claim   == [f \in File |-> IF f \in Granted THEN Size[f] ELSE got[f]]

\* Nothing is copied, and what was granted fits above the floor.
Floor ==
  /\ \A f \in File : cands[f] = 0
  /\ taken = 0 => SumFunctionOnSet(Claim, File) <= Room

\* What a claim is.
LEMMA ClaimIs ==
  ASSUME PipelineAssumption, TypeOK, NEW f \in File
  PROVE  /\ Claim[f] \in Nat /\ got[f] \in Nat /\ Size[f] \in Nat
         /\ got[f] <= Size[f] /\ got[f] <= Claim[f]
         /\ f \in Granted => Claim[f] = Size[f]
         /\ f \notin Granted => Claim[f] = got[f]
<1>1. got[f] \in Nat /\ Size[f] \in Nat /\ got[f] <= Size[f]
  BY DEF TypeOK, PipelineAssumption
<1>2. Claim[f] = IF f \in Granted THEN Size[f] ELSE got[f]
  BY DEF Claim
<1> QED
  BY <1>1, <1>2

\* A step that grants nothing and lands no more than was granted.
LEMMA FloorStays ==
  ASSUME PipelineAssumption, TypeOK, TypeOK', Floor, cands' = cands, taken' = 0 => taken = 0,
         Granted' \subseteq Granted,
         \A g \in File : g \notin Granted => got'[g] <= got[g]
  PROVE  Floor'
<1>1. ASSUME NEW g \in File PROVE Claim'[g] <= Claim[g] /\ Claim'[g] \in Nat /\ Claim[g] \in Nat
  <2>1. /\ Claim[g] \in Nat /\ got[g] \in Nat /\ Size[g] \in Nat
        /\ got[g] <= Size[g] /\ got[g] <= Claim[g]
        /\ g \in Granted => Claim[g] = Size[g]
    BY ClaimIs
  <2>2. got'[g] \in Nat /\ got'[g] <= Size[g]
    BY <2>1 DEF TypeOK
  <2>3. Claim'[g] = IF g \in Granted' THEN Size[g] ELSE got'[g]
    BY DEF Claim
  <2>4. CASE g \in Granted'
    BY <2>1, <2>3, <2>4
  <2>5. CASE g \notin Granted' /\ g \in Granted
    BY <2>1, <2>2, <2>3, <2>5
  <2>6. CASE g \notin Granted' /\ g \notin Granted
    BY <2>1, <2>2, <2>3, <2>6
  <2> QED
    BY <2>4, <2>5, <2>6
<1>2. IsFiniteSet(File) /\ Room \in Nat
  BY DEF PipelineAssumption
<1>3. \A n : SumFunctionOnSet(n, {}) = 0
  BY SumStep, FS_EmptySet
<1>4. SumFunctionOnSet(Claim', File) <= SumFunctionOnSet(Claim, File) + SumFunctionOnSet(Claim, {})
  <2>1. \A g \in File : Claim'[g] <= Claim[g] + 0
    BY <1>1
  <2> QED
    BY <1>1, <1>2, <2>1, SumBelow
<1>5. SumFunctionOnSet(Claim', File) \in Nat /\ SumFunctionOnSet(Claim, File) \in Nat
  BY <1>1, <1>2, SumStep
<1>6. taken' = 0 => SumFunctionOnSet(Claim', File) <= Room
  BY <1>2, <1>3, <1>4, <1>5 DEF Floor
<1> QED
  BY <1>6 DEF Floor

\* A fetch that begins fits with all that was granted before.
LEMMA StartFetchFloors ==
  ASSUME PipelineAssumption, PipelineInv, Floor, PipelineInv', StartFetch
  PROVE  Floor'
<1>1. TypeOK /\ Bounds /\ Lines /\ Collected
  BY CountsAre DEF PipelineInv
<1> DEFINE f == Head(queue)
<1>2. /\ queue # <<>> /\ Headroom(f) /\ Put(f, "begin") /\ fetching' = fetching \cup {f}
      /\ UNCHANGED <<got, cands, taken>>
  BY DEF StartFetch, CanStart
<1>3. queue \in Seq(File) /\ Distinct(queue) /\ Elems(queue) = {g \in File : at[g] = "queued"}
  BY <1>1 DEF TypeOK, Lines
<1>4. f \in File /\ f \in Elems(queue)
  BY <1>2, <1>3, TakeFirst
<1> HIDE DEF f
<1>5. at[f] = "queued" /\ f \notin fetching /\ fetching \subseteq File
  BY <1>1, <1>3, <1>4 DEF Collected, InFetch, Fetched, Stops, TypeOK
<1>6. /\ at' \in [File -> Places] /\ at'[f] = "begin" /\ \A g \in File : g # f => at'[g] = at[g]
  BY <1>1, <1>2, <1>4, MoveOne DEF TypeOK, Places, Working
<1>7. \A g \in File : /\ got[g] \in Nat /\ Size[g] \in Nat /\ got[g] <= Size[g]
                      /\ Needs(g) \in Nat
                      /\ at[g] \notin Landed => Needs(g) = Size[g] - got[g]
  <2> TAKE g \in File
  <2>1. got[g] \in Nat /\ Size[g] \in Nat /\ got[g] <= Size[g]
    BY <1>1, ClaimIs
  <2>2. Needs(g) = IF at[g] \in Landed THEN 0 ELSE Size[g] - got[g]
    BY DEF Needs
  <2> QED
    BY <2>1, <2>2
<1>8. Needs(f) \in Nat /\ Needs(f) = Size[f] - got[f] /\ Needs(f) > 0
  <2>1. at[f] \notin Landed
    BY <1>5 DEF Landed
  <2>2. got[f] < Size[f]
    BY <1>1, <1>4, <1>5 DEF Bounds
  <2> QED
    BY <1>4, <1>7, <2>1, <2>2
<1> DEFINE Others == [g \in fetching \ {f} |-> Needs(g)]
           D      == fetching \cup {f}
           Lacks  == [g \in D |-> Needs(g)]
<1>9. IsFiniteSet(File) /\ IsFiniteSet(fetching) /\ IsFiniteSet(D) /\ Room \in Nat
  BY <1>4, <1>5, FS_Subset, FS_EmptySet DEF PipelineAssumption
<1>10. /\ D \subseteq File /\ D \ {f} = fetching /\ f \in D /\ fetching \ {f} = fetching
       /\ \A g \in D : Lacks[g] \in Nat /\ Lacks[g] = Needs(g)
       /\ \A g \in fetching : Others[g] \in Nat /\ Others[g] = Lacks[g]
  BY <1>4, <1>5, <1>7
<1>11. SumFunction(Others) = SumFunctionOnSet(Others, fetching)
  <2>1. DOMAIN Others = fetching
    BY <1>10
  <2> HIDE DEF Others
  <2> QED
    BY <2>1 DEF SumFunction
<1>12. SumFunction(got) = SumFunctionOnSet(got, File)
  BY <1>1 DEF SumFunction, TypeOK
<1>13. Fits(Needs(f) + SumFunction(Others))
  BY <1>2, <1>4 DEF Headroom, Floor
<1> HIDE DEF Others, D, Lacks
<1>14. /\ SumFunctionOnSet(Others, fetching) \in Nat
       /\ SumFunctionOnSet(Lacks, fetching) \in Nat
       /\ SumFunctionOnSet(got, File) \in Nat
       /\ SumFunctionOnSet(Lacks, D) = Needs(f) + SumFunctionOnSet(Lacks, fetching)
  <2>1. \A g \in fetching : g \in D
    BY DEF D
  <2>2. \A g \in fetching : Lacks[g] \in Nat
    BY <1>10, <2>1
  <2>3. SumFunctionOnSet(Lacks, D) = Lacks[f] + SumFunctionOnSet(Lacks, D \ {f})
    BY <1>9, <1>10, SumStep
  <2> QED
    BY <1>7, <1>9, <1>10, <2>2, <2>3, SumStep
<1>15. SumFunctionOnSet(Lacks, fetching) <= SumFunctionOnSet(Others, fetching)
  <2>1. SumFunctionOnSet(Others, {}) = 0
    BY SumStep, FS_EmptySet
  <2>2. \A g \in fetching : Lacks[g] <= Others[g] + 0 /\ Lacks[g] \in Nat /\ Others[g] \in Nat
    BY <1>10
  <2>3. SumFunctionOnSet(Lacks, fetching) <= SumFunctionOnSet(Others, fetching) + SumFunctionOnSet(Others, {})
    BY <1>9, <2>2, SumBelow
  <2> QED
    BY <1>14, <2>1, <2>3
<1>16. ASSUME NEW g \in File
       PROVE  Claim'[g] \in Nat /\ Claim'[g] <= got[g] + (IF g \in D THEN Lacks[g] ELSE 0)
  <2>1. Claim'[g] = IF g \in Granted' THEN Size[g] ELSE got[g]
    BY <1>2 DEF Claim
  <2>2. CASE g \in Granted'
    <3>1. g \in D
      BY <1>2, <2>2 DEF Granted, D
    <3>2. at[g] \notin Landed
      BY <1>5, <1>6, <2>2 DEF Granted, Landed
    <3> QED
      BY <1>7, <1>10, <2>1, <2>2, <3>1, <3>2
  <2>3. CASE g \notin Granted'
    BY <1>7, <1>10, <2>1, <2>3
  <2> QED
    BY <2>2, <2>3
<1>17. SumFunctionOnSet(Claim', File) <= SumFunctionOnSet(got, File) + SumFunctionOnSet(Lacks, D)
  BY <1>7, <1>9, <1>10, <1>16, SumBelow
<1>18. SumFunctionOnSet(Claim', File) \in Nat
  BY <1>9, <1>16, SumStep
<1>19. ASSUME taken = 0 PROVE SumFunctionOnSet(Claim', File) <= Room
  <2>1. Used = SumFunctionOnSet(got, File)
    BY <1>12, <1>14, <1>19 DEF Used
  <2>2. Used + (Needs(f) + SumFunctionOnSet(Others, fetching)) <= Room
    <3>1. Needs(f) + SumFunctionOnSet(Others, fetching) # 0
      BY <1>8, <1>14
    <3> QED
      BY <1>11, <1>13, <3>1 DEF Fits
  <2> QED
    BY <1>8, <1>9, <1>14, <1>15, <1>17, <1>18, <2>1, <2>2
<1>20. \A g \in File : cands'[g] = 0
  BY <1>2 DEF Floor
<1> QED
  BY <1>2, <1>19, <1>20 DEF Floor

\* A worker moves its file on, and a chunk of it may land.
LEMMA WorkFloors ==
  ASSUME PipelineAssumption, PipelineInv, Floor, PipelineInv',
         NEW f \in File, Work(f) \/ CopyFails(f) \/ FetchFails(f) \/ HashFails(f) \/ HashInterrupted(f)
  PROVE  Floor'
<1>1. TypeOK /\ TypeOK' /\ Bounds /\ Collected
  BY CountsAre DEF PipelineInv, Counts
<1>2. at[f] # "copy"
  <2>1. cands[f] = 0
    BY DEF Floor
  <2> QED
    BY <1>1, <2>1 DEF Bounds
<1>3. /\ UNCHANGED <<fetching, taken, cands>>
      /\ \A g \in File : g # f => at'[g] = at[g] /\ got'[g] = got[g]
      /\ at[f] \in {"begin", "net"} \/ (at[f] \in {"digest", "hash"} /\ got' = got)
  <2>1. ~Copy(f) /\ ~CopyFails(f)
    BY <1>2 DEF Copy, CopyFails, Worker
  <2>2. at \in [File -> Places] /\ got \in [File -> Nat]
    BY <1>1 DEF TypeOK
  <2>3. CASE BeginFetch(f)
    BY <2>2, <2>3 DEF BeginFetch, Worker, mains, Put
  <2>4. CASE Chunk(f)
    <3>1. at[f] = "net" /\ UNCHANGED <<mains, taken>> /\ UNCHANGED cands
      BY <2>4 DEF Chunk, Worker
    <3>2. PICK n \in 0..1 :
            /\ got' = [got EXCEPT ![f] = @ + n]
            /\ UNCHANGED at \/ \E p \in Stops \cup {"landed", "none"} : Put(f, p)
      BY <2>4 DEF Chunk
    <3> QED
      BY <2>2, <3>1, <3>2 DEF mains, Put
  <2>5. CASE FetchFails(f)
    <3>1. at[f] = "net" /\ UNCHANGED <<mains, taken>> /\ UNCHANGED <<cands, got>> /\ \E p : Put(f, p)
      BY <2>5 DEF FetchFails, Worker
    <3> QED
      BY <2>2, <3>1 DEF mains, Put
  <2>6. CASE HashBegin(f) \/ HashEnd(f) \/ HashInterrupted(f) \/ HashFails(f)
    <3>1. /\ at[f] \in {"digest", "hash"} /\ UNCHANGED <<mains, taken>> /\ UNCHANGED <<cands, got>>
          /\ \E p : Put(f, p)
      BY <2>6 DEF HashBegin, HashEnd, HashInterrupted, HashFails, Worker
    <3> QED
      BY <2>2, <3>1 DEF mains, Put
  <2> QED
    BY <2>1, <2>3, <2>4, <2>5, <2>6 DEF Work
<1>4. at[f] \in {"begin", "net"} => f \in Granted
  BY <1>1 DEF Collected, Granted, Landed, InDigest, Digested, Settled, Stops
<1>5. at[f] \in {"digest", "hash"} => f \notin fetching
  BY <1>1 DEF Collected, InFetch, Fetched, Stops
<1>6. Granted' \subseteq Granted
  <2> SUFFICES ASSUME NEW g \in Granted' PROVE g \in Granted
    OBVIOUS
  <2>1. g \in fetching /\ at'[g] \notin Landed /\ g \in File
    BY <1>1, <1>3 DEF Granted, TypeOK
  <2>2. CASE g = f
    BY <1>3, <1>4, <1>5, <2>1, <2>2
  <2>3. CASE g # f
    BY <1>3, <2>1, <2>3 DEF Granted
  <2> QED
    BY <2>2, <2>3
<1>7. \A g \in File : g \notin Granted => got'[g] <= got[g]
  <2> SUFFICES ASSUME NEW g \in File, g \notin Granted PROVE got'[g] = got[g] /\ got[g] \in Nat
    OBVIOUS
  <2> QED
    BY <1>1, <1>3, <1>4 DEF TypeOK
<1> QED
  BY <1>1, <1>3, <1>6, <1>7, FloorStays

\* Main collects a future: its file is granted nothing any more.
LEMMA CollectFloors ==
  ASSUME PipelineAssumption, PipelineInv, Floor, PipelineInv',
         NEW f \in File,
         CollectLanded(f) \/ CollectStopped(f) \/ CollectFailed(f) \/ Commit(f) \/ GoAround(f) \/ CommitFails(f)
  PROVE  Floor'
<1>1. TypeOK /\ TypeOK'
  BY DEF PipelineInv, Counts
<1>2. /\ UNCHANGED <<taken, cands>> /\ fetching' = fetching \ {f} /\ \E p : Put(f, p)
      /\ got' = got \/ got' = [got EXCEPT ![f] = 0]
  BY DEF CollectLanded, CollectStopped, CollectFailed, Commit, GoAround, CommitFails, Take, Discard
<1>3. \A g \in File : /\ g # f => at'[g] = at[g]
                      /\ got[g] \in Nat /\ (got'[g] = got[g] \/ got'[g] = 0)
  BY <1>1, <1>2 DEF Put, TypeOK
<1>4. Granted' \subseteq Granted
  BY <1>1, <1>2, <1>3 DEF Granted, TypeOK
<1>5. \A g \in File : g \notin Granted => got'[g] <= got[g]
  BY <1>3
<1> QED
  BY <1>1, <1>2, <1>4, <1>5, FloorStays

\* Digests are cancelled, or nothing moves.
LEMMA IdleFloors ==
  ASSUME PipelineAssumption, PipelineInv, Floor, PipelineInv',
         \/ RefuseFetch \/ Wait \/ LeaveLoop \/ EndCollect \/ Shutdown \/ Leave \/ Abort
         \/ Press \/ Deadline \/ Neighbour \/ UNCHANGED vars
  PROVE  Floor'
<1>1. TypeOK /\ TypeOK'
  BY DEF PipelineInv, Counts
<1>2. UNCHANGED <<fetching, cands, got>> /\ (CancelDigests \/ UNCHANGED at)
  BY DEF RefuseFetch, Wait, LeaveLoop, EndCollect, Shutdown, Leave, Abort, Press, Deadline, Neighbour,
         vars, mains, jobs
<1>3. taken' = 0 => taken = 0
  <2>1. taken' = taken \/ taken' = taken + 1
    BY DEF RefuseFetch, Wait, LeaveLoop, EndCollect, Shutdown, Leave, Abort, Press, Deadline, Neighbour, vars
  <2> QED
    BY <1>1, <2>1 DEF TypeOK
<1>4. \A g \in File : at'[g] = at[g] \/ at'[g] = "cancelled"
  BY <1>2 DEF CancelDigests
<1>5. Granted' \subseteq Granted
  BY <1>1, <1>2, <1>4 DEF Granted, TypeOK, Landed
<1>6. \A g \in File : got[g] \in Nat /\ got'[g] = got[g]
  BY <1>1, <1>2 DEF TypeOK
<1> QED
  BY <1>1, <1>2, <1>3, <1>5, <1>6, FloorStays

\* As long as every byte comes over the network and no other program fills the
\* disk, the streams together stay above the free-space floor, however many
\* they are: a fetch that begins fits with what the others were granted.
\* A sibling copy that fails goes on to the network unguarded: there is none.
THEOREM FloorHolds ==
  ASSUME PipelineAssumption, NoSiblings
  PROVE  Spec => []FloorKept
<1>1. Init => PipelineInv /\ Floor
  <2> SUFFICES ASSUME Init PROVE PipelineInv /\ Floor
    OBVIOUS
  <2>1. PipelineInv
    BY InitHolds
  <2>2. /\ fetching = {} /\ got = [f \in File |-> 0] /\ \A f \in File : cands[f] = 0
    BY DEF Init, NoSiblings
  <2>3. IsFiniteSet(File) /\ Room \in Nat
    BY DEF PipelineAssumption
  <2>4. \A f \in File : Claim[f] = 0
    BY <2>2 DEF Claim, Granted
  <2>5. SumFunctionOnSet(Claim, File) = 0
    BY <2>3, <2>4, SumZero
  <2> QED
    BY <2>1, <2>2, <2>3, <2>5 DEF Floor
<1>2. PipelineInv /\ Floor /\ [Next]_vars => PipelineInv' /\ Floor'
  <2> SUFFICES ASSUME PipelineInv, Floor, [Next]_vars PROVE PipelineInv' /\ Floor'
    OBVIOUS
  <2>1. PipelineInv'
    BY StepKeeps
  <2>2. CASE StartFetch
    BY <2>1, <2>2, StartFetchFloors
  <2>3. CASE \/ RefuseFetch \/ Wait \/ LeaveLoop \/ EndCollect \/ Shutdown \/ Leave \/ Abort
             \/ Press \/ Deadline \/ Neighbour \/ UNCHANGED vars
    BY <2>1, <2>3, IdleFloors
  <2>4. CASE \E f \in File : \/ CollectLanded(f) \/ CollectStopped(f) \/ CollectFailed(f)
                             \/ Commit(f) \/ GoAround(f) \/ CommitFails(f)
    BY <2>1, <2>4, CollectFloors
  <2>5. CASE \E f \in File : \/ Work(f) \/ CopyFails(f) \/ FetchFails(f) \/ HashFails(f)
                             \/ HashInterrupted(f)
    BY <2>1, <2>5, WorkFloors
  <2> QED
    BY <2>1, <2>2, <2>3, <2>4, <2>5 DEF Next, Main, World
<1>3. PipelineInv /\ Floor => FloorKept
  <2> SUFFICES ASSUME PipelineInv, Floor, taken = 0 PROVE Used <= Room
    BY DEF FloorKept, OnlyFetches
  <2>1. TypeOK
    BY DEF PipelineInv, Counts
  <2>2. SumFunction(got) = SumFunctionOnSet(got, File)
    BY <2>1 DEF SumFunction, TypeOK
  <2>3. \A f \in File : got[f] \in Nat /\ Claim[f] \in Nat /\ got[f] <= Claim[f] + 0
    <3> TAKE f \in File
    <3>1. got[f] \in Nat /\ Claim[f] \in Nat /\ got[f] <= Claim[f]
      BY <2>1, ClaimIs
    <3> QED
      BY <3>1
  <2>4. IsFiniteSet(File) /\ Room \in Nat
    BY DEF PipelineAssumption
  <2>5. SumFunctionOnSet(got, File) <= SumFunctionOnSet(Claim, File) + SumFunctionOnSet(Claim, {})
    BY <2>3, <2>4, SumBelow
  <2>6. SumFunctionOnSet(Claim, {}) = 0
    BY SumStep, FS_EmptySet
  <2>7. SumFunctionOnSet(got, File) \in Nat /\ SumFunctionOnSet(Claim, File) \in Nat
    BY <2>3, <2>4, SumStep
  <2>8. SumFunctionOnSet(Claim, File) <= Room
    BY DEF Floor
  <2> QED
    BY <2>2, <2>4, <2>5, <2>6, <2>7, <2>8 DEF Used
<1> QED
  BY <1>1, <1>2, <1>3, PTL DEF Spec
=============================================================================
