---------------------------- MODULE RepairsProofs ----------------------------
(***************************************************************************)
(* Proofs about Repairs for any bundles, any files the doctor may touch,   *)
(* and any number of runs and faults.                                      *)
(***************************************************************************)
EXTENDS Repairs, TLAPS

Acts(i) == runs[i].acts

\* What may stand in a journal: never a live lock or a doctor's.
Past(leaf) == IF leaf = Lock THEN {"absent", "empty", "dead", "orphan"} ELSE Contents(leaf)

Journal  == [kind : Kinds, acts : Seq(Action)]
Journals == Seq(Journal)

\* The doctor takes the locks of the bundles.
Taking == {"lock", "unlink", "create", "own"}

\* The doctor has journaled an action and is not through with it.
Midway == pc \in {"check", "commit", "verify"}

Fits(x, y, t) == x \in Past(t[2]) /\ y \in Past(t[2])

Types ==
  /\ file \in [Bundle -> [Leaf -> Content]] /\ \A t \in Target : At(t) \in Contents(t[2])
  /\ sound \in [Bundle -> Soundness]
  /\ runs \in Journals
  /\ \A i \in DOMAIN runs : \A k \in DOMAIN Acts(i) :
        Fits(Acts(i)[k].before, Acts(i)[k].after, Acts(i)[k].target)
  /\ pc \in Taking \cup {"idle", "apply", "check", "commit", "verify", "fail", "release"}
  /\ mode \in Kinds
  /\ plans \subseteq Plan /\ \A p \in plans : Fits(p.expect, p.to, p.target)
  /\ wanted \subseteq Bundle /\ held \subseteq Bundle
  /\ source \in 0..Now /\ (mode = "undo" => source \in 1..(Now - 1))
  /\ moved \in Content /\ (pc = "verify" => moved \in Contents(Current.target[2]))
  /\ exit \in {"none", "fixed", "undone", "reverted", "error", "interrupt"}
  /\ exit = "reverted" => pc = "release"
  /\ start \in [Bundle -> [Leaf -> Content]] /\ others \subseteq Target /\ raced \in BOOLEAN
  /\ faults \in Nat
  /\ pc # "idle" => Now > 0
  /\ pc = "idle" => mode = "fix" /\ plans = {}
  /\ Midway => LastAct > 0 /\ Current.outcome = "pending"

\* At the commit the file is as journaled, and at the verification as written,
\* unless others changed it in between.
Window ==
  /\ pc = "commit" => \/ At(Current.target) = Current.before
                      \/ Current.target \in others /\ raced
  /\ pc = "verify" => \/ At(Current.target) = Current.after /\ moved = Current.before
                      \/ Current.target \in others /\ raced

\* While the doctor goes on, the action it is at is the only one that is open.
Quiet ==
  /\ pc \in Taking => Acts(Now) = <<>>
  /\ pc = "apply" => \A k \in DOMAIN Acts(Now) : ~Pending(Acts(Now)[k])
  /\ Midway => \A k \in DOMAIN Acts(Now) : k # LastAct => ~Pending(Acts(Now)[k])

\* Of the last run, also while it goes on, an open action has happened or not.
Known == runs # <<>> =>
  \A k \in DOMAIN Acts(Now) : Pending(Acts(Now)[k]) =>
     \/ Acts(Now)[k].target \in others
     \/ At(Acts(Now)[k].target) \in {Acts(Now)[k].before, Acts(Now)[k].after}

\* A run changes a file once, and in a bundle with a dead lock nothing else.
Apart(s, t) == s # t /\ (s[1] = t[1] => s[2] # Lock /\ t[2] # Lock)
Shape ==
  /\ \A i \in DOMAIN runs : \A k, l \in DOMAIN Acts(i) :
        k # l => Apart(Acts(i)[k].target, Acts(i)[l].target)
  /\ \A p, q \in plans : p # q => Apart(p.target, q.target)
  /\ pc # "idle" => \A p \in plans : \A k \in DOMAIN Acts(Now) : Apart(p.target, Acts(Now)[k].target)

Base(t) == start[t[1]][t[2]]
Plain   == {t \in Target \ others : t[2] # Lock}

\* In a repair and in an undo: what an action of the run has touched held before
\* what it held at the start, and what none has touched still does.
Forward == pc \notin {"idle", "release"} /\ mode # "rollback" =>
  \A t \in Plain :
     /\ \A k \in Due(Now) : Acts(Now)[k].target = t => Acts(Now)[k].before = Base(t)
     /\ (\A k \in Due(Now) : Acts(Now)[k].target # t) => At(t) = Base(t)

\* A file is to hold c: it does, or a plan or the action under way will see to it,
\* and none has anything else in mind.
Planned(t, c)  == \E p \in plans : p.target = t /\ p.to = c
Making(t, c)   == Midway /\ Current.target = t /\ Current.after = c
Sought(t, c)   == At(t) = c \/ Planned(t, c) \/ Making(t, c)
Restores(t, c) == /\ \A p \in plans : p.target = t => p.to = c
                  /\ Midway /\ Current.target = t => Current.after = c
Active         == pc \in Taking \cup {"apply", "check", "commit", "verify"}

\* In a rollback every file is to be as at the start.
Backward == mode = "rollback" /\ Active =>
  \A t \in Plain : Sought(t, Base(t)) /\ Restores(t, Base(t))
Reverted == exit = "reverted" => \A t \in Plain : At(t) = Base(t)

\* In an undo every file is to be as the run it undoes found it.
Undoing == mode = "undo" /\ Active =>
  \A k \in Due(source) :
    /\ \/ Acts(source)[k].target \in others
       \/ Sought(Acts(source)[k].target, Acts(source)[k].before)
    /\ Restores(Acts(source)[k].target, Acts(source)[k].before)
    /\ Acts(source)[k].target[2] = Lock => Acts(source)[k].target[1] \notin wanted

\* A lock without an owner is somebody's who has just made it, or nobody's; what an
\* archive made is there while it works, and what the doctor is about to unlink is its
\* dead doctor's, unless somebody came in between.
Stages == {"none", "judged", "starting", "runs"}
Makers == {"none", "doctor", "archive"}
LockOf(b) ==
  /\ blank[b] # "none" => file[b][Lock] = "empty"
  /\ blank[b] = "archive" => session[b] = "starting"
  /\ session[b] = "starting" => raced \/ blank[b] = "archive"
  /\ session[b] = "runs" => raced \/ file[b][Lock] = "live"
  /\ Turn(b) /\ pc = "unlink" => raced \/ file[b][Lock] = "orphan"
  /\ Turn(b) /\ pc = "own" => raced \/ blank[b] = "doctor"
Locks ==
  /\ session \in [Bundle -> Stages] /\ blank \in [Bundle -> Makers]
  /\ \A b \in Bundle : LockOf(b)

RepairsInv ==
  /\ Types /\ Locks
  /\ Window /\ Quiet /\ Known /\ Shape
  /\ Forward /\ Backward /\ Reverted /\ Undoing

-----------------------------------------------------------------------------
(* The operators the actions are built from. *)

\* What may be in which file.
LEMMA LeafFacts ==
  /\ Lock \in Leaf /\ Content = UNION {Contents(leaf) : leaf \in Leaf}
  /\ Contents(Lock) = {"absent", "empty", "dead", "live", "doctor", "orphan"}
  /\ \A leaf \in Leaf : /\ Contents(leaf) \subseteq Content /\ Past(leaf) \subseteq Contents(leaf)
                        /\ "absent" \in Past(leaf)
  /\ Generated \subseteq Leaf /\ Lock \notin Generated
  /\ \A leaf \in Generated : "fresh" \in Past(leaf)
  /\ \A t \in Target : t[1] \in Bundle /\ t[2] \in Leaf /\ t = <<t[1], t[2]>>
  /\ \A b \in Bundle, leaf \in Leaf : <<b, leaf>> \in Target /\ <<b, leaf>>[1] = b /\ <<b, leaf>>[2] = leaf
<1>1. Lock \in Leaf /\ Lock \notin Generated /\ Generated \subseteq Leaf
  BY RepairsAssumption DEF Lock, Generated
<1>2. \A leaf \in Generated : Contents(leaf) = {"absent", "stale", "edited", "fresh"} /\ leaf # Lock
  BY <1>1 DEF Contents
<1>3. Contents(Lock) = {"absent", "empty", "dead", "live", "doctor", "orphan"}
  BY <1>1 DEF Contents
<1>4. \A leaf \in Leaf : leaf \notin Generated /\ leaf # Lock => Contents(leaf) = {"absent", "dangling", "good"}
  BY <1>1 DEF Contents
<1>5. Content = UNION {Contents(leaf) : leaf \in Leaf}
  BY DEF Content
<1>6. \A leaf \in Leaf : Contents(leaf) \subseteq Content
  BY <1>5
<1>7. \A leaf \in Leaf : Past(leaf) \subseteq Contents(leaf) /\ "absent" \in Past(leaf)
  BY <1>2, <1>3, <1>4 DEF Past
<1>8. \A leaf \in Generated : "fresh" \in Past(leaf)
  BY <1>2 DEF Past
<1> QED
  BY <1>1, <1>3, <1>5, <1>6, <1>7, <1>8 DEF Target

\* One file is written.
LEMMA WriteOne ==
  ASSUME file \in [Bundle -> [Leaf -> Content]], NEW t \in Target, NEW c \in Content, Write(t, c)
  PROVE  /\ file' \in [Bundle -> [Leaf -> Content]]
         /\ At(t)' = c
         /\ \A u \in Target : u # t => At(u)' = At(u)
<1>1. t[1] \in Bundle /\ t[2] \in Leaf
  BY DEF Target
<1>2. file' = [file EXCEPT ![t[1]] = [file[t[1]] EXCEPT ![t[2]] = c]]
  BY DEF Write
<1>3. file'[t[1]] = [file[t[1]] EXCEPT ![t[2]] = c] /\ \A b \in Bundle : b # t[1] => file'[b] = file[b]
  BY <1>1, <1>2
<1>4. file[t[1]] \in [Leaf -> Content]
  BY <1>1
<1>5. file'[t[1]][t[2]] = c /\ \A leaf \in Leaf : leaf # t[2] => file'[t[1]][leaf] = file[t[1]][leaf]
  BY <1>1, <1>3, <1>4
<1>6. [file[t[1]] EXCEPT ![t[2]] = c] \in [Leaf -> Content]
  BY <1>4
<1>7. file' \in [Bundle -> [Leaf -> Content]]
  BY <1>1, <1>2, <1>6
<1>8. ASSUME NEW u \in Target, u # t PROVE At(u)' = At(u)
  <2>1. u[1] \in Bundle /\ u[2] \in Leaf /\ (u[1] # t[1] \/ u[2] # t[2])
    BY <1>8 DEF Target
  <2> QED
    BY <2>1, <1>3, <1>5 DEF At
<1> QED
  BY <1>5, <1>7, <1>8 DEF At

\* The lock of one bundle changes hands, and of no other.
LEMMA LocksOne ==
  ASSUME Locks, NEW b \in Bundle, raced => raced',
         session' \in [Bundle -> Stages], blank' \in [Bundle -> Makers],
         \A c \in Bundle \ {b} : /\ file'[c][Lock] = file[c][Lock]
                                /\ session'[c] = session[c] /\ blank'[c] = blank[c],
         pc' \notin {"unlink", "own"} \/ UNCHANGED <<pc, wanted>> \/ Turn(b)',
         LockOf(b)'
  PROVE  Locks'
<1> SUFFICES ASSUME NEW c \in Bundle PROVE LockOf(c)'
  BY DEF Locks
<1>1. CASE c = b
  BY <1>1
<1>2. CASE c # b
  <2>1. LockOf(c)
    BY DEF Locks
  <2>2. Turn(b)' => ~Turn(c)'
    <3>1. b \in Nat /\ c \in Nat
      BY RepairsAssumption
    <3> QED
      BY <3>1, <1>2 DEF Turn
  <2>3. /\ file'[c][Lock] = file[c][Lock] /\ session'[c] = session[c] /\ blank'[c] = blank[c]
    BY <1>2
  <2>4. \/ pc' \notin {"unlink", "own"} \/ ~Turn(c)'
        \/ pc' = pc /\ (Turn(c)' <=> Turn(c))
    BY <2>2 DEF Turn
  <2> QED
    BY <2>1, <2>3, <2>4 DEF LockOf
<1> QED
  BY <1>1, <1>2

\* No lock changes.
LEMMA LocksStay ==
  ASSUME Locks, UNCHANGED <<session, blank>>, raced => raced',
         \A b \in Bundle : file'[b][Lock] = file[b][Lock],
         pc' \notin {"unlink", "own"} \/ UNCHANGED <<pc, wanted>>
  PROVE  Locks'
<1> SUFFICES ASSUME NEW c \in Bundle PROVE LockOf(c)'
  BY DEF Locks
<1>1. LockOf(c) /\ file'[c][Lock] = file[c][Lock] /\ session' = session /\ blank' = blank
  BY DEF Locks
<1>2. pc' \notin {"unlink", "own"} \/ (pc' = pc /\ (Turn(c)' <=> Turn(c)))
  BY DEF Turn
<1> QED
  BY <1>1, <1>2 DEF LockOf

\* The doctor puts something in the place of a file: perhaps of a lock that an
\* archive has just made, never of one that is known to be in use.
Placed(t) ==
  /\ blank' = IF t[2] = Lock THEN [blank EXCEPT ![t[1]] = "none"] ELSE blank
  /\ raced' = (raced \/ (t[2] = Lock /\ blank[t[1]] = "archive"))
LEMMA LocksPlaced ==
  ASSUME Locks, NEW t \in Target, Placed(t), session' = session, raced \in BOOLEAN,
         \A u \in Target : u # t => At(u)' = At(u),
         At(t)' = At(t) \/ raced \/ At(t) # "live",
         pc' \notin {"unlink", "own"}
  PROVE  Locks' /\ raced' \in BOOLEAN /\ (raced => raced')
<1>1. raced' \in BOOLEAN /\ (raced => raced')
  BY DEF Placed
<1>2. \A c \in Bundle : <<c, Lock>> \in Target /\ At(<<c, Lock>>) = file[c][Lock]
                        /\ At(<<c, Lock>>)' = file'[c][Lock]
  BY LeafFacts DEF At
<1>3. t[1] \in Bundle /\ t = <<t[1], t[2]>>
  BY LeafFacts
<1>4. CASE t[2] # Lock
  <2>1. \A c \in Bundle : <<c, Lock>> # t
    BY <1>4, LeafFacts
  <2>2. \A c \in Bundle : file'[c][Lock] = file[c][Lock]
    BY <1>2, <2>1
  <2>3. blank' = blank
    BY <1>4 DEF Placed
  <2> QED
    BY <1>1, <2>2, <2>3, LocksStay
<1>5. CASE t[2] = Lock
  <2>1. PICK b \in Bundle : b = t[1] /\ t = <<b, Lock>>
    BY <1>3, <1>5
  <2>2. \A c \in Bundle \ {b} : <<c, Lock>> # t
    BY <2>1
  <2>3. blank' = [blank EXCEPT ![b] = "none"] /\ raced' = (raced \/ blank[b] = "archive")
    BY <1>5, <2>1 DEF Placed
  <2>4. blank' \in [Bundle -> Makers] /\ session' \in [Bundle -> Stages] /\ blank'[b] = "none"
        /\ \A c \in Bundle \ {b} : blank'[c] = blank[c]
    BY <2>3 DEF Locks, Makers
  <2>5. \A c \in Bundle \ {b} : file'[c][Lock] = file[c][Lock]
    BY <1>2, <2>2
  <2>6. LockOf(b) /\ At(t) = file[b][Lock] /\ At(t)' = file'[b][Lock]
    BY <1>2, <2>1 DEF Locks
  <2>7. LockOf(b)'
    BY <1>1, <2>3, <2>4, <2>6 DEF LockOf
  <2> QED
    BY <1>1, <2>4, <2>5, <2>7, LocksOne
<1> QED
  BY <1>4, <1>5

\* Sequences, by their elements.
LEMMA ReplaceOne ==
  ASSUME NEW S, NEW s \in Seq(S), NEW n \in DOMAIN s, NEW e \in S
  PROVE  [s EXCEPT ![n] = e] \in Seq(S) /\ Len([s EXCEPT ![n] = e]) = Len(s)
OBVIOUS

\* A function on 1..n is a sequence.
LEMMA IsSequence ==
  ASSUME NEW S, NEW n \in Nat, NEW s \in [1..n -> S]
  PROVE  s \in Seq(S) /\ Len(s) = n
OBVIOUS

\* What is journaled is an action.
LEMMA ActsTyped ==
  ASSUME runs \in Journals, NEW i \in DOMAIN runs
  PROVE  /\ Acts(i) \in Seq(Action) /\ Len(Acts(i)) \in Nat /\ DOMAIN Acts(i) = 1..Len(Acts(i))
         /\ \A k \in DOMAIN Acts(i) :
              /\ k \in Nat /\ Acts(i)[k] \in Action /\ Acts(i)[k].target \in Target
              /\ Acts(i)[k].before \in Content /\ Acts(i)[k].after \in Content
<1>1. runs[i] \in Journal
  BY DEF Journals
<1>2. Acts(i) \in Seq(Action)
  BY <1>1 DEF Journal, Acts
<1>3. \A k \in DOMAIN Acts(i) : k \in Nat /\ Acts(i)[k] \in Action
  BY <1>2
<1>4. \A a \in Action : a.target \in Target /\ a.before \in Content /\ a.after \in Content
  BY DEF Action
<1> QED
  BY <1>2, <1>3, <1>4

\* The outcome of the current action is written.
LEMMA CloseOne ==
  ASSUME runs \in Journals, Now > 0, LastAct > 0, NEW out \in Outcomes, runs' = Closed(out)
  PROVE  /\ runs' \in Journals /\ Now' = Now /\ LastAct' = LastAct
         /\ \A i \in DOMAIN runs : DOMAIN Acts(i)' = DOMAIN Acts(i)
         /\ \A i \in DOMAIN runs : i # Now => runs'[i] = runs[i]
         /\ \A k \in DOMAIN Acts(Now) : k # LastAct => Acts(Now)'[k] = Acts(Now)[k]
         /\ Current' = [Current EXCEPT !.outcome = out]
<1> DEFINE n == Now
           m == LastAct
           a == runs[n].acts
           b == [a EXCEPT ![m] = [a[m] EXCEPT !.outcome = out]]
<1>1. n \in DOMAIN runs /\ runs[n] \in Journal /\ n = Len(runs) /\ n \in Nat
  <2>1. Len(runs) \in Nat /\ DOMAIN runs = 1..Len(runs)
    BY DEF Journals
  <2>2. n \in DOMAIN runs
    BY <2>1 DEF Now
  <2>a. \A i \in DOMAIN runs : runs[i] \in Journal
    BY <2>1 DEF Journals
  <2>3. runs[n] \in Journal
    BY <2>2, <2>a
  <2> QED
    BY <2>1, <2>2, <2>3 DEF Now
<1>2. a \in Seq(Action) /\ m \in DOMAIN a /\ m = Len(a) /\ m \in Nat
  BY <1>1 DEF LastAct, Journal
<1>3. a[m] \in Action /\ [a[m] EXCEPT !.outcome = out] \in Action
  <2>1. a[m] \in Action
    BY <1>2
  <2> DEFINE act == a[m]
  <2> HIDE DEF act
  <2>2. act \in Action => [act EXCEPT !.outcome = out] \in Action
    BY DEF Action
  <2> QED
    BY <2>1, <2>2 DEF act
<1>4. b \in Seq(Action) /\ Len(b) = Len(a) /\ DOMAIN b = DOMAIN a
      /\ b[m] = [a[m] EXCEPT !.outcome = out] /\ \A k \in DOMAIN a : k # m => b[k] = a[k]
  BY <1>2, <1>3
<1>5. runs' = [runs EXCEPT ![n] = [runs[n] EXCEPT !.acts = b]]
  BY DEF Closed
<1> HIDE DEF b
<1>6. runs'[n].acts = b /\ [runs[n] EXCEPT !.acts = b] \in Journal
  BY <1>1, <1>4, <1>5 DEF Journal
<1>7. runs' \in Journals /\ Len(runs') = Len(runs) /\ DOMAIN runs' = DOMAIN runs
  BY <1>1, <1>5, <1>6 DEF Journals
<1>8. \A i \in DOMAIN runs : i # n => runs'[i] = runs[i]
  BY <1>5
<1>9. Now' = Now /\ Acts(n)' = b /\ LastAct' = LastAct
  BY <1>6, <1>7, <1>4, <1>2 DEF Now, Acts, LastAct
<1>10. \A i \in DOMAIN runs : DOMAIN Acts(i)' = DOMAIN Acts(i)
  BY <1>8, <1>9, <1>4 DEF Acts
<1>11. Current' = [Current EXCEPT !.outcome = out]
  BY <1>9, <1>6, <1>4 DEF Current
<1> QED
  BY <1>4, <1>6, <1>7, <1>8, <1>9, <1>10, <1>11 DEF Acts

\* An action is journaled.
LEMMA AppendOne ==
  ASSUME runs \in Journals, Now > 0, NEW act \in Action,
         runs' = [runs EXCEPT ![Now].acts = Append(@, act)]
  PROVE  /\ runs' \in Journals /\ Now' = Now /\ LastAct' = LastAct + 1 /\ LastAct \in Nat
         /\ \A i \in DOMAIN runs : i # Now => runs'[i] = runs[i]
         /\ DOMAIN Acts(Now)' = DOMAIN Acts(Now) \cup {LastAct'} /\ LastAct' \notin DOMAIN Acts(Now)
         /\ \A k \in DOMAIN Acts(Now) : Acts(Now)'[k] = Acts(Now)[k]
         /\ Current' = act /\ Acts(Now)'[LastAct'] = act
<1> DEFINE n == Now
           a == runs[n].acts
           b == Append(a, act)
<1>1. n \in DOMAIN runs /\ n = Len(runs) /\ n \in Nat
  BY DEF Journals, Now
<1>2. runs[n] \in Journal
  BY <1>1 DEF Journals
<1>3. a \in Seq(Action) /\ LastAct = Len(a) /\ Len(a) \in Nat
  BY <1>2 DEF LastAct, Journal
<1>4. b \in Seq(Action) /\ Len(b) = Len(a) + 1 /\ DOMAIN b = 1..(Len(a) + 1) /\ DOMAIN a = 1..Len(a)
      /\ b[Len(a) + 1] = act /\ \A k \in DOMAIN a : b[k] = a[k]
  BY <1>3
<1>5. runs' = [runs EXCEPT ![n] = [runs[n] EXCEPT !.acts = b]]
  OBVIOUS
<1> HIDE DEF b
<1>6. runs'[n].acts = b /\ [runs[n] EXCEPT !.acts = b] \in Journal
  BY <1>1, <1>2, <1>4, <1>5 DEF Journal
<1>7. runs' \in Journals /\ Len(runs') = Len(runs)
  <2> DEFINE e == [runs[n] EXCEPT !.acts = b]
  <2>1. runs' = [runs EXCEPT ![n] = e] /\ e \in Journal
    BY <1>5, <1>6
  <2> HIDE DEF e
  <2>2. runs \in Seq(Journal) /\ n \in DOMAIN runs
    BY <1>1 DEF Journals
  <2>3. [runs EXCEPT ![n] = e] \in Seq(Journal) /\ Len([runs EXCEPT ![n] = e]) = Len(runs)
    BY <2>1, <2>2, ReplaceOne
  <2> QED
    BY <2>1, <2>3 DEF Journals
<1>8. \A i \in DOMAIN runs : i # n => runs'[i] = runs[i]
  BY <1>5
<1>9. Now' = Now /\ Acts(n)' = b /\ LastAct' = LastAct + 1
  BY <1>6, <1>7, <1>4, <1>3 DEF Now, Acts, LastAct
<1>10. Current' = act
  BY <1>9, <1>6, <1>4, <1>3 DEF Current
<1>11. DOMAIN b = DOMAIN a \cup {LastAct'} /\ LastAct' \notin DOMAIN a
  BY <1>3, <1>4, <1>9
<1> QED
  BY <1>3, <1>4, <1>7, <1>8, <1>9, <1>10, <1>11 DEF Acts

\* A run is begun.
LEMMA AddOne ==
  ASSUME runs \in Journals, NEW kind \in Kinds, runs' = NewRun(kind)
  PROVE  /\ runs' \in Journals /\ Now \in Nat /\ Now' = Now + 1
         /\ DOMAIN runs' = DOMAIN runs \cup {Now'}
         /\ \A i \in DOMAIN runs : runs'[i] = runs[i]
         /\ Acts(Now)' = <<>>
<1> DEFINE run == [kind |-> kind, acts |-> <<>>]
<1>1. run \in Journal
  BY DEF Journal
<1>2. Now = Len(runs) /\ Now \in Nat /\ DOMAIN runs = 1..Now
  BY DEF Journals, Now
<1>3. runs' = Append(runs, run)
  BY DEF NewRun
<1> HIDE DEF run
<1>4. runs' \in Journals /\ Len(runs') = Len(runs) + 1 /\ runs'[Len(runs) + 1] = run
      /\ DOMAIN runs' = 1..(Len(runs) + 1) /\ \A i \in DOMAIN runs : runs'[i] = runs[i]
  BY <1>1, <1>2, <1>3 DEF Journals
<1>5. Now' = Now + 1
  BY <1>2, <1>4 DEF Now
<1>6. Acts(Now)' = <<>>
  BY <1>2, <1>4, <1>5 DEF Acts, run
<1> QED
  BY <1>2, <1>4, <1>5, <1>6

\* The same action as far as the journal of its bytes goes.
Same(a, b) == a.target = b.target /\ a.before = b.before /\ a.after = b.after

\* Nothing but outcomes changes, and an outcome only to "undone".
OnlyUndone ==
  /\ runs' \in Journals /\ Now' = Now /\ DOMAIN runs' = DOMAIN runs
  /\ \A i \in DOMAIN runs : /\ DOMAIN Acts(i)' = DOMAIN Acts(i)
                            /\ \A k \in DOMAIN Acts(i) : /\ Same(Acts(i)'[k], Acts(i)[k])
                                                         /\ Acts(i)'[k].outcome \in {Acts(i)[k].outcome, "undone"}

\* The undo of an interrupted run marks its actions.
LEMMA RecoveredOnly ==
  ASSUME runs \in Journals, source \in DOMAIN runs, runs' = Recovered(source)
  PROVE  OnlyUndone
<1> DEFINE a == runs[source].acts
           b == [k \in DOMAIN a |-> IF Pending(a[k]) THEN [a[k] EXCEPT !.outcome = "undone"] ELSE a[k]]
<1>1. Now = Len(runs) /\ Now \in Nat /\ DOMAIN runs = 1..Now
  BY DEF Journals, Now
<1>2. runs[source] \in Journal
  BY DEF Journals
<1>3. a \in Seq(Action) /\ Len(a) \in Nat /\ DOMAIN a = 1..Len(a) /\ \A k \in DOMAIN a : a[k] \in Action
  BY <1>2 DEF Journal
<1>4. \A act \in Action : /\ [act EXCEPT !.outcome = "undone"] \in Action
                           /\ Same([act EXCEPT !.outcome = "undone"], act)
                           /\ [act EXCEPT !.outcome = "undone"].outcome = "undone"
  BY DEF Action, Outcomes, Same
<1>5. \A k \in DOMAIN a : b[k] \in Action /\ Same(b[k], a[k]) /\ b[k].outcome \in {a[k].outcome, "undone"}
  <2> SUFFICES ASSUME NEW k \in DOMAIN a
               PROVE b[k] \in Action /\ Same(b[k], a[k]) /\ b[k].outcome \in {a[k].outcome, "undone"}
    OBVIOUS
  <2>1. a[k] \in Action
    BY <1>3
  <2>2. CASE Pending(a[k])
    BY <1>4, <2>1, <2>2
  <2>3. CASE ~Pending(a[k])
    BY <2>1, <2>3 DEF Same
  <2> QED
    BY <2>2, <2>3
<1>6. runs' = [runs EXCEPT ![source] = [runs[source] EXCEPT !.acts = b]]
  BY DEF Recovered
<1>7. DOMAIN b = DOMAIN a /\ b = [k \in 1..Len(a) |-> b[k]]
  BY <1>3
<1> HIDE DEF b
<1>8. b \in Seq(Action)
  <2>1. b \in [1..Len(a) -> Action]
    BY <1>3, <1>5, <1>7
  <2> QED
    BY <1>3, <2>1, IsSequence
<1>9. runs'[source].acts = b /\ [runs[source] EXCEPT !.acts = b] \in Journal
  BY <1>2, <1>6, <1>8 DEF Journal
<1>10. runs' \in Journals /\ Len(runs') = Len(runs) /\ DOMAIN runs' = DOMAIN runs
  BY <1>1, <1>6, <1>9 DEF Journals
<1>11. \A i \in DOMAIN runs : i # source => runs'[i] = runs[i]
  BY <1>6
<1>12. Now' = Now
  BY <1>10 DEF Now
<1>13. ASSUME NEW i \in DOMAIN runs
       PROVE  /\ DOMAIN Acts(i)' = DOMAIN Acts(i)
              /\ \A k \in DOMAIN Acts(i) : /\ Same(Acts(i)'[k], Acts(i)[k])
                                           /\ Acts(i)'[k].outcome \in {Acts(i)[k].outcome, "undone"}
  <2>1. CASE i = source
    <3>1. Acts(i) = a /\ Acts(i)' = b
      BY <2>1, <1>9 DEF Acts
    <3> QED
      BY <3>1, <1>5, <1>7
  <2>2. CASE i # source
    <3>1. Acts(i)' = Acts(i)
      BY <2>2, <1>11 DEF Acts
    <3> QED
      BY <3>1 DEF Same
  <2> QED
    BY <2>1, <2>2
<1> QED
  BY <1>10, <1>12, <1>13 DEF OnlyUndone

\* `gc` empties journals and leaves the last one.
LEMMA Collected ==
  ASSUME runs \in Journals, NEW n \in DOMAIN runs, Gc(n)
  PROVE  /\ runs' \in Journals /\ Now' = Now /\ DOMAIN runs' = DOMAIN runs
         /\ runs'[Now] = runs[Now] /\ \A i \in DOMAIN runs : Acts(i)' \in {Acts(i), <<>>}
<1>1. Now = Len(runs) /\ Now \in Nat /\ DOMAIN runs = 1..Now /\ n < Now
  BY DEF Journals, Now, Gc
<1>2. \A i \in DOMAIN runs : runs[i] \in Journal
  BY DEF Journals
<1>3. \A i \in DOMAIN runs : [runs[i] EXCEPT !.acts = <<>>] \in Journal
                            /\ [runs[i] EXCEPT !.acts = <<>>].acts = <<>>
  <2>1. \A run \in Journal, e \in Seq(Action) :
          [run EXCEPT !.acts = e] \in Journal /\ [run EXCEPT !.acts = e].acts = e
    BY DEF Journal
  <2>2. <<>> \in Seq(Action)
    OBVIOUS
  <2> QED
    BY <1>2, <2>1, <2>2
<1>4. /\ DOMAIN runs' = DOMAIN runs
      /\ \A i \in DOMAIN runs : runs'[i] = IF i > n THEN runs[i] ELSE [runs[i] EXCEPT !.acts = <<>>]
      /\ runs' = [i \in 1..Now |-> runs'[i]]
  BY <1>1 DEF Gc
<1>5. \A i \in DOMAIN runs : runs'[i] \in Journal
  BY <1>2, <1>3, <1>4
<1>6. runs' \in Journals /\ Len(runs') = Now
  BY <1>1, <1>4, <1>5 DEF Journals
<1>7. Now' = Now
  BY <1>6 DEF Now
<1>8. \A i \in DOMAIN runs : Acts(i)' \in {Acts(i), <<>>}
  BY <1>3, <1>4 DEF Acts
<1>9. runs'[Now] = runs[Now]
  BY <1>1, <1>4
<1> QED
  BY <1>4, <1>6, <1>7, <1>8, <1>9

-----------------------------------------------------------------------------
(* The commands. *)

\* What a run changed is put back by plans that fit its journal.
LEMMA InverseFits ==
  ASSUME Types, Shape, NEW i \in DOMAIN runs
  PROVE  /\ InversePlans(i) \subseteq Plan
         /\ \A p \in InversePlans(i) : Fits(p.expect, p.to, p.target)
         /\ \A p, q \in InversePlans(i) : p # q => Apart(p.target, q.target)
<1>1. \A k \in DOMAIN Acts(i) : k \in Nat /\ Acts(i)[k] \in Action
  BY ActsTyped DEF Types
<1>2. Changed(i) \subseteq DOMAIN Acts(i)
  BY DEF Changed, Due, Acts
<1> DEFINE plan(k) == [target |-> Acts(i)[k].target, expect |-> Acts(i)[k].after,
                       to |-> Acts(i)[k].before, turn |-> k]
<1>3. InversePlans(i) = {plan(k) : k \in Changed(i)}
  BY DEF InversePlans, Acts
<1>4. \A k \in Changed(i) : plan(k) \in Plan /\ Fits(plan(k).expect, plan(k).to, plan(k).target)
  BY <1>1, <1>2 DEF Types, Plan, Action, Fits
<1>5. \A k, l \in Changed(i) : k # l => Apart(plan(k).target, plan(l).target)
  BY <1>2 DEF Shape
<1> HIDE DEF plan
<1> QED
  BY <1>3, <1>4, <1>5

\* The plans put back what the run they invert found.
LEMMA InverseRestores ==
  ASSUME Shape, NEW i \in DOMAIN runs, NEW k \in Due(i), NEW p \in InversePlans(i),
         p.target = Acts(i)[k].target
  PROVE  p.to = Acts(i)[k].before
<1>1. PICK l \in Changed(i) : p.target = Acts(i)[l].target /\ p.to = Acts(i)[l].before
  BY DEF InversePlans, Acts
<1>2. k \in DOMAIN Acts(i) /\ l \in DOMAIN Acts(i)
  BY DEF Changed, Due, Acts
<1>3. k = l
  BY <1>1, <1>2 DEF Shape, Apart
<1> QED
  BY <1>1, <1>3

\* A step that goes on with what is sought keeps a rollback and an undo on course.
LEMMA Onwards ==
  ASSUME Types, Backward, Undoing, Active,
         UNCHANGED <<mode, source, start>>, others \subseteq others', wanted' \subseteq wanted,
         \A i \in DOMAIN runs : i < Now => runs'[i] = runs[i],
         \A t \in Target : \A c : Restores(t, c) => Restores(t, c)',
         \A t \in Target : \A c : Sought(t, c) /\ Restores(t, c) /\ (t[2] = Lock => t[1] \notin wanted)
                                  => Sought(t, c)' \/ t \in others'
  PROVE  Backward' /\ Undoing'
<1>1. Backward'
  <2> SUFFICES ASSUME mode = "rollback", NEW t \in Plain'
               PROVE  Sought(t, Base(t))' /\ Restores(t, Base(t))'
    BY DEF Backward
  <2>1. t \in Plain /\ t \in Target /\ t \notin others' /\ t[2] # Lock /\ Base(t)' = Base(t)
    BY DEF Plain, Base
  <2>2. PICK c : c = Base(t)
    OBVIOUS
  <2>3. Sought(t, c) /\ Restores(t, c)
    BY <2>1, <2>2 DEF Backward
  <2>4. Sought(t, c)' /\ Restores(t, c)'
    BY <2>1, <2>3
  <2> QED
    BY <2>1, <2>2, <2>4 DEF Sought, Restores, Planned, Making
<1>2. Undoing'
  <2>1. SUFFICES ASSUME mode = "undo", NEW k \in Due(source)'
               PROVE  /\ \/ Acts(source)'[k].target \in others'
                         \/ Sought(Acts(source)[k].target, Acts(source)[k].before)'
                      /\ Restores(Acts(source)[k].target, Acts(source)[k].before)'
                      /\ Acts(source)'[k].target[2] = Lock => Acts(source)'[k].target[1] \notin wanted'
    BY DEF Undoing
  <2>2. source \in DOMAIN runs /\ source < Now
    BY <2>1 DEF Types, Journals, Now
  <2>3. runs'[source] = runs[source] /\ source' = source
    BY <2>2
  <2>4. Acts(source)' = Acts(source) /\ k \in Due(source)
    BY <2>3 DEF Acts, Due
  <2>5. PICK t \in Target : t = Acts(source)[k].target
    BY <2>2, <2>4, ActsTyped DEF Types, Due, Acts
  <2>6. PICK c : c = Acts(source)[k].before
    OBVIOUS
  <2>7. /\ t \in others \/ Sought(t, c)
        /\ Restores(t, c) /\ (t[2] = Lock => t[1] \notin wanted)
    BY <2>1, <2>4, <2>5, <2>6 DEF Undoing
  <2>8. (t \in others' \/ Sought(t, c)') /\ Restores(t, c)' /\ (t[2] = Lock => t[1] \notin wanted')
    BY <2>7
  <2>9. Acts(source)'[k].target = t /\ Acts(source)'[k].before = c
    BY <2>4, <2>5, <2>6
  <2> QED
    BY <2>8, <2>9 DEF Sought, Restores, Planned, Making
<1> QED
  BY <1>1, <1>2

\* Every command begins a run.
LEMMA BeginKeeps ==
  ASSUME RepairsInv, pc = "idle", NEW kind \in {"fix", "undo"}, NEW steps, NEW locks, NEW of,
         Begin(kind, steps, locks, of),
         steps \subseteq Plan, \A p \in steps : Fits(p.expect, p.to, p.target),
         \A p, q \in steps : p # q => Apart(p.target, q.target),
         locks \subseteq Bundle, of \in 0..Now,
         kind = "undo" => /\ of \in DOMAIN runs
                          /\ \A k \in Due(of) :
                               /\ \/ At(Acts(of)[k].target) = Acts(of)[k].before
                                  \/ \E p \in steps : /\ p.target = Acts(of)[k].target
                                                      /\ p.to = Acts(of)[k].before
                               /\ \A p \in steps : p.target = Acts(of)[k].target => p.to = Acts(of)[k].before
                               /\ Acts(of)[k].target[2] = Lock => Acts(of)[k].target[1] \notin locks
  PROVE  RepairsInv'
<1> USE DEF Begin, Goto
<1>1. Types /\ Shape /\ Locks
  BY DEF RepairsInv
<1>2. runs \in Journals /\ runs' = NewRun(kind) /\ kind \in Kinds
  BY <1>1 DEF Types, Kinds
<1>3. /\ runs' \in Journals /\ Now \in Nat /\ Now' = Now + 1
      /\ DOMAIN runs' = DOMAIN runs \cup {Now'}
      /\ \A i \in DOMAIN runs : runs'[i] = runs[i]
      /\ Acts(Now)' = <<>>
  BY <1>2, AddOne
<1>4. DOMAIN runs = 1..Now
  BY <1>2 DEF Journals, Now
<1>5. \A i \in DOMAIN runs : Acts(i)' = Acts(i)
  BY <1>3 DEF Acts
<1>6. \A i \in DOMAIN runs' : i \in DOMAIN runs \/ Acts(i)' = <<>>
  BY <1>3
<1>7. /\ UNCHANGED <<file, sound, session, blank, moved, raced, faults>> /\ pc' = "lock"
      /\ mode' = kind /\ plans' = steps /\ wanted' = locks /\ held' = {} /\ source' = of
      /\ start' = file /\ others' = {} /\ exit' = "none"
  OBVIOUS
<1> HIDE DEF Begin
<1>8. \A t \in Target : At(t)' = At(t) /\ Base(t)' = At(t)
  BY <1>7 DEF At, Base
<1>9. Types'
  <2>1. \A i \in DOMAIN runs' : \A k \in DOMAIN Acts(i)' :
            Fits(Acts(i)'[k].before, Acts(i)'[k].after, Acts(i)'[k].target)
    BY <1>1, <1>5, <1>6 DEF Types
  <2>2. of \in 0..Now' /\ (kind = "undo" => of \in 1..(Now' - 1))
    BY <1>3, <1>4
  <2> QED
    BY <1>1, <1>2, <1>3, <1>7, <1>8, <2>1, <2>2 DEF Types, Midway, Taking
<1>10. Shape'
  <2>1. \A i \in DOMAIN runs' : \A k, l \in DOMAIN Acts(i)' :
           k # l => Apart(Acts(i)'[k].target, Acts(i)'[l].target)
    BY <1>1, <1>5, <1>6 DEF Shape
  <2> QED
    BY <2>1, <1>3, <1>7 DEF Shape
<1>11. Locks'
  BY <1>1, <1>7, LocksStay
<1>12. Window' /\ Quiet' /\ Known'
  BY <1>3, <1>7 DEF Window, Quiet, Known, Midway, Taking
<1>13. Forward'
  <2>1. Due(Now)' = {}
    BY <1>3 DEF Due, Acts
  <2> QED
    BY <2>1, <1>8 DEF Forward, Plain, Target
<1>14. Backward' /\ Reverted'
  BY <1>7 DEF Backward, Reverted
<1>15. Undoing'
  <2>1. SUFFICES ASSUME kind = "undo", NEW k \in Due(of)'
        PROVE  /\ Sought(Acts(of)[k].target, Acts(of)[k].before)'
               /\ Restores(Acts(of)[k].target, Acts(of)[k].before)'
               /\ Acts(of)'[k].target[2] = Lock => Acts(of)'[k].target[1] \notin wanted'
    BY <1>7 DEF Undoing, Active
  <2>2. of \in DOMAIN runs /\ Acts(of)' = Acts(of) /\ k \in Due(of)
    BY <2>1, <1>5 DEF Due, Acts
  <2>3. Acts(of)[k].target \in Target
    BY <2>2, <1>2, ActsTyped DEF Acts, Due
  <2> QED
    BY <2>1, <2>2, <2>3, <1>7, <1>8 DEF Planned, Sought, Restores, Midway
<1> QED
  BY <1>9, <1>10, <1>11, <1>12, <1>13, <1>14, <1>15 DEF RepairsInv

\* A repair plans for what it found, and a dead lock alone.
LEMMA FixKeeps ==
  ASSUME RepairsInv, NEW checks, NEW scanned \in SUBSET Bundle, Fix(checks, scanned)
  PROVE  RepairsInv'
<1> DEFINE found == Fixable(checks, scanned)
           step(t) == [target |-> t, expect |-> At(t),
                       to |-> IF t[2] \in Generated THEN "fresh" ELSE "absent", turn |-> 0]
           steps == {step(t) : t \in found}
<1>1. pc = "idle" /\ PreflightOK(found) /\ Begin("fix", steps, ToLock(found), 0)
  BY DEF Fix
<1>2. Types
  BY DEF RepairsInv
<1>3. found \subseteq Target /\ \A t \in found : Amiss(t, checks)
  BY DEF Fixable, Target
<1>4. \A t \in found : t[2] = Lock => At(t) \in {"empty", "dead", "orphan"}
  <2> SUFFICES ASSUME NEW t \in found, t[2] = Lock PROVE At(t) \in {"empty", "dead", "orphan"}
    OBVIOUS
  <2>1. LockState(At(t)) = "stale"
    <3>1. Lock # "hydration.json" /\ t[2] \notin Generated
      BY LeafFacts DEF Lock
    <3>2. Amiss(t, checks)
      BY <1>3
    <3> QED
      BY <3>1, <3>2 DEF Amiss
  <2> QED
    BY <2>1 DEF LockState
<1>5. \A t \in found : step(t) \in Plan /\ Fits(step(t).expect, step(t).to, step(t).target)
  <2> SUFFICES ASSUME NEW t \in found
               PROVE  step(t) \in Plan /\ Fits(step(t).expect, step(t).to, step(t).target)
    OBVIOUS
  <2>1. t \in Target /\ t[2] \in Leaf /\ At(t) \in Contents(t[2])
    BY <1>2, <1>3, LeafFacts DEF Types
  <2>2. At(t) \in Past(t[2])
    BY <1>4, <2>1 DEF Past
  <2>3. step(t).to \in Past(t[2])
    BY <2>1, LeafFacts
  <2>4. step(t).to \in Content /\ At(t) \in Content
    BY <2>1, <2>2, <2>3, LeafFacts
  <2>5. step(t) \in Plan
    BY <2>1, <2>4 DEF Plan
  <2> QED
    BY <2>2, <2>3, <2>5 DEF Fits
<1>6. \A t, u \in found : t # u => Apart(t, u)
  <2> SUFFICES ASSUME NEW t \in found, NEW u \in found, t # u, t[1] = u[1]
               PROVE  t[2] # Lock
    BY DEF Apart
  <2>1. SUFFICES ASSUME t[2] = Lock PROVE FALSE
    OBVIOUS
  <2>2. At(t) \in {"empty", "dead", "orphan"} /\ At(t) = file[t[1]][Lock]
    BY <1>4, <2>1 DEF At
  <2>3. LockState(file[t[1]][Lock]) = "stale"
    BY <2>2 DEF LockState
  <2>4. FixersOf(t[1], found) = {<<t[1], Lock>>}
    BY <1>1, <2>3 DEF PreflightOK
  <2>5. t \in FixersOf(t[1], found) /\ u \in FixersOf(t[1], found)
    BY DEF FixersOf
  <2> QED
    BY <2>4, <2>5
<1>7. ToLock(found) \subseteq Bundle
  BY <1>3, LeafFacts DEF ToLock
<1>8. 0 \in 0..Now
  BY <1>2 DEF Types, Journals, Now
<1>9. /\ steps \subseteq Plan /\ \A p \in steps : Fits(p.expect, p.to, p.target)
      /\ \A p, q \in steps : p # q => Apart(p.target, q.target)
  <2>1. \A t \in found : step(t).target = t
    OBVIOUS
  <2> HIDE DEF step, found
  <2> QED
    BY <1>5, <1>6, <2>1
<1> HIDE DEF found, steps, step
<1> QED
  BY <1>1, <1>7, <1>8, <1>9, BeginKeeps

\* An undo plans for what the run changed.
LEMMA UndoKeeps ==
  ASSUME RepairsInv, NEW i \in DOMAIN runs, Undo(i)
  PROVE  RepairsInv'
<1>1. pc = "idle" /\ Begin("undo", InversePlans(i), UndoLocks(i), i)
  BY DEF Undo
<1>2. Types /\ Shape
  BY DEF RepairsInv
<1>3. \A k \in DOMAIN Acts(i) : Acts(i)[k].target \in Target
  BY <1>2, ActsTyped DEF Types
<1>4. Changed(i) \subseteq Due(i) /\ Due(i) \subseteq DOMAIN Acts(i)
  BY DEF Changed, Due, Acts
<1>5. UndoLocks(i) \subseteq Bundle
  BY <1>3, <1>4, LeafFacts DEF UndoLocks, Acts
<1>6. i \in 0..Now
  BY <1>2 DEF Types, Journals, Now
<1>7. ASSUME NEW k \in Due(i)
      PROVE  \/ At(Acts(i)[k].target) = Acts(i)[k].before
             \/ \E p \in InversePlans(i) : p.target = Acts(i)[k].target /\ p.to = Acts(i)[k].before
  <2>1. SUFFICES ASSUME At(Acts(i)[k].target) # Acts(i)[k].before
        PROVE  \E p \in InversePlans(i) : p.target = Acts(i)[k].target /\ p.to = Acts(i)[k].before
    OBVIOUS
  <2> DEFINE plan == [target |-> runs[i].acts[k].target, expect |-> runs[i].acts[k].after,
                      to |-> runs[i].acts[k].before, turn |-> k]
  <2>2. k \in Changed(i)
    BY <2>1 DEF Changed, Acts
  <2>3. plan \in InversePlans(i)
    BY <2>2 DEF InversePlans
  <2>4. plan.target = Acts(i)[k].target /\ plan.to = Acts(i)[k].before
    BY DEF Acts
  <2> QED
    BY <2>3, <2>4
<1>8. ASSUME NEW k \in Due(i), Acts(i)[k].target[2] = Lock
      PROVE  Acts(i)[k].target[1] \notin UndoLocks(i)
  <2> SUFFICES ASSUME NEW l \in DOMAIN Acts(i), Acts(i)[l].target[1] = Acts(i)[k].target[1],
                      Acts(i)[l].target[2] # Lock
               PROVE  FALSE
    BY <1>4 DEF UndoLocks, Acts
  <2> QED
    BY <1>2, <1>4, <1>8 DEF Shape, Apart
<1>9. ASSUME NEW k \in Due(i), NEW p \in InversePlans(i), p.target = Acts(i)[k].target
      PROVE  p.to = Acts(i)[k].before
  BY <1>2, <1>9, InverseRestores
<1> QED
  BY <1>1, <1>2, <1>5, <1>6, <1>7, <1>8, <1>9, InverseFits, BeginKeeps

\* What `gc` empties was resolved.
LEMMA GcKeeps ==
  ASSUME RepairsInv, NEW n \in DOMAIN runs, Gc(n)
  PROVE  RepairsInv'
<1>1. Types /\ Shape /\ Locks /\ Known
  BY DEF RepairsInv
<1>2. /\ runs' \in Journals /\ Now' = Now /\ DOMAIN runs' = DOMAIN runs
      /\ runs'[Now] = runs[Now] /\ \A i \in DOMAIN runs : Acts(i)' \in {Acts(i), <<>>}
  BY <1>1, Collected DEF Types
<1>3. /\ pc = "idle" /\ exit' = "none" /\ UNCHANGED <<file, sound, session, blank, doctor, ghosts, faults>>
  BY DEF Gc
<1>4. /\ pc' = "idle" /\ mode' = mode /\ plans' = plans /\ start' = start /\ others' = others
      /\ wanted' = wanted /\ held' = held /\ source' = source /\ moved' = moved /\ raced' = raced
  BY <1>3 DEF doctor, ghosts
<1>5. \A t \in Target : At(t)' = At(t)
  BY <1>3 DEF At
<1>6. Acts(Now)' = Acts(Now)
  BY <1>2 DEF Acts
<1>7. Types'
  <2>1. \A i \in DOMAIN runs' : \A k \in DOMAIN Acts(i)' :
            Fits(Acts(i)'[k].before, Acts(i)'[k].after, Acts(i)'[k].target)
    BY <1>1, <1>2 DEF Types
  <2> QED
    BY <1>1, <1>2, <1>3, <1>4, <1>5, <2>1 DEF Types, Midway
<1>8. Shape'
  BY <1>1, <1>2, <1>4 DEF Shape
<1>9. Locks'
  BY <1>1, <1>3, <1>4, LocksStay
<1>10. Known'
  <2>1. runs # <<>>
    OBVIOUS
  <2>2. Now \in DOMAIN runs
    BY <1>1 DEF Types, Journals, Now
  <2>3. \A k \in DOMAIN Acts(Now) : Acts(Now)[k].target \in Target
    BY <2>2, <1>1, ActsTyped DEF Types
  <2> QED
    BY <1>1, <1>4, <1>5, <1>6, <2>1, <2>3 DEF Known
<1>11. mode' = "fix"
  BY <1>1, <1>3, <1>4 DEF Types
<1> QED
  BY <1>3, <1>4, <1>7, <1>8, <1>9, <1>10, <1>11
  DEF RepairsInv, Window, Quiet, Forward, Backward, Reverted, Undoing, Midway, Taking

-----------------------------------------------------------------------------
(* The steps of the doctor. *)

\* Those that only lead it on, or to its end.
LEMMA PcKeeps ==
  ASSUME RepairsInv,
         UNCHANGED <<file, sound, session, blank, runs, mode, plans, wanted, held, source, moved, ghosts>>,
         faults' \in Nat,
         \/ pc = "lock" /\ pc' = "apply" /\ exit' = exit
         \/ pc = "check" /\ pc' = "commit" /\ exit' = exit /\ Unchanged
         \/ pc \in {"lock", "apply", "fail"} /\ pc' = "fail" /\ exit' = exit
         \/ pc \in {"lock", "apply", "fail"} /\ pc' = "release" /\ exit' \in {"fixed", "error"}
         \/ pc = "apply" /\ pc' = "release" /\ exit' = "reverted" /\ mode = "rollback" /\ plans = {}
  PROVE  RepairsInv'
<1> USE DEF Taking
<1>1. Types /\ Shape /\ Locks /\ Window /\ Quiet /\ Known
      /\ Forward /\ Backward /\ Reverted /\ Undoing
  BY DEF RepairsInv
<1>2. /\ UNCHANGED <<file, sound, session, blank, runs, mode, plans, wanted, held, source, moved>>
      /\ UNCHANGED <<start, others, raced>> /\ pc # "idle" /\ pc # "release"
  BY DEF ghosts
<1>3. Now' = Now /\ LastAct' = LastAct /\ Current' = Current
      /\ \A i \in DOMAIN runs : Acts(i)' = Acts(i) /\ Due(i)' = Due(i)
  BY <1>2 DEF Now, LastAct, Current, Acts, Due
<1>4. \A t \in Target : At(t)' = At(t) /\ Base(t)' = Base(t)
  BY <1>2 DEF At, Base
<1>5. Plain' = Plain /\ \A t, c : Planned(t, c)' = Planned(t, c)
  BY <1>2 DEF Plain, Planned
<1>6. Now \in DOMAIN runs /\ Acts(Now)' = Acts(Now) /\ Due(Now)' = Due(Now)
      /\ \A k \in DOMAIN Acts(Now) : Acts(Now)[k].target \in Target
  <2>1. Now \in DOMAIN runs
    BY <1>1, <1>2 DEF Types, Journals, Now
  <2> QED
    BY <2>1, <1>1, <1>2, ActsTyped DEF Types, Acts, Due, Now
<1>7. exit # "reverted" /\ pc \in {"lock", "apply", "fail", "check"}
  BY <1>1, <1>2 DEF Types
<1>8. Types'
  BY <1>1, <1>2, <1>3, <1>4, <1>7 DEF Types, Midway
<1>9. Shape'
  BY <1>1, <1>2, <1>3, <1>6 DEF Shape
<1>10. Locks'
  <2>1. pc' \notin {"unlink", "own"}
    OBVIOUS
  <2> QED
    BY <1>1, <1>2, <2>1, LocksStay
<1>11. Window'
  BY <1>2, <1>3, <1>4 DEF Window, Unchanged, At
<1>12. Quiet'
  BY <1>1, <1>3, <1>6, <1>7 DEF Quiet, Midway, Taking
<1>13. Known'
  BY <1>1, <1>2, <1>4, <1>6 DEF Known
<1>14. Forward'
  BY <1>1, <1>2, <1>4, <1>5, <1>6 DEF Forward, Plain
<1>15. Backward' /\ Undoing'
  <2>1. CASE pc' \in {"fail", "release"}
    BY <2>1 DEF Backward, Undoing, Active
  <2>2. CASE pc' \in {"apply", "commit"} /\ pc # "apply"
    <3>1. Midway' <=> Midway
      BY <1>7, <2>2 DEF Midway
    <3>2. \A t \in Target : \A c : /\ Restores(t, c) => Restores(t, c)'
                                   /\ Sought(t, c) => Sought(t, c)'
      BY <3>1, <1>2, <1>3, <1>4, <1>5 DEF Restores, Sought, Making
    <3>3. Active
      BY <2>2, <1>7 DEF Active
    <3> QED
      BY <3>2, <3>3, <1>1, <1>2, Onwards
  <2> QED
    BY <2>1, <2>2, <1>7
<1>16. Reverted'
  <2>1. CASE exit' = "reverted"
    BY <2>1, <1>1, <1>2, <1>4, <1>5, <1>7 DEF Reverted, Backward, Sought, Active, Plain, Planned, Making, Midway
  <2>2. CASE exit' # "reverted"
    BY <2>2 DEF Reverted
  <2> QED
    BY <2>1, <2>2
<1> QED
  BY <1>8, <1>9, <1>10, <1>11, <1>12, <1>13, <1>14, <1>15, <1>16 DEF RepairsInv

\* A step on the way to the lock of a bundle touches that lock and nothing else.
LEMMA TakingKeeps ==
  ASSUME RepairsInv, Locks', pc \in Taking, NEW b \in wanted, NEW c \in Contents(Lock),
         file' = file \/ Write(<<b, Lock>>, c),
         UNCHANGED <<sound, runs, mode, plans, source, moved, ghosts>>,
         wanted' \subseteq wanted, held' \subseteq Bundle, faults' \in Nat,
         \/ pc' \in Taking /\ exit' = exit
         \/ pc' = "release" /\ exit' = "error"
  PROVE  RepairsInv'
<1> USE DEF Taking
<1>1. Types /\ Shape /\ Locks /\ Quiet /\ Forward /\ Backward /\ Undoing
  BY DEF RepairsInv
<1>2. UNCHANGED <<sound, runs, mode, plans, source, moved, start, others, raced>> /\ b \in Bundle
  BY <1>1 DEF ghosts, Types
<1> DEFINE l == <<b, Lock>>
<1>3. l \in Target /\ l[1] = b /\ l[2] = Lock /\ c \in Content
  BY <1>2, LeafFacts
<1>4. /\ file' \in [Bundle -> [Leaf -> Content]] /\ At(l)' \in Contents(Lock)
      /\ \A t \in Target : t # l => At(t)' = At(t)
  <2>1. CASE file' = file
    BY <2>1, <1>1, <1>3 DEF Types, At
  <2>2. CASE Write(l, c)
    BY <2>2, <1>1, <1>3, WriteOne DEF Types
  <2> QED
    BY <2>1, <2>2
<1> HIDE DEF l
<1>5. /\ Now' = Now /\ LastAct' = LastAct /\ Current' = Current /\ Acts(Now)' = Acts(Now)
      /\ \A i \in DOMAIN runs : Acts(i)' = Acts(i) /\ Due(i)' = Due(i)
  BY <1>2 DEF Now, LastAct, Current, Acts, Due
<1>6. Plain' = Plain /\ \A t \in Target : Base(t)' = Base(t)
  BY <1>2 DEF Plain, Base
<1>7. \A t \in Plain : t \in Target /\ At(t)' = At(t)
  BY <1>3, <1>4 DEF Plain
<1>8. exit' # "reverted" /\ exit' \in {"none", "fixed", "undone", "reverted", "error", "interrupt"}
  BY <1>1 DEF Types
<1>9. Types'
  <2>1. \A t \in Target : At(t)' \in Contents(t[2])
    BY <1>1, <1>3, <1>4 DEF Types
  <2>2. ~Midway' /\ pc # "idle" /\ pc' # "idle" /\ pc' # "verify"
    BY DEF Midway
  <2>3. wanted' \subseteq Bundle
    BY <1>1 DEF Types
  <2> QED
    BY <1>1, <1>2, <1>4, <1>5, <1>8, <2>1, <2>2, <2>3 DEF Types
<1>10. Window' /\ Reverted'
  BY <1>8 DEF Window, Reverted
<1>11. Quiet' /\ Known'
  BY <1>1, <1>5 DEF Quiet, Known, Midway
<1>12. Shape'
  BY <1>1, <1>2, <1>5 DEF Shape
<1>13. Forward'
  <2>1. Due(Now)' = Due(Now) /\ Due(Now) = {}
    BY <1>1, <1>2, <1>5 DEF Quiet, Due, Acts
  <2> QED
    BY <1>1, <1>2, <1>5, <1>6, <1>7, <2>1 DEF Forward
<1>14. Backward' /\ Undoing'
  <2>1. CASE pc' = "release"
    BY <2>1 DEF Backward, Undoing, Active
  <2>2. CASE pc' # "release"
    <3>1. ~Midway /\ ~Midway' /\ Active
      BY <2>2 DEF Midway, Active
    <3>2. \A t \in Target : \A x : Restores(t, x) => Restores(t, x)'
      BY <1>2, <3>1 DEF Restores
    <3>3. \A t \in Target : \A x : Sought(t, x) /\ (t[2] = Lock => t[1] \notin wanted) => Sought(t, x)'
      <4> SUFFICES ASSUME NEW t \in Target, NEW x, Sought(t, x), t[2] = Lock => t[1] \notin wanted
                   PROVE  Sought(t, x)'
        OBVIOUS
      <4>1. t # l
        BY <1>3
      <4>2. At(t)' = At(t)
        BY <4>1, <1>4
      <4> QED
        BY <4>2, <3>1, <1>2 DEF Sought, Planned, Making
    <3> QED
      BY <3>1, <3>2, <3>3, <1>1, <1>2, Onwards
  <2> QED
    BY <2>1, <2>2
<1> QED
  BY <1>9, <1>10, <1>11, <1>12, <1>13, <1>14 DEF RepairsInv

\* What becomes of the lock of a bundle whose turn it is.
LEMMA TurnLocks ==
  ASSUME Types, Locks, NEW b \in Bundle, NEW c \in Content, Write(<<b, Lock>>, c),
         NEW maker \in Makers, blank' = [blank EXCEPT ![b] = maker],
         UNCHANGED <<session, raced>>,
         pc' \notin {"unlink", "own"} \/ Turn(b)',
         (maker # "none" => c = "empty") /\ maker # "archive",
         raced \/ (file[b][Lock] # "live" /\ blank[b] # "archive"),
         pc' # "unlink", pc' = "own" => maker = "doctor"
  PROVE  Locks'
<1>1. <<b, Lock>> \in Target /\ \A d \in Bundle : <<d, Lock>> \in Target
  BY LeafFacts
<1>2. At(<<b, Lock>>)' = c /\ \A u \in Target : u # <<b, Lock>> => At(u)' = At(u)
  BY <1>1, WriteOne DEF Types
<1>3. file'[b][Lock] = c /\ \A d \in Bundle \ {b} : file'[d][Lock] = file[d][Lock]
  <2>1. file'[b][Lock] = c
    BY <1>2 DEF At
  <2>2. ASSUME NEW d \in Bundle \ {b} PROVE file'[d][Lock] = file[d][Lock]
    <3>1. <<d, Lock>> # <<b, Lock>>
      OBVIOUS
    <3>2. At(<<d, Lock>>)' = At(<<d, Lock>>)
      BY <1>1, <1>2, <3>1
    <3> QED
      BY <3>2 DEF At
  <2> QED
    BY <2>1, <2>2
<1>4. blank' \in [Bundle -> Makers] /\ blank'[b] = maker
      /\ \A d \in Bundle \ {b} : blank'[d] = blank[d] /\ session'[d] = session[d]
  BY DEF Locks
<1>5. LockOf(b)
  BY DEF Locks
<1>6. LockOf(b)'
  BY <1>3, <1>4, <1>5 DEF LockOf
<1> QED
  BY <1>3, <1>4, <1>6, LocksOne DEF Locks

\* The lock of a bundle is looked at, unlinked, created and owned.
LEMMA AcquireKeeps ==
  ASSUME RepairsInv, NEW b \in Bundle, Look(b) \/ Unlink(b) \/ Create(b) \/ Own(b) \/ OwnFails(b)
  PROVE  RepairsInv'
<1> USE DEF Taking
<1>1. Types /\ Locks
  BY DEF RepairsInv
<1>2. faults \in Nat /\ wanted \subseteq Bundle /\ held \subseteq Bundle /\ LockOf(b)
  BY <1>1 DEF Types, Locks
<1>3. /\ {"absent", "empty", "doctor"} \subseteq Contents(Lock)
      /\ {"absent", "empty", "doctor"} \subseteq Content
      /\ "none" \in Makers /\ "doctor" \in Makers
  BY LeafFacts DEF Makers
<1>4. CASE Look(b)
  <2>1. /\ pc = "lock" /\ Turn(b) /\ b \in wanted
        /\ UNCHANGED <<file, sound, session, blank, runs, mode, plans, wanted, held, source, moved,
                       ghosts, faults>>
        /\ UNCHANGED <<file, session, blank, raced, wanted>>
    BY <1>4 DEF Look, Turn, ghosts
  <2>2. CASE Reclaimable(b)
    <3>1. pc' = "unlink" /\ exit' = exit /\ file[b][Lock] = "orphan" /\ Turn(b)'
      BY <1>4, <2>1, <2>2 DEF Look, Goto, Reclaimable, Turn
    <3>2. LockOf(b)'
      BY <1>2, <2>1, <3>1 DEF LockOf
    <3>3. Locks'
      BY <1>1, <2>1, <3>1, <3>2, LocksOne DEF Locks
    <3> QED
      BY <1>2, <1>3, <2>1, <3>1, <3>3, TakingKeeps
  <2>3. CASE ~Reclaimable(b)
    <3>1. pc' = "release" /\ exit' = "error"
      BY <1>4, <2>3 DEF Look, Goto, Blocked
    <3>2. Locks'
      BY <1>1, <2>1, <3>1, LocksStay
    <3> QED
      BY <1>2, <1>3, <2>1, <3>1, <3>2, TakingKeeps
  <2> QED
    BY <2>2, <2>3
<1>5. CASE Unlink(b)
  <2>1. /\ pc = "unlink" /\ Turn(b) /\ b \in wanted
        /\ Write(<<b, Lock>>, "absent") /\ blank' = [blank EXCEPT ![b] = "none"]
        /\ UNCHANGED <<sound, session, runs, mode, plans, wanted, held, source, moved, ghosts, faults>>
        /\ UNCHANGED <<session, raced>>
        /\ (pc' = "create" /\ exit' = exit) \/ (pc' = "release" /\ exit' = "error")
    BY <1>5 DEF Unlink, Turn, ghosts, Goto, Blocked
  <2>2. raced \/ (file[b][Lock] # "live" /\ blank[b] # "archive")
    BY <1>2, <2>1 DEF LockOf
  <2>3. Locks'
    BY <1>1, <1>3, <2>1, <2>2, TurnLocks
  <2> QED
    BY <1>2, <1>3, <2>1, <2>3, TakingKeeps
<1>6. CASE Create(b)
  <2>1. /\ pc \in {"create", "lock"} /\ Turn(b) /\ b \in wanted
        /\ UNCHANGED <<sound, session, runs, mode, plans, wanted, held, source, moved, ghosts, faults>>
        /\ UNCHANGED <<session, raced, wanted>>
    BY <1>6 DEF Create, Turn, ghosts
  <2>2. CASE file[b][Lock] = "absent"
    <3>1. /\ Write(<<b, Lock>>, "empty") /\ blank' = [blank EXCEPT ![b] = "doctor"]
          /\ pc' = "own" /\ exit' = exit /\ Turn(b)'
      BY <1>6, <2>1, <2>2 DEF Create, Goto, Turn
    <3>2. file[b][Lock] # "live" /\ blank[b] # "archive"
      BY <1>2, <2>2 DEF LockOf
    <3>3. Locks'
      BY <1>1, <1>3, <2>1, <3>1, <3>2, TurnLocks
    <3> QED
      BY <1>2, <1>3, <2>1, <3>1, <3>3, TakingKeeps
  <2>3. CASE file[b][Lock] # "absent"
    <3>1. pc' = "release" /\ exit' = "error" /\ UNCHANGED <<file, blank>>
      BY <1>6, <2>3 DEF Create, Goto, Blocked
    <3>2. Locks'
      BY <1>1, <2>1, <3>1, LocksStay
    <3> QED
      BY <1>2, <1>3, <2>1, <3>1, <3>2, TakingKeeps
  <2> QED
    BY <2>2, <2>3
<1>7. CASE Own(b)
  <2>1. /\ pc = "own" /\ Turn(b) /\ b \in wanted /\ pc' = "lock" /\ exit' = exit
        /\ held' = held \cup {b} /\ wanted' = wanted \ {b}
        /\ UNCHANGED <<sound, runs, mode, plans, source, moved, ghosts>>
        /\ UNCHANGED <<session, raced, faults>>
    BY <1>7 DEF Own, Turn, ghosts, Goto
  <2>2. CASE blank[b] = "doctor"
    <3>1. Write(<<b, Lock>>, "doctor") /\ blank' = [blank EXCEPT ![b] = "none"]
      BY <1>7, <2>2 DEF Own
    <3>2. file[b][Lock] # "live" /\ blank[b] # "archive"
      BY <1>2, <2>2 DEF LockOf
    <3>3. Locks'
      BY <1>1, <1>3, <2>1, <3>1, <3>2, TurnLocks
    <3> QED
      BY <1>2, <1>3, <2>1, <3>1, <3>3, TakingKeeps
  <2>3. CASE blank[b] # "doctor"
    <3>1. UNCHANGED <<file, blank>>
      BY <1>7, <2>3 DEF Own
    <3>2. Locks'
      BY <1>1, <2>1, <3>1, LocksStay
    <3> QED
      BY <1>2, <1>3, <2>1, <3>1, <3>2, TakingKeeps
  <2> QED
    BY <2>2, <2>3
<1>8. CASE OwnFails(b)
  <2>1. /\ pc = "own" /\ Turn(b) /\ b \in wanted /\ pc' = "release" /\ exit' = "error"
        /\ Write(<<b, Lock>>, "absent") /\ blank' = [blank EXCEPT ![b] = "none"]
        /\ UNCHANGED <<sound, session, runs, mode, plans, wanted, held, source, moved, ghosts>>
        /\ UNCHANGED <<session, raced>> /\ faults' \in Nat
    BY <1>2, <1>8 DEF OwnFails, Turn, ghosts, Goto, Blocked, Fault
  <2>2. raced \/ (file[b][Lock] # "live" /\ blank[b] # "archive")
    BY <1>2, <2>1 DEF LockOf
  <2>3. Locks'
    BY <1>1, <1>3, <2>1, <2>2, TurnLocks
  <2> QED
    BY <1>2, <1>3, <2>1, <2>3, TakingKeeps
<1> QED
  BY <1>4, <1>5, <1>6, <1>7, <1>8

\* The command ends: its own locks are given back, or orphaned by a crash.
LEMMA EndKeeps ==
  ASSUME RepairsInv, Release \/ Crash
  PROVE  RepairsInv'
<1>1. Types /\ Shape /\ Locks /\ Known
  BY DEF RepairsInv
<1>2. PICK S \in SUBSET Bundle, c \in {"absent", "orphan"} :
         file' = [b \in Bundle |-> IF b \in S /\ file[b][Lock] = "doctor"
                                  THEN [file[b] EXCEPT ![Lock] = c] ELSE file[b]]
  <2>1. CASE Release
    BY <2>1, <1>1 DEF Release, Types
  <2>2. CASE Crash
    <3>1. file' = [b \in Bundle |-> IF b \in Bundle /\ file[b][Lock] = "doctor"
                                  THEN [file[b] EXCEPT ![Lock] = "orphan"] ELSE file[b]]
      BY <2>2 DEF Crash
    <3> QED
      BY <3>1
  <2> QED
    BY <2>1, <2>2
<1>3. /\ pc # "idle" /\ pc' = "idle" /\ exit' = "none" /\ plans' = {} /\ wanted' = {} /\ held' = {}
      /\ source' = 0 /\ moved' = "absent" /\ mode' = "fix" /\ start' = file' /\ faults' \in Nat
      /\ UNCHANGED <<sound, session, runs, others, raced>>
      /\ blank' = blank \/ blank' = [b \in Bundle |-> IF blank[b] = "doctor" THEN "none" ELSE blank[b]]
  BY <1>1 DEF Release, Crash, Goto, Fault, Types
<1>4. Lock \in Leaf /\ "absent" \in Content /\ c \in Content /\ c \in Contents(Lock)
  BY LeafFacts
<1>5. \A b \in Bundle : /\ file'[b] \in [Leaf -> Content]
                        /\ \A leaf \in Leaf : leaf # Lock => file'[b][leaf] = file[b][leaf]
                        /\ file'[b][Lock] = file[b][Lock] \/ (file[b][Lock] = "doctor" /\ file'[b][Lock] = c)
  <2> SUFFICES ASSUME NEW b \in Bundle
      PROVE /\ file'[b] \in [Leaf -> Content]
            /\ \A leaf \in Leaf : leaf # Lock => file'[b][leaf] = file[b][leaf]
            /\ file'[b][Lock] = file[b][Lock] \/ (file[b][Lock] = "doctor" /\ file'[b][Lock] = c)
    OBVIOUS
  <2>1. file[b] \in [Leaf -> Content]
    BY <1>1 DEF Types
  <2>2. file'[b] = IF b \in S /\ file[b][Lock] = "doctor" THEN [file[b] EXCEPT ![Lock] = c] ELSE file[b]
    BY <1>2
  <2>3. CASE b \in S /\ file[b][Lock] = "doctor"
    BY <2>1, <2>2, <2>3, <1>4
  <2>4. CASE ~(b \in S /\ file[b][Lock] = "doctor")
    BY <2>1, <2>2, <2>4
  <2> QED
    BY <2>3, <2>4
<1>6. file' \in [Bundle -> [Leaf -> Content]]
  BY <1>2, <1>5
<1>7. \A t \in Target : At(t)' = At(t) \/ (t[2] = Lock /\ At(t) = "doctor" /\ At(t)' = c)
  <2> SUFFICES ASSUME NEW t \in Target
      PROVE At(t)' = At(t) \/ (t[2] = Lock /\ At(t) = "doctor" /\ At(t)' = c)
    OBVIOUS
  <2>1. t[1] \in Bundle /\ t[2] \in Leaf
    BY DEF Target
  <2> QED
    BY <2>1, <1>5 DEF At
<1>8. Now' = Now /\ Acts(Now)' = Acts(Now) /\ \A i \in DOMAIN runs : Acts(i)' = Acts(i)
  BY <1>3 DEF Now, Acts
<1>9. Types'
  <2>1. \A t \in Target : At(t)' \in Contents(t[2])
    BY <1>1, <1>4, <1>7 DEF Types
  <2>2. 0 \in 0..Now'
    BY <1>1, <1>8 DEF Types, Journals, Now
  <2> QED
    BY <1>1, <1>3, <1>4, <1>6, <1>8, <2>1, <2>2 DEF Types, Midway, Kinds, Taking
<1>10. Locks'
  <2>1. blank' \in [Bundle -> Makers] /\ \A b \in Bundle : blank'[b] \in {blank[b], "none"}
                                   /\ (blank[b] = "archive" => blank'[b] = "archive")
    BY <1>1, <1>3 DEF Locks, Makers
  <2>2. ASSUME NEW b \in Bundle PROVE LockOf(b)'
    <3>1. LockOf(b)
      BY <1>1 DEF Locks
    <3>2. file'[b][Lock] = file[b][Lock] \/ file[b][Lock] = "doctor"
      BY <1>5
    <3>3. blank'[b] \in {blank[b], "none"} /\ (blank[b] = "archive" => blank'[b] = "archive")
      BY <2>1
    <3> QED
      BY <1>3, <3>1, <3>2, <3>3 DEF LockOf
  <2> QED
    BY <1>1, <1>3, <2>1, <2>2 DEF Locks
<1>11. Known'
  <2> SUFFICES ASSUME runs # <<>>, NEW k \in DOMAIN Acts(Now), Pending(Acts(Now)[k]),
                      Acts(Now)[k].target \notin others
               PROVE  At(Acts(Now)[k].target)' \in {Acts(Now)[k].before, Acts(Now)[k].after}
    BY <1>3, <1>8 DEF Known
  <2>1. Now \in DOMAIN runs
    BY <1>1, <1>3 DEF Types, Journals, Now
  <2>2. Acts(Now)[k].target \in Target
    BY <2>1, <1>1, ActsTyped DEF Types
  <2>3. At(Acts(Now)[k].target) \in {Acts(Now)[k].before, Acts(Now)[k].after}
    BY <1>1 DEF Known
  <2>4. Fits(Acts(Now)[k].before, Acts(Now)[k].after, Acts(Now)[k].target)
    BY <1>1, <2>1 DEF Types
  <2>5. Acts(Now)[k].target[2] = Lock => At(Acts(Now)[k].target) # "doctor"
    BY <2>3, <2>4 DEF Fits, Past
  <2>6. PICK t \in Target : t = Acts(Now)[k].target
    BY <2>2
  <2>7. At(t)' = At(t)
    BY <1>7, <2>3, <2>5, <2>6
  <2>8. At(Acts(Now)[k].target)' = At(t)'
    BY <1>3, <1>8, <2>6 DEF At
  <2> QED
    BY <2>3, <2>6, <2>7, <2>8
<1>12. Shape'
  BY <1>1, <1>3, <1>8 DEF Shape
<1> QED
  BY <1>3, <1>9, <1>10, <1>11, <1>12
  DEF RepairsInv, Window, Quiet, Forward, Backward, Reverted, Undoing, Midway, Taking

\* What holds of the journals whatever the outcomes in them.
OnlyOutcomes ==
  /\ runs' \in Journals /\ Now' = Now /\ LastAct' = LastAct /\ DOMAIN runs' = DOMAIN runs
  /\ \A i \in DOMAIN runs : /\ DOMAIN Acts(i)' = DOMAIN Acts(i)
                            /\ \A k \in DOMAIN Acts(i) : Same(Acts(i)'[k], Acts(i)[k])

\* Outcomes disturb neither types nor targets.
LEMMA OutcomesKeep ==
  ASSUME Types, Shape, OnlyOutcomes, plans' \subseteq plans, pc # "idle"
  PROVE  /\ \A i \in DOMAIN runs' : \A k \in DOMAIN Acts(i)' :
               Fits(Acts(i)'[k].before, Acts(i)'[k].after, Acts(i)'[k].target)
         /\ Shape'
<1>1. /\ DOMAIN runs' = DOMAIN runs /\ Now' = Now
      /\ \A i \in DOMAIN runs :
            /\ DOMAIN Acts(i)' = DOMAIN Acts(i)
            /\ \A k \in DOMAIN Acts(i) : /\ Acts(i)'[k].target = Acts(i)[k].target
                                         /\ Acts(i)'[k].before = Acts(i)[k].before
                                         /\ Acts(i)'[k].after = Acts(i)[k].after
  BY DEF OnlyOutcomes, Same
<1>2. Now \in DOMAIN runs
  BY DEF Types, Journals, Now
<1>3. \A i \in DOMAIN runs' : \A k \in DOMAIN Acts(i)' :
         Fits(Acts(i)'[k].before, Acts(i)'[k].after, Acts(i)'[k].target)
  BY <1>1 DEF Types
<1>4. \A i \in DOMAIN runs' : \A k, l \in DOMAIN Acts(i)' :
         k # l => Apart(Acts(i)'[k].target, Acts(i)'[l].target)
  BY <1>1 DEF Shape
<1>5. \A p \in plans' : \A k \in DOMAIN Acts(Now)' : Apart(p.target, Acts(Now)'[k].target)
  <2>1. Acts(Now)' = runs'[Now].acts /\ DOMAIN Acts(Now)' = DOMAIN Acts(Now)
        /\ \A k \in DOMAIN Acts(Now) : Acts(Now)'[k].target = Acts(Now)[k].target
    BY <1>1, <1>2 DEF Acts
  <2> QED
    BY <2>1 DEF Shape
<1> QED
  BY <1>3, <1>4, <1>5 DEF Shape

\* The action under way, when its outcome is written or lost.
LEMMA Closing ==
  ASSUME Types, Midway, NEW out \in Outcomes, runs' \in {runs, Closed(out)}
  PROVE  /\ OnlyOutcomes
         /\ Now \in DOMAIN runs /\ LastAct \in DOMAIN Acts(Now) /\ Current = Acts(Now)[LastAct]
         /\ Current.target \in Target /\ Pending(Current)
         /\ Fits(Current.before, Current.after, Current.target)
         /\ \A i \in DOMAIN runs : i # Now => runs'[i] = runs[i]
         /\ \A k \in DOMAIN Acts(Now) : k # LastAct => Acts(Now)'[k] = Acts(Now)[k]
         /\ Acts(Now)'[LastAct] = IF runs' = runs THEN Current ELSE [Current EXCEPT !.outcome = out]
<1>1. Now > 0 /\ LastAct > 0 /\ Current.outcome = "pending" /\ runs \in Journals
  BY DEF Types, Midway
<1>2. Now \in DOMAIN runs
  BY <1>1 DEF Journals, Now
<1>3. /\ LastAct \in DOMAIN Acts(Now) /\ Current = Acts(Now)[LastAct] /\ Current \in Action
      /\ Current.target \in Target
  <2>1. Acts(Now) \in Seq(Action) /\ LastAct = Len(Acts(Now))
    BY <1>1, <1>2, ActsTyped DEF LastAct, Acts
  <2> QED
    BY <2>1, <1>1, <1>2, ActsTyped DEF Current, Acts
<1>4. Fits(Current.before, Current.after, Current.target) /\ Pending(Current)
  BY <1>1, <1>2, <1>3 DEF Types, Pending
<1>5. CASE runs' = runs
  <2>1. Now' = Now /\ LastAct' = LastAct /\ \A i \in DOMAIN runs : Acts(i)' = Acts(i)
    BY <1>5 DEF Now, LastAct, Acts
  <2>2. Acts(Now)' = Acts(Now)
    BY <1>5 DEF Acts, Now
  <2> QED
    BY <1>1, <1>2, <1>3, <1>4, <1>5, <2>1, <2>2 DEF OnlyOutcomes, Same
<1>6. CASE runs' = Closed(out) /\ runs' # runs
  <2>1. /\ runs' \in Journals /\ Now' = Now /\ LastAct' = LastAct
        /\ \A i \in DOMAIN runs : DOMAIN Acts(i)' = DOMAIN Acts(i)
        /\ \A i \in DOMAIN runs : i # Now => runs'[i] = runs[i]
        /\ \A k \in DOMAIN Acts(Now) : k # LastAct => Acts(Now)'[k] = Acts(Now)[k]
        /\ Current' = [Current EXCEPT !.outcome = out]
    BY <1>1, <1>6, CloseOne
  <2>2. DOMAIN runs' = DOMAIN runs
    BY <1>1, <2>1 DEF Journals, Now
  <2>3. Acts(Now)'[LastAct] = [Current EXCEPT !.outcome = out]
    BY <2>1 DEF Current, Acts
  <2>4. Same([Current EXCEPT !.outcome = out], Current)
    BY <1>3 DEF Same, Action
  <2>5. ASSUME NEW i \in DOMAIN runs, NEW k \in DOMAIN Acts(i) PROVE Same(Acts(i)'[k], Acts(i)[k])
    <3>1. CASE i = Now
      <4>1. Acts(i)' = runs'[Now].acts /\ Acts(Now)' = runs'[Now].acts /\ Acts(i) = Acts(Now)
        BY <3>1, <2>1 DEF Acts
      <4>2. CASE k = LastAct
        BY <4>1, <4>2, <2>3, <2>4, <1>3
      <4>3. CASE k # LastAct
        BY <4>1, <4>3, <2>1, <2>5 DEF Same
      <4> QED
        BY <4>2, <4>3
    <3>2. CASE i # Now
      BY <3>2, <2>1 DEF Same, Acts
    <3> QED
      BY <3>1, <3>2
  <2> QED
    BY <1>2, <1>3, <1>4, <1>6, <2>1, <2>2, <2>3, <2>5 DEF OnlyOutcomes
<1> QED
  BY <1>5, <1>6

\* A compensation puts the file back, or leaves it as it is.
LEMMA Compensation ==
  ASSUME Types, Window, Known, Midway, Compensated
  PROVE  \E out \in {"undone", "failed"}, t \in Target :
           /\ t = Current.target /\ runs' \in {runs, Closed(out)}
           /\ file' \in [Bundle -> [Leaf -> Content]] /\ At(t)' \in Contents(t[2])
           /\ \A u \in Target : u # t => At(u)' = At(u)
           /\ \/ At(t)' = At(t)
              \/ raced \/ (At(t) # "live" /\ At(t) = Current.after)
           /\ UNCHANGED <<file, blank, raced>> \/ Placed(t)
           /\ \/ t \in others
              \/ /\ At(t)' \in {Current.before, Current.after}
                 /\ runs' # runs /\ out = "undone" => At(t)' = Current.before
<1>1. /\ Now \in DOMAIN runs /\ LastAct \in DOMAIN Acts(Now) /\ Current = Acts(Now)[LastAct]
      /\ Current.target \in Target /\ Pending(Current)
      /\ Fits(Current.before, Current.after, Current.target)
  <2>1. PICK out \in {"undone", "failed"} : runs' \in {runs, Closed(out)}
    BY DEF Compensated
  <2> QED
    BY <2>1, Closing DEF Outcomes
<1>2. PICK t \in Target : t = Current.target
  BY <1>1
<1>3. /\ file \in [Bundle -> [Leaf -> Content]] /\ At(t) \in Contents(t[2])
      /\ t[2] \in Leaf /\ Past(t[2]) \subseteq Contents(t[2]) /\ Contents(t[2]) \subseteq Content
  BY LeafFacts DEF Types
<1>4. t \in others \/ At(t) \in {Current.before, Current.after}
  <2>1. runs # <<>>
    BY <1>1
  <2> QED
    BY <1>1, <1>2, <2>1 DEF Known
<1>5. CASE UNCHANGED <<file, blank, raced>>
  <2>1. PICK out \in {"undone", "failed"} :
           /\ runs' \in {runs, Closed(out)}
           /\ \/ out = "failed" \/ runs' = runs
              \/ t \in others
              \/ At(t) = Current.before \/ At(t)' = Current.before
    <3>1. CASE ~LooksCommitted
      <4>1. CASE At(t) = Current.before
        BY <3>1, <4>1, <1>2 DEF Compensated
      <4>2. CASE At(t) # Current.before
        BY <3>1, <4>2, <1>2 DEF Compensated
      <4> QED
        BY <4>1, <4>2
    <3>2. CASE LooksCommitted /\ Current.after = "absent" /\ At(Current.target) # "absent"
      BY <3>2 DEF Compensated
    <3>3. CASE LooksCommitted /\ ~(Current.after = "absent" /\ At(Current.target) # "absent")
      <4>1. /\ runs' \in {runs, Closed("undone")}
            /\ Write(t, IF Current.after = "absent" THEN moved ELSE Current.before)
        BY <3>3, <1>2 DEF Compensated, Place
      <4>2. (IF Current.after = "absent" THEN moved ELSE Current.before) \in Content
        BY <1>1, <1>2, <1>3 DEF Types, Fits
      <4>3. At(t)' = IF Current.after = "absent" THEN moved ELSE Current.before
        BY <4>1, <4>2, <1>3, WriteOne
      <4>4. Current.after # "absent" => At(t)' = Current.before
        BY <4>3
      <4>5. Current.after = "absent" => pc = "verify"
        BY <3>3 DEF LooksCommitted
      <4>6. Current.after = "absent" => t \in others \/ At(t)' = Current.before
        BY <4>3, <4>5, <1>2 DEF Window
      <4> QED
        BY <4>1, <4>4, <4>6
    <3> QED
      BY <3>1, <3>2, <3>3
  <2>2. At(t)' = At(t) /\ \A u \in Target : At(u)' = At(u)
    BY <1>5 DEF At
  <2>3. file' \in [Bundle -> [Leaf -> Content]] /\ At(t)' \in Contents(t[2])
    BY <1>3, <1>5, <2>2
  <2>4. \/ t \in others
        \/ /\ At(t)' \in {Current.before, Current.after}
           /\ runs' # runs /\ out = "undone" => At(t)' = Current.before
    <3>1. At(t)' = At(t)
      BY <2>2
    <3>2. CASE t \in others
      BY <3>2
    <3>3. CASE t \notin others
      <4>1. At(t)' \in {Current.before, Current.after}
        BY <1>4, <3>1, <3>3
      <4>2. runs' # runs /\ out = "undone" => At(t)' = Current.before
        BY <2>1, <3>1, <3>3
      <4> QED
        BY <4>1, <4>2
    <3> QED
      BY <3>2, <3>3
  <2>5. runs' \in {runs, Closed(out)} /\ At(t)' = At(t)
    BY <2>1, <2>2
  <2> QED
    BY <1>2, <1>5, <2>2, <2>3, <2>4, <2>5
<1>6. CASE ~UNCHANGED <<file, blank, raced>>
  <2>1. LooksCommitted /\ ~(Current.after = "absent" /\ At(Current.target) # "absent")
    BY <1>6 DEF Compensated
  <2> DEFINE c == IF Current.after = "absent" THEN moved ELSE Current.before
  <2>2. runs' \in {runs, Closed("undone")} /\ Write(t, c) /\ Placed(t)
    BY <2>1, <1>2 DEF Compensated, Place, Placed
  <2>3. Current.after = "absent" => pc = "verify"
    BY <2>1 DEF LooksCommitted
  <2>4. c \in Contents(t[2]) /\ c \in Content
    BY <1>1, <1>2, <1>3, <2>3 DEF Types, Fits
  <2>5. t \in others \/ c = Current.before
    BY <2>3, <1>2 DEF Window
  <2>6. raced \/ (At(t) # "live" /\ At(t) = Current.after)
    <3>1. Current.after # "live"
      BY <1>1, <1>2 DEF Fits, Past, Contents, Generated
    <3>2. CASE Current.after # "absent" /\ At(t) = Current.after
      BY <3>1, <3>2
    <3>3. CASE pc = "verify"
      BY <3>1, <3>3, <1>2 DEF Window
    <3> QED
      BY <3>2, <3>3, <2>1, <1>2 DEF LooksCommitted
  <2> HIDE DEF c
  <2>7. file' \in [Bundle -> [Leaf -> Content]] /\ At(t)' = c /\ \A u \in Target : u # t => At(u)' = At(u)
    BY <2>2, <2>4, <1>3, WriteOne
  <2> QED
    BY <1>2, <2>2, <2>4, <2>5, <2>6, <2>7
<1> QED
  BY <1>5, <1>6

\* A mutation that fails leaves its action undone, or open and known.
LEMMA StumbleKeeps ==
  ASSUME RepairsInv, Midway, NEW place \in {"fail", "release"}, Stumble(place), faults' \in Nat
  PROVE  RepairsInv'
<1>1. Types /\ Shape /\ Locks /\ Window /\ Quiet /\ Known /\ Forward
  BY DEF RepairsInv
<1>2. /\ Compensated /\ pc' = place /\ exit' = IF place = "release" THEN "interrupt" ELSE exit
      /\ UNCHANGED <<sound, session, mode, plans, wanted, held, source, moved, start, others>>
  BY DEF Stumble, Goto
<1>3. PICK out \in {"undone", "failed"}, t \in Target :
           /\ t = Current.target /\ runs' \in {runs, Closed(out)}
           /\ file' \in [Bundle -> [Leaf -> Content]] /\ At(t)' \in Contents(t[2])
           /\ \A u \in Target : u # t => At(u)' = At(u)
           /\ \/ At(t)' = At(t)
              \/ raced \/ (At(t) # "live" /\ At(t) = Current.after)
           /\ UNCHANGED <<file, blank, raced>> \/ Placed(t)
           /\ \/ t \in others
              \/ /\ At(t)' \in {Current.before, Current.after}
                 /\ runs' # runs /\ out = "undone" => At(t)' = Current.before
  BY <1>1, <1>2, Compensation
<1>4. /\ OnlyOutcomes
      /\ Now \in DOMAIN runs /\ LastAct \in DOMAIN Acts(Now) /\ Current = Acts(Now)[LastAct]
      /\ Pending(Current)
      /\ \A i \in DOMAIN runs : i # Now => runs'[i] = runs[i]
      /\ \A k \in DOMAIN Acts(Now) : k # LastAct => Acts(Now)'[k] = Acts(Now)[k]
      /\ Acts(Now)'[LastAct] = IF runs' = runs THEN Current ELSE [Current EXCEPT !.outcome = out]
  BY <1>1, <1>3, Closing DEF Outcomes
<1>5. Now' = Now /\ LastAct' = LastAct /\ Acts(Now)' = runs'[Now].acts /\ DOMAIN Acts(Now)' = DOMAIN Acts(Now)
      /\ runs' \in Journals /\ \A k \in DOMAIN Acts(Now) : Same(Acts(Now)'[k], Acts(Now)[k])
  BY <1>4 DEF OnlyOutcomes, Acts
<1>6. ~Midway' /\ ~Active' /\ pc # "idle" /\ pc # "release" /\ pc' # "idle"
  BY <1>2 DEF Midway, Active, Taking
<1>7. exit' # "reverted" /\ exit' \in {"none", "fixed", "undone", "reverted", "error", "interrupt"}
  BY <1>1, <1>2, <1>6 DEF Types
<1>8. Locks' /\ raced' \in BOOLEAN
  <2>1. t \in Target /\ session' = session /\ raced \in BOOLEAN /\ pc' \notin {"unlink", "own"}
    BY <1>1, <1>2 DEF Types
  <2>2. CASE UNCHANGED <<file, blank, raced>>
    BY <1>1, <2>1, <2>2, LocksStay
  <2>3. CASE Placed(t)
    BY <1>1, <1>3, <2>1, <2>3, LocksPlaced
  <2> QED
    BY <1>3, <2>2, <2>3
<1>9. Types' /\ Shape'
  <2>1. /\ \A i \in DOMAIN runs' : \A k \in DOMAIN Acts(i)' :
               Fits(Acts(i)'[k].before, Acts(i)'[k].after, Acts(i)'[k].target)
        /\ Shape'
    BY <1>1, <1>2, <1>4, <1>6, OutcomesKeep
  <2>2. \A u \in Target : At(u)' \in Contents(u[2])
    BY <1>1, <1>3 DEF Types
  <2> QED
    BY <1>1, <1>2, <1>3, <1>5, <1>6, <1>7, <1>8, <2>1, <2>2 DEF Types, Taking
<1>10. Window' /\ Quiet' /\ Backward' /\ Reverted' /\ Undoing'
  BY <1>2, <1>6, <1>7 DEF Window, Quiet, Backward, Reverted, Undoing, Taking
<1>11. Known'
  <2>1. SUFFICES ASSUME NEW k \in DOMAIN Acts(Now), Pending(Acts(Now)'[k])
        PROVE \/ Acts(Now)'[k].target \in others
              \/ At(Acts(Now)[k].target)' \in {Acts(Now)'[k].before, Acts(Now)'[k].after}
    BY <1>2, <1>5 DEF Known
  <2>2. k = LastAct
    BY <1>1, <1>4, <2>1 DEF Quiet
  <2>3. PICK a : a = Acts(Now)'[k]
    OBVIOUS
  <2>4. a.target = t /\ a.before = Current.before /\ a.after = Current.after
    BY <1>3, <1>4, <1>5, <2>2, <2>3 DEF Same
  <2>5. At(Acts(Now)[k].target)' = At(t)'
    BY <2>3, <2>4 DEF At
  <2> QED
    BY <1>3, <2>3, <2>4, <2>5
<1>12. Forward'
  <2> SUFFICES ASSUME mode # "rollback", NEW u \in Plain
      PROVE /\ \A k \in Due(Now)' : Acts(Now)'[k].target = u => Acts(Now)'[k].before = Base(u)
            /\ (\A k \in Due(Now)' : Acts(Now)'[k].target # u) => At(u)' = Base(u)
    <3>1. \A u \in Target : Base(u)' = Base(u)
      BY <1>2 DEF Base
    <3>2. Plain' = Plain
      BY <1>2 DEF Plain
    <3> QED
      BY <1>2, <3>1, <3>2 DEF Forward, Plain
  <2>1. /\ \A k \in Due(Now) : Acts(Now)[k].target = u => Acts(Now)[k].before = Base(u)
        /\ (\A k \in Due(Now) : Acts(Now)[k].target # u) => At(u) = Base(u)
    BY <1>1, <1>6 DEF Forward
  <2>2. Due(Now) = {k \in DOMAIN Acts(Now) : Acts(Now)[k].outcome # "undone"}
        /\ Due(Now)' = {k \in DOMAIN Acts(Now) : Acts(Now)'[k].outcome # "undone"}
    BY <1>5 DEF Due, Acts
  <2>3. Current.outcome # "undone" /\ LastAct \in Due(Now)
    BY <1>4, <2>2 DEF Pending
  <2>4. Due(Now)' \subseteq Due(Now) /\ \A k \in Due(Now) : k # LastAct => k \in Due(Now)'
    BY <1>4, <2>2, <2>3
  <2>5. ASSUME NEW k \in Due(Now)', Acts(Now)'[k].target = u PROVE Acts(Now)'[k].before = Base(u)
    BY <1>5, <2>1, <2>2, <2>4, <2>5 DEF Same
  <2>6. ASSUME \A k \in Due(Now)' : Acts(Now)'[k].target # u PROVE At(u)' = Base(u)
    <3>1. \A k \in Due(Now) : k # LastAct => Acts(Now)[k].target # u
      BY <1>5, <2>2, <2>4, <2>6 DEF Same
    <3>2. CASE u # t
      BY <3>1, <3>2, <1>3, <1>4, <2>1 DEF Plain
    <3>3. CASE u = t
      <4>1. LastAct \notin Due(Now)'
        BY <1>3, <1>4, <1>5, <2>6, <3>3 DEF Same
      <4>2. Acts(Now)'[LastAct].outcome = "undone"
        BY <1>4, <2>2, <4>1
      <4>3. runs' # runs /\ out = "undone"
        <5>1. runs' # runs
          BY <4>2, <1>4, <2>3
        <5>2. [Current EXCEPT !.outcome = out].outcome = "undone"
          BY <4>2, <5>1, <1>4
        <5>3. Current \in Action
          BY <1>1, <1>4, ActsTyped DEF Types
        <5> QED
          BY <5>1, <5>2, <5>3 DEF Action
      <4>4. u \notin others
        BY DEF Plain
      <4>5. At(t)' = Current.before
        BY <4>3, <4>4, <1>3, <3>3
      <4>6. Current.before = Base(u)
        BY <1>3, <1>4, <2>1, <2>3, <3>3
      <4> QED
        BY <3>3, <4>5, <4>6
    <3> QED
      BY <3>2, <3>3
  <2> QED
    BY <2>5, <2>6
<1> QED
  BY <1>8, <1>9, <1>10, <1>11, <1>12 DEF RepairsInv

\* The last look, and the ways a mutation can fail.
LEMMA CheckKeeps ==
  ASSUME RepairsInv, Check \/ Mishap \/ NotVerified \/ NothingToMove
  PROVE  RepairsInv'
<1>1. faults \in Nat
  BY DEF RepairsInv, Types
<1>2. CASE Check /\ Unchanged /\ pc' = "commit" /\ exit' = exit
           /\ UNCHANGED <<file, sound, session, blank, runs, mode, plans, wanted, held, source, moved, ghosts>>
  <2>1. pc = "check" /\ faults' \in Nat
    BY <1>1, <1>2 DEF Check
  <2> QED
    BY <1>2, <2>1, PcKeeps
<1>3. CASE Midway /\ faults' \in Nat /\ \E place \in {"fail", "release"} : Stumble(place)
  BY <1>3, StumbleKeeps
<1>4. CASE Check
  BY <1>1, <1>2, <1>3, <1>4 DEF Check, Midway, Goto
<1>5. CASE Mishap
  BY <1>1, <1>3, <1>5 DEF Mishap, Midway, Fault
<1>6. CASE NotVerified \/ NothingToMove
  BY <1>1, <1>3, <1>6 DEF NotVerified, NothingToMove, Midway
<1> QED
  BY <1>4, <1>5, <1>6

\* The replace, or the rename into the quarantine.
LEMMA CommitKeeps ==
  ASSUME RepairsInv, Commit
  PROVE  RepairsInv'
<1>1. Types /\ Shape /\ Locks /\ Window /\ Quiet /\ Forward /\ Backward /\ Undoing
  BY DEF RepairsInv
<1>2. /\ pc = "commit" /\ pc' = "verify" /\ Write(Current.target, Current.after)
      /\ moved' = At(Current.target) /\ Placed(Current.target)
      /\ UNCHANGED <<sound, session, runs, mode, plans, wanted, held, source, exit, faults>>
      /\ UNCHANGED <<start, others>>
  BY DEF Commit, Goto, Place, Placed
<1>3. /\ Now' = Now /\ LastAct' = LastAct /\ Current' = Current /\ Acts(Now)' = Acts(Now)
      /\ Due(Now)' = Due(Now) /\ \A i \in DOMAIN runs : Acts(i)' = Acts(i)
  BY <1>2 DEF Now, LastAct, Current, Acts, Due
<1>4. /\ Now \in DOMAIN runs /\ LastAct \in DOMAIN Acts(Now) /\ Current = Acts(Now)[LastAct]
      /\ Current.target \in Target /\ Pending(Current)
      /\ Fits(Current.before, Current.after, Current.target)
  <2>1. Midway /\ runs' \in {runs, Closed("ok")}
    BY <1>2 DEF Midway
  <2> QED
    BY <2>1, <1>1, Closing DEF Outcomes
<1>5. PICK t \in Target : t = Current.target
  BY <1>4
<1>6. PICK c : c = Current.after
  OBVIOUS
<1>7. c \in Contents(t[2]) /\ c \in Content /\ At(t) \in Contents(t[2]) /\ At(t) \in Content
  BY <1>1, <1>4, <1>5, <1>6, LeafFacts DEF Fits, Types
<1>8. /\ file' \in [Bundle -> [Leaf -> Content]] /\ At(t)' = c
      /\ \A u \in Target : u # t => At(u)' = At(u)
  BY <1>1, <1>2, <1>5, <1>6, <1>7, WriteOne DEF Types
<1>9. (t \in others /\ raced) \/ At(t) = Current.before
  BY <1>1, <1>2, <1>5 DEF Window
<1>10. Locks' /\ raced' \in BOOLEAN /\ (raced => raced')
  <2>1. Current.before # "live"
    BY <1>4 DEF Fits, Past, Contents, Generated
  <2>2. raced \/ At(t) # "live"
    BY <2>1, <1>9
  <2>3. Placed(t) /\ session' = session /\ raced \in BOOLEAN /\ pc' \notin {"unlink", "own"}
    BY <1>1, <1>2, <1>5 DEF Types
  <2> QED
    BY <1>1, <1>8, <2>2, <2>3, LocksPlaced
<1>11. Types'
  <2>1. \A u \in Target : At(u)' \in Contents(u[2])
    BY <1>1, <1>7, <1>8 DEF Types
  <2>2. moved' \in Content /\ moved' \in Contents(Current'.target[2])
    BY <1>2, <1>3, <1>5, <1>7
  <2> QED
    BY <1>1, <1>2, <1>3, <1>8, <1>10, <2>1, <2>2 DEF Types, Midway, Taking
<1>12. Shape'
  BY <1>1, <1>2, <1>3 DEF Shape
<1>13. Window'
  <2>1. At(Current.target)' = At(t)'
    BY <1>3, <1>5 DEF At
  <2> QED
    BY <1>2, <1>3, <1>5, <1>6, <1>8, <1>9, <1>10, <2>1 DEF Window
<1>14. Quiet'
  BY <1>1, <1>2, <1>3 DEF Quiet, Midway, Taking
<1>15. Known'
  <2> SUFFICES ASSUME NEW k \in DOMAIN Acts(Now), Pending(Acts(Now)[k])
      PROVE At(Acts(Now)[k].target)' = Acts(Now)[k].after
    BY <1>2, <1>3 DEF Known
  <2>1. k = LastAct
    BY <1>1, <1>2 DEF Quiet, Midway
  <2>2. At(Acts(Now)[k].target)' = At(t)'
    BY <1>3, <1>4, <1>5, <2>1 DEF At
  <2> QED
    BY <1>4, <1>6, <1>8, <2>1, <2>2
<1>16. Forward'
  <2> SUFFICES ASSUME mode # "rollback", NEW u \in Plain
      PROVE /\ \A k \in Due(Now) : Acts(Now)[k].target = u => Acts(Now)[k].before = Base(u)
            /\ (\A k \in Due(Now) : Acts(Now)[k].target # u) => At(u)' = Base(u)
    <3>1. \A v \in Target : Base(v)' = Base(v)
      BY <1>2 DEF Base
    <3>2. Plain' = Plain
      BY <1>2 DEF Plain
    <3> QED
      BY <1>2, <1>3, <3>1, <3>2 DEF Forward, Plain
  <2>1. /\ \A k \in Due(Now) : Acts(Now)[k].target = u => Acts(Now)[k].before = Base(u)
        /\ (\A k \in Due(Now) : Acts(Now)[k].target # u) => At(u) = Base(u)
    BY <1>1, <1>2 DEF Forward
  <2>2. LastAct \in Due(Now)
    BY <1>4 DEF Due, Acts, Pending
  <2>3. u \in Target
    BY DEF Plain
  <2> QED
    BY <2>1, <2>2, <2>3, <1>4, <1>5, <1>8
<1>17. Reverted'
  BY <1>1, <1>2 DEF Reverted, Types
<1>18. Backward' /\ Undoing'
  <2>1. Midway /\ Midway' /\ Active
    BY <1>2 DEF Midway, Active
  <2>2. \A u \in Target : \A x : Restores(u, x) => Restores(u, x)'
    BY <1>2, <1>3, <2>1 DEF Restores
  <2>3. \A u \in Target : \A x : Sought(u, x) /\ Restores(u, x) => Sought(u, x)'
    <3> SUFFICES ASSUME NEW u \in Target, NEW x, Sought(u, x), Restores(u, x) PROVE Sought(u, x)'
      OBVIOUS
    <3>1. CASE u = t
      BY <3>1, <1>5, <1>6, <1>8, <2>1 DEF Restores, Sought
    <3>2. CASE u # t
      <4>1. At(u)' = At(u)
        BY <3>2, <1>8
      <4> QED
        BY <4>1, <1>2, <1>3, <2>1 DEF Sought, Planned, Making
    <3> QED
      BY <3>1, <3>2
  <2> QED
    BY <1>1, <1>2, <2>1, <2>2, <2>3, Onwards
<1> QED
  BY <1>10, <1>11, <1>12, <1>13, <1>14, <1>15, <1>16, <1>17, <1>18 DEF RepairsInv

\* The action under way succeeds.
LEMMA FinishKeeps ==
  ASSUME RepairsInv, Finish
  PROVE  RepairsInv'
<1>1. Types /\ Shape /\ Locks /\ Quiet /\ Forward /\ Backward /\ Undoing
  BY DEF RepairsInv
<1>2. /\ pc = "verify" /\ pc' = "apply" /\ Verified /\ runs' = Closed("ok") /\ Midway
      /\ UNCHANGED <<file, sound, session, blank, mode, plans, wanted, held, source, moved, exit, faults>>
      /\ UNCHANGED <<start, others, raced>>
  BY DEF Finish, Goto, ghosts, Midway
<1>3. /\ OnlyOutcomes
      /\ Now \in DOMAIN runs /\ LastAct \in DOMAIN Acts(Now) /\ Current = Acts(Now)[LastAct]
      /\ Current.target \in Target /\ Pending(Current)
      /\ \A i \in DOMAIN runs : i # Now => runs'[i] = runs[i]
      /\ \A k \in DOMAIN Acts(Now) : k # LastAct => Acts(Now)'[k] = Acts(Now)[k]
      /\ Acts(Now)'[LastAct] = IF runs' = runs THEN Current ELSE [Current EXCEPT !.outcome = "ok"]
  BY <1>1, <1>2, Closing DEF Outcomes
<1>4. /\ Now' = Now /\ LastAct' = LastAct /\ Acts(Now)' = runs'[Now].acts /\ DOMAIN Acts(Now)' = DOMAIN Acts(Now)
      /\ runs' \in Journals /\ \A k \in DOMAIN Acts(Now) : Same(Acts(Now)'[k], Acts(Now)[k])
  BY <1>3 DEF OnlyOutcomes, Acts
<1>5. Acts(Now)'[LastAct].outcome = "ok"
  <2>1. /\ Now > 0 /\ LastAct > 0 /\ runs \in Journals
    BY <1>1, <1>2 DEF Types
  <2>2. Current' = [Current EXCEPT !.outcome = "ok"]
    BY <2>1, <1>2, CloseOne DEF Outcomes
  <2>3. Current \in Action
    BY <1>1, <1>3, ActsTyped DEF Types
  <2>4. Current' = Acts(Now)'[LastAct]
    BY <1>4 DEF Current, Acts
  <2> QED
    BY <2>2, <2>3, <2>4 DEF Action
<1>6. \A k \in DOMAIN Acts(Now)' : ~Pending(Acts(Now)'[k])
  BY <1>1, <1>2, <1>3, <1>4, <1>5 DEF Quiet, Pending
<1>7. Due(Now)' = Due(Now)
  <2>1. Due(Now) = {k \in DOMAIN Acts(Now) : Acts(Now)[k].outcome # "undone"}
        /\ Due(Now)' = {k \in DOMAIN Acts(Now) : Acts(Now)'[k].outcome # "undone"}
    BY <1>4 DEF Due, Acts
  <2>2. Acts(Now)[LastAct].outcome # "undone"
    BY <1>3 DEF Pending
  <2>3. \A k \in DOMAIN Acts(Now) : Acts(Now)[k].outcome # "undone" <=> Acts(Now)'[k].outcome # "undone"
    BY <2>2, <1>3, <1>5
  <2> QED
    BY <2>1, <2>3
<1>8. \A t \in Target : At(t)' = At(t) /\ Base(t)' = Base(t)
  BY <1>2 DEF At, Base
<1>9. Types' /\ Shape'
  <2>1. /\ \A i \in DOMAIN runs' : \A k \in DOMAIN Acts(i)' :
               Fits(Acts(i)'[k].before, Acts(i)'[k].after, Acts(i)'[k].target)
        /\ Shape'
    BY <1>1, <1>2, <1>3, OutcomesKeep
  <2> QED
    BY <1>1, <1>2, <1>4, <1>8, <2>1 DEF Types, Midway
<1>10. Locks' /\ Window' /\ Quiet'
  <2>1. Locks'
    BY <1>1, <1>2, LocksStay
  <2> QED
    BY <2>1, <1>2, <1>4, <1>6 DEF Window, Quiet, Midway, Taking
<1>11. Known'
  BY <1>4, <1>6 DEF Known
<1>12. Forward'
  <2> SUFFICES ASSUME mode # "rollback", NEW u \in Plain
      PROVE /\ \A k \in Due(Now) : Acts(Now)'[k].target = u => Acts(Now)'[k].before = Base(u)
            /\ (\A k \in Due(Now) : Acts(Now)'[k].target # u) => At(u) = Base(u)
    <3>1. Plain' = Plain
      BY <1>2 DEF Plain
    <3> QED
      BY <1>2, <1>7, <1>8, <3>1 DEF Forward, Plain
  <2>1. /\ \A k \in Due(Now) : Acts(Now)[k].target = u => Acts(Now)[k].before = Base(u)
        /\ (\A k \in Due(Now) : Acts(Now)[k].target # u) => At(u) = Base(u)
    BY <1>1, <1>2 DEF Forward
  <2>2. \A k \in Due(Now) : Same(Acts(Now)'[k], Acts(Now)[k])
    BY <1>4 DEF Due, Acts
  <2> QED
    BY <2>1, <2>2 DEF Same
<1>13. Reverted'
  BY <1>1, <1>2 DEF Reverted, Types
<1>14. Backward' /\ Undoing'
  <2>1. ~Midway' /\ Active
    BY <1>2 DEF Midway, Active
  <2>2. \A u \in Target : \A x : Restores(u, x) => Restores(u, x)'
    BY <1>2, <2>1 DEF Restores
  <2>3. \A u \in Target : \A x : Sought(u, x) => Sought(u, x)'
    BY <1>2, <1>8, <2>1 DEF Sought, Planned, Making, Verified
  <2>4. \A i \in DOMAIN runs : i < Now => runs'[i] = runs[i]
    BY <1>1, <1>3 DEF Types, Journals, Now
  <2> QED
    BY <1>1, <1>2, <2>1, <2>2, <2>3, <2>4, Onwards
<1> QED
  BY <1>9, <1>10, <1>11, <1>12, <1>13, <1>14 DEF RepairsInv

\* A mutation is journaled, if the file is as diagnosed.
LEMMA PrepareKeeps ==
  ASSUME RepairsInv, Prepare
  PROVE  RepairsInv'
<1>1. Types /\ Shape /\ Locks /\ Quiet /\ Forward /\ Backward /\ Undoing
  BY DEF RepairsInv
<1>2. /\ pc = "apply"
      /\ UNCHANGED <<file, sound, session, blank, mode, wanted, held, source, moved, exit, faults>>
      /\ UNCHANGED <<start, others, raced>>
  BY DEF Prepare, ghosts
<1>3. PICK p \in plans :
        IF Sensible(p) /\ AsDiagnosed(p)
        THEN /\ runs' = [runs EXCEPT ![Now].acts =
                  Append(@, [target |-> p.target, before |-> At(p.target), after |-> p.to,
                             outcome |-> "pending"])]
             /\ plans' = plans \ {p} /\ Goto("check")
        ELSE Goto("fail") /\ UNCHANGED <<runs, plans>>
  BY DEF Prepare
<1>4. CASE ~(Sensible(p) /\ AsDiagnosed(p))
  <2>1. UNCHANGED <<file, sound, session, blank, runs, mode, plans, wanted, held, source, moved, ghosts>>
        /\ pc' = "fail" /\ exit' = exit /\ faults' \in Nat
    BY <1>1, <1>2, <1>3, <1>4 DEF Goto, ghosts, Types
  <2> QED
    BY <1>2, <2>1, PcKeeps
<1>5. CASE Sensible(p) /\ AsDiagnosed(p)
  <2> DEFINE act == [target |-> p.target, before |-> At(p.target), after |-> p.to, outcome |-> "pending"]
  <2>1. /\ runs' = [runs EXCEPT ![Now].acts = Append(@, act)]
        /\ plans' = plans \ {p} /\ pc' = "check"
    BY <1>3, <1>5 DEF Goto
  <2>2. PICK t \in Target : t = p.target
    BY <1>1 DEF Types, Plan
  <2>3. /\ act.target = t /\ act.before = At(t) /\ act.after = p.to /\ act.outcome = "pending"
        /\ Fits(At(t), p.to, t) /\ act \in Action
    <3>1. At(t) = p.expect /\ p \in Plan /\ Fits(p.expect, p.to, p.target)
      BY <1>1, <1>5, <2>2 DEF AsDiagnosed, Types
    <3>2. At(t) \in Content /\ p.to \in Content
      BY <3>1 DEF Plan
    <3> QED
      BY <2>2, <3>1, <3>2 DEF Action, Outcomes
  <2> HIDE DEF act
  <2>4. Now \in DOMAIN runs /\ Now > 0 /\ runs \in Journals /\ Now \in Nat
    BY <1>1, <1>2 DEF Types, Journals, Now
  <2>5. /\ runs' \in Journals /\ Now' = Now /\ LastAct' = LastAct + 1 /\ LastAct \in Nat
        /\ \A i \in DOMAIN runs : i # Now => runs'[i] = runs[i]
        /\ DOMAIN Acts(Now)' = DOMAIN Acts(Now) \cup {LastAct'} /\ LastAct' \notin DOMAIN Acts(Now)
        /\ \A k \in DOMAIN Acts(Now) : Acts(Now)'[k] = Acts(Now)[k]
        /\ Current' = act /\ Acts(Now)'[LastAct'] = act
    BY <2>1, <2>3, <2>4, AppendOne
  <2>6. DOMAIN runs' = DOMAIN runs /\ Acts(Now)' = runs'[Now].acts
        /\ \A i \in DOMAIN runs : i # Now => Acts(i)' = Acts(i)
    BY <2>4, <2>5 DEF Journals, Now, Acts
  <2>7. \A u \in Target : At(u)' = At(u) /\ Base(u)' = Base(u)
    BY <1>2 DEF At, Base
  <2>8. \A k \in DOMAIN Acts(Now) : Apart(t, Acts(Now)[k].target) /\ Apart(Acts(Now)[k].target, t)
    BY <1>1, <1>2, <2>2 DEF Shape, Apart
  <2>9. Midway' /\ ~Midway /\ Active /\ Plain' = Plain
    BY <1>2, <2>1 DEF Midway, Active, Plain
  <2>10. ASSUME NEW i \in DOMAIN runs, NEW k \in DOMAIN Acts(i)'
         PROVE  Fits(Acts(i)'[k].before, Acts(i)'[k].after, Acts(i)'[k].target)
    <3>1. CASE i # Now
      BY <3>1, <2>6, <2>10, <1>1 DEF Types
    <3>2. CASE i = Now
      <4>1. Acts(i)' = runs'[Now].acts /\ Acts(Now)' = runs'[Now].acts
        BY <3>2, <2>6 DEF Acts
      <4>2. CASE k = LastAct'
        BY <4>1, <4>2, <2>3, <2>5
      <4>3. CASE k # LastAct'
        BY <4>1, <4>3, <2>4, <2>5, <2>10, <1>1 DEF Types
      <4> QED
        BY <4>2, <4>3
    <3> QED
      BY <3>1, <3>2
  <2>11. Types'
    <3>1. LastAct' > 0
      BY <2>5
    <3> QED
      BY <1>1, <1>2, <2>1, <2>3, <2>5, <2>6, <2>7, <2>10, <3>1 DEF Types, Midway
  <2>12. Shape'
    <3>1. ASSUME NEW i \in DOMAIN runs, NEW k \in DOMAIN Acts(i)', NEW l \in DOMAIN Acts(i)', k # l
          PROVE  Apart(Acts(i)'[k].target, Acts(i)'[l].target)
      <4>1. CASE i # Now
        BY <3>1, <4>1, <2>6, <1>1 DEF Shape
      <4>2. CASE i = Now
        <5>1. Acts(i)' = runs'[Now].acts /\ Acts(Now)' = runs'[Now].acts
          BY <4>2, <2>6 DEF Acts
        <5>2. \A x \in DOMAIN Acts(Now)' : x = LastAct' \/ (x \in DOMAIN Acts(Now) /\ Acts(Now)'[x] = Acts(Now)[x])
          BY <2>5
        <5>3. \A x, y \in DOMAIN Acts(Now) : x # y => Apart(Acts(Now)[x].target, Acts(Now)[y].target)
          BY <1>1, <2>4 DEF Shape
        <5> QED
          BY <3>1, <5>1, <5>2, <5>3, <2>3, <2>5, <2>8
      <4> QED
        BY <4>1, <4>2
    <3>2. ASSUME NEW q \in plans', NEW k \in DOMAIN Acts(Now)'
          PROVE  Apart(q.target, Acts(Now)'[k].target)
      <4>1. q \in plans /\ q # p
        BY <2>1
      <4>2. CASE k = LastAct'
        BY <4>1, <4>2, <1>1, <2>2, <2>3, <2>5 DEF Shape
      <4>3. CASE k # LastAct'
        BY <4>1, <4>3, <1>1, <1>2, <2>5 DEF Shape
      <4> QED
        BY <4>2, <4>3
    <3>3. \A q, r \in plans' : q # r => Apart(q.target, r.target)
      BY <1>1, <2>1 DEF Shape
    <3> QED
      BY <2>6, <3>1, <3>2, <3>3 DEF Shape
  <2>13. Locks' /\ Window'
    BY <1>1, <1>2, <2>1, LocksStay DEF Window
  <2>14. Quiet'
    BY <1>1, <1>2, <2>1, <2>5 DEF Quiet, Taking
  <2>15. Known'
    <3> SUFFICES ASSUME NEW k \in DOMAIN Acts(Now)', Pending(Acts(Now)'[k])
        PROVE  At(Acts(Now)[k].target)' = Acts(Now)'[k].before
      BY <1>2 DEF Known
    <3>1. k = LastAct'
      BY <1>1, <1>2, <2>5 DEF Quiet
    <3>2. At(Acts(Now)[k].target)' = At(t)'
      BY <3>1, <2>3, <2>5 DEF At
    <3> QED
      BY <3>1, <3>2, <2>3, <2>5, <2>7
  <2>16. Forward'
    <3> SUFFICES ASSUME mode # "rollback", NEW u \in Plain
        PROVE /\ \A k \in Due(Now)' : Acts(Now)'[k].target = u => Acts(Now)'[k].before = Base(u)
              /\ (\A k \in Due(Now)' : Acts(Now)'[k].target # u) => At(u) = Base(u)
      BY <1>2, <2>7, <2>9 DEF Forward, Plain
    <3>1. /\ \A k \in Due(Now) : Acts(Now)[k].target = u => Acts(Now)[k].before = Base(u)
          /\ (\A k \in Due(Now) : Acts(Now)[k].target # u) => At(u) = Base(u)
      BY <1>1, <1>2 DEF Forward
    <3>2. Due(Now) = {k \in DOMAIN Acts(Now) : Acts(Now)[k].outcome # "undone"}
          /\ Due(Now)' = {k \in DOMAIN Acts(Now)' : Acts(Now)'[k].outcome # "undone"}
      BY DEF Due, Acts
    <3>3. Due(Now)' = Due(Now) \cup {LastAct'}
      BY <3>2, <2>3, <2>5
    <3>4. u = t => \A k \in Due(Now) : Acts(Now)[k].target # u
      BY <3>2, <2>8 DEF Apart
    <3> QED
      BY <3>1, <3>2, <3>3, <3>4, <2>3, <2>5
  <2>17. Reverted'
    BY <1>1, <1>2 DEF Reverted, Types
  <2>18. Backward' /\ Undoing'
    <3>1. \A u \in Target : \A x : Restores(u, x) => Restores(u, x)'
      BY <2>1, <2>2, <2>3, <2>5, <2>9 DEF Restores
    <3>2. \A u \in Target : \A x : Sought(u, x) => Sought(u, x)'
      BY <2>1, <2>2, <2>3, <2>5, <2>7, <2>9 DEF Sought, Planned, Making
    <3>3. \A i \in DOMAIN runs : i < Now => runs'[i] = runs[i]
      BY <2>4, <2>5
    <3> QED
      BY <1>1, <1>2, <2>9, <3>1, <3>2, <3>3, Onwards
  <2> QED
    BY <2>11, <2>12, <2>13, <2>14, <2>15, <2>16, <2>17, <2>18 DEF RepairsInv
<1> QED
  BY <1>4, <1>5

\* What failed half way is rolled back if all of it can be.
LEMMA RollBackKeeps ==
  ASSUME RepairsInv, RollBack
  PROVE  RepairsInv'
<1>1. Types /\ Shape /\ Locks /\ Forward
  BY DEF RepairsInv
<1>2. /\ pc = "fail" /\ mode \in {"undo", "fix"}
      /\ UNCHANGED <<file, sound, session, blank, wanted, held, source, moved, faults>>
      /\ UNCHANGED <<start, others, raced>>
  BY DEF RollBack, ghosts
<1>3. CASE ~Undoable(Now)
  <2>1. UNCHANGED <<file, sound, session, blank, runs, mode, plans, wanted, held, source, moved, ghosts>>
        /\ pc' = "release" /\ exit' = "error" /\ faults' \in Nat
    BY <1>1, <1>3 DEF RollBack, Goto, Types
  <2> QED
    BY <1>2, <2>1, PcKeeps
<1>4. CASE Undoable(Now)
  <2>1. /\ runs' = NewRun("rollback") /\ mode' = "rollback" /\ plans' = InversePlans(Now)
        /\ pc' = "apply" /\ exit' = exit
    BY <1>4 DEF RollBack, Goto
  <2>2. runs \in Journals /\ Now \in DOMAIN runs /\ Now \in Nat
    BY <1>1, <1>2 DEF Types, Journals, Now
  <2>3. /\ runs' \in Journals /\ Now' = Now + 1
        /\ DOMAIN runs' = DOMAIN runs \cup {Now'}
        /\ \A i \in DOMAIN runs : runs'[i] = runs[i]
        /\ Acts(Now)' = <<>>
    BY <2>1, <2>2, AddOne DEF Kinds
  <2>4. /\ InversePlans(Now) \subseteq Plan
        /\ \A p \in InversePlans(Now) : Fits(p.expect, p.to, p.target)
        /\ \A p, q \in InversePlans(Now) : p # q => Apart(p.target, q.target)
    BY <1>1, <2>2, InverseFits
  <2>5. \A i \in DOMAIN runs : Acts(i)' = Acts(i)
    BY <2>3 DEF Acts
  <2>6. \A i \in DOMAIN runs' : i \in DOMAIN runs \/ Acts(i)' = <<>>
    BY <2>3
  <2>7. \A t \in Target : At(t)' = At(t) /\ Base(t)' = Base(t)
    BY <1>2 DEF At, Base
  <2>8. ~Midway' /\ Plain' = Plain
    BY <1>2, <2>1 DEF Midway, Plain
  <2>9. Types'
    <3>1. \A i \in DOMAIN runs' : \A k \in DOMAIN Acts(i)' :
              Fits(Acts(i)'[k].before, Acts(i)'[k].after, Acts(i)'[k].target)
      BY <1>1, <2>5, <2>6 DEF Types
    <3>2. source \in 0..Now' /\ exit # "reverted" /\ Now' > 0
      BY <1>1, <1>2, <2>2, <2>3 DEF Types
    <3> QED
      BY <1>1, <1>2, <2>1, <2>3, <2>4, <2>7, <2>8, <3>1, <3>2 DEF Types, Kinds
  <2>10. Shape'
    <3>1. \A i \in DOMAIN runs' : \A k, l \in DOMAIN Acts(i)' :
             k # l => Apart(Acts(i)'[k].target, Acts(i)'[l].target)
      BY <1>1, <2>5, <2>6 DEF Shape
    <3> QED
      BY <3>1, <2>1, <2>3, <2>4 DEF Shape
  <2>a. Locks'
    BY <1>1, <1>2, <2>1, LocksStay
  <2>11. Locks' /\ Window' /\ Quiet' /\ Known' /\ Forward' /\ Undoing'
    BY <1>1, <1>2, <2>1, <2>3, <2>8, <2>a DEF Window, Quiet, Known, Forward, Undoing, Taking
  <2>12. Reverted'
    BY <1>1, <1>2, <2>1 DEF Reverted, Types
  <2>13. Backward'
    <3> SUFFICES ASSUME NEW t \in Plain
        PROVE /\ At(t) = Base(t) \/ \E p \in InversePlans(Now) : p.target = t /\ p.to = Base(t)
              /\ \A p \in InversePlans(Now) : p.target = t => p.to = Base(t)
      BY <2>1, <2>7, <2>8 DEF Backward, Plain, Sought, Restores, Planned
    <3>1. /\ \A k \in Due(Now) : Acts(Now)[k].target = t => Acts(Now)[k].before = Base(t)
          /\ (\A k \in Due(Now) : Acts(Now)[k].target # t) => At(t) = Base(t)
      BY <1>1, <1>2 DEF Forward
    <3> DEFINE plan(k) == [target |-> Acts(Now)[k].target, expect |-> Acts(Now)[k].after,
                           to |-> Acts(Now)[k].before, turn |-> k]
    <3>2. InversePlans(Now) = {plan(k) : k \in Changed(Now)}
      BY DEF InversePlans, Acts
    <3>3. Changed(Now) = {k \in Due(Now) : At(Acts(Now)[k].target) # Acts(Now)[k].before}
      BY DEF Changed, Acts
    <3>4. \A k : plan(k).target = Acts(Now)[k].target /\ plan(k).to = Acts(Now)[k].before
      OBVIOUS
    <3> HIDE DEF plan
    <3>5. \A p \in InversePlans(Now) : p.target = t => p.to = Base(t)
      BY <3>1, <3>2, <3>3, <3>4
    <3>6. ASSUME At(t) # Base(t) PROVE \E p \in InversePlans(Now) : p.target = t /\ p.to = Base(t)
      <4>1. PICK k \in Due(Now) : Acts(Now)[k].target = t /\ Acts(Now)[k].before = Base(t)
        BY <3>1, <3>6
      <4>2. k \in Changed(Now)
        BY <3>3, <3>6, <4>1
      <4>3. plan(k) \in InversePlans(Now)
        BY <3>2, <4>2
      <4> QED
        BY <4>1, <4>3, <3>4
    <3> QED
      BY <3>5, <3>6
  <2> QED
    BY <2>9, <2>10, <2>11, <2>12, <2>13 DEF RepairsInv
<1> QED
  BY <1>3, <1>4

\* A command is through with its plans.
LEMMA DoneKeeps ==
  ASSUME RepairsInv, AllDone
  PROVE  RepairsInv'
<1>1. Types /\ Shape /\ Locks /\ Quiet /\ Known
  BY DEF RepairsInv
<1>2. /\ pc = "apply" /\ plans = {}
      /\ UNCHANGED <<file, sound, session, blank, mode, plans, wanted, held, source, moved, ghosts>>
      /\ UNCHANGED <<start, others, raced>>
  BY DEF AllDone, ghosts
<1>3. CASE mode = "undo" /\ Recovering(source) /\ Fault /\ Goto("fail") /\ UNCHANGED <<runs, exit>>
  <2>1. pc' = "fail" /\ exit' = exit /\ faults' \in Nat /\ runs' = runs
    BY <1>1, <1>3 DEF Goto, Fault, Types
  <2> QED
    BY <1>2, <2>1, PcKeeps
<1>4. CASE mode = "rollback" /\ UNCHANGED <<runs, faults>> /\ Goto("release") /\ exit' = "reverted"
  <2>1. pc' = "release" /\ faults' \in Nat /\ runs' = runs
    BY <1>1, <1>4 DEF Goto, Types
  <2> QED
    BY <1>2, <1>4, <2>1, PcKeeps
<1>5. CASE /\ mode = "undo" /\ runs' = Recovered(source)
           /\ Goto("release") /\ exit' = "undone" /\ UNCHANGED faults
  <2>1. source \in DOMAIN runs /\ runs \in Journals /\ Now \in DOMAIN runs /\ pc' = "release"
    BY <1>1, <1>5 DEF Types, Journals, Now, Goto
  <2>2. OnlyUndone
    BY <1>5, <2>1, RecoveredOnly
  <2>3. OnlyOutcomes
    <3>1. Acts(Now)' = runs'[Now].acts /\ DOMAIN Acts(Now)' = DOMAIN Acts(Now) /\ runs' \in Journals
          /\ DOMAIN runs' = DOMAIN runs /\ Now' = Now
      BY <2>1, <2>2 DEF OnlyUndone, Acts
    <3>2. Acts(Now) \in Seq(Action) /\ runs'[Now].acts \in Seq(Action)
      <4>1. runs[Now] \in Journal /\ runs'[Now] \in Journal
        BY <3>1, <2>1 DEF Journals
      <4> QED
        BY <4>1 DEF Journal, Acts
    <3>3. LastAct' = LastAct
      <4>1. LastAct = Len(Acts(Now)) /\ LastAct' = Len(runs'[Now].acts)
        BY <3>1 DEF LastAct, Acts
      <4> QED
        BY <3>1, <3>2, <4>1
    <3> QED
      BY <2>2, <3>3 DEF OnlyUndone, OnlyOutcomes
  <2>4. ~Midway' /\ ~Active'
    BY <2>1 DEF Midway, Active, Taking
  <2>5. \A t \in Target : At(t)' = At(t)
    BY <1>2 DEF At
  <2>6. Types' /\ Shape'
    <3>1. /\ \A i \in DOMAIN runs' : \A k \in DOMAIN Acts(i)' :
                 Fits(Acts(i)'[k].before, Acts(i)'[k].after, Acts(i)'[k].target)
          /\ Shape'
      BY <1>1, <1>2, <2>3, OutcomesKeep
    <3>2. runs' \in Journals /\ Now' = Now
      BY <2>3 DEF OnlyOutcomes
    <3> QED
      BY <1>1, <1>2, <1>5, <2>1, <2>4, <2>5, <3>1, <3>2 DEF Types
  <2>a. Locks'
    BY <1>1, <1>2, <2>1, LocksStay
  <2>7. Locks' /\ Window' /\ Quiet' /\ Forward' /\ Backward' /\ Reverted' /\ Undoing'
    BY <1>1, <1>2, <1>5, <2>1, <2>4, <2>a
       DEF Window, Quiet, Forward, Backward, Reverted, Undoing, Taking
  <2>8. Known'
    <3>1. Acts(Now)' = runs'[Now].acts /\ DOMAIN Acts(Now)' = DOMAIN Acts(Now)
          /\ \A k \in DOMAIN Acts(Now) : Acts(Now)'[k].outcome \in {Acts(Now)[k].outcome, "undone"}
      BY <2>1, <2>2 DEF OnlyUndone, Acts
    <3>2. \A k \in DOMAIN Acts(Now)' : ~Pending(Acts(Now)'[k])
      BY <1>1, <1>2, <3>1 DEF Quiet, Pending
    <3> QED
      BY <3>2 DEF Known
  <2> QED
    BY <2>6, <2>7, <2>8 DEF RepairsInv
<1> QED
  BY <1>3, <1>4, <1>5 DEF AllDone

\* The steps that only lead the doctor on.
LEMMA LeadKeeps ==
  ASSUME RepairsInv, Acquired \/ GiveUp \/ Reported
  PROVE  RepairsInv'
<1>1. UNCHANGED <<file, sound, session, blank, runs, mode, plans, wanted, held, source, moved, ghosts>>
      /\ faults' \in Nat
  BY DEF Acquired, GiveUp, Reported, RepairsInv, Types
<1>2. \/ pc = "lock" /\ pc' = "apply" /\ exit' = exit
      \/ pc \in {"lock", "apply", "fail"} /\ pc' = "release" /\ exit' \in {"fixed", "error"}
  BY DEF Acquired, GiveUp, Reported, Goto
<1> QED
  BY <1>1, <1>2, PcKeeps

-----------------------------------------------------------------------------
(* Everybody else. *)

\* Another command writes a file: a lock only as its session needs it.
LEMMA OthersKeep ==
  ASSUME RepairsInv, NEW t \in Target, NEW c \in Contents(t[2]), ByOthers(t, c), faults' \in Nat,
         Locks'
  PROVE  RepairsInv'
<1>1. Types /\ Shape /\ Locks /\ Window /\ Quiet /\ Known
      /\ Forward /\ Backward /\ Reverted /\ Undoing
  BY DEF RepairsInv
<1>2. /\ Write(t, c) /\ others' = others \cup {t} /\ raced' = (raced \/ InWindow(t))
      /\ start' = IF pc = "idle" THEN file' ELSE start
      /\ UNCHANGED <<sound, runs, exit>>
      /\ UNCHANGED <<pc, mode, plans, wanted, held, source, moved>>
  BY DEF ByOthers, doctor
<1>3. c \in Content
  BY LeafFacts
<1>4. /\ file' \in [Bundle -> [Leaf -> Content]] /\ At(t)' = c
      /\ \A u \in Target : u # t => At(u)' = At(u)
  BY <1>1, <1>2, <1>3, WriteOne DEF Types
<1>5. /\ Now' = Now /\ LastAct' = LastAct /\ Current' = Current /\ Acts(Now)' = Acts(Now)
      /\ Due(Now)' = Due(Now) /\ \A i \in DOMAIN runs : Acts(i)' = Acts(i)
  BY <1>2 DEF Now, LastAct, Current, Acts, Due
<1>6. raced' \in BOOLEAN /\ (raced => raced') /\ others' \subseteq Target
  BY <1>1, <1>2 DEF Types
<1>7. (Midway' <=> Midway) /\ (Active' <=> Active)
  BY <1>2 DEF Midway, Active
<1>8. Types'
  <2>1. \A u \in Target : At(u)' \in Contents(u[2])
    BY <1>1, <1>4 DEF Types
  <2>2. start' \in [Bundle -> [Leaf -> Content]]
    BY <1>1, <1>2, <1>4 DEF Types
  <2> QED
    BY <1>1, <1>2, <1>4, <1>5, <1>6, <1>7, <2>1, <2>2 DEF Types
<1>9. Shape' /\ Quiet'
  BY <1>1, <1>2, <1>5, <1>7 DEF Shape, Quiet
<1>11. pc # "idle" => Now \in DOMAIN runs
  BY <1>1 DEF Types, Journals, Now
<1>12. Midway => Current.target \in Target
  <2>1. runs' \in {runs, Closed("ok")}
    BY <1>2
  <2> QED
    BY <2>1, <1>1, Closing DEF Outcomes
<1>13. Window'
  <2>1. CASE pc \in {"commit", "verify"}
    <3>1. PICK u \in Target : u = Current.target
      BY <2>1, <1>12 DEF Midway
    <3>2. At(Current.target)' = At(u)'
      BY <3>1, <1>5 DEF At
    <3>3. u = t => raced' /\ u \in others'
      BY <2>1, <3>1, <1>2 DEF InWindow
    <3>4. u # t => At(u)' = At(u)
      BY <1>4
    <3> QED
      BY <3>1, <3>2, <3>3, <3>4, <1>1, <1>2, <1>5, <1>6 DEF Window
  <2>2. CASE pc \notin {"commit", "verify"}
    BY <2>2, <1>2 DEF Window
  <2> QED
    BY <2>1, <2>2
<1>14. Known'
  <2> SUFFICES ASSUME runs # <<>>, NEW k \in DOMAIN Acts(Now), Pending(Acts(Now)[k]),
                      Acts(Now)[k].target \notin others'
      PROVE  At(Acts(Now)[k].target)' \in {Acts(Now)[k].before, Acts(Now)[k].after}
    BY <1>2, <1>5 DEF Known
  <2>1. Now \in DOMAIN runs
    BY <1>1 DEF Types, Journals, Now
  <2>2. PICK u \in Target : u = Acts(Now)[k].target
    BY <2>1, <1>1, ActsTyped DEF Types
  <2>3. At(Acts(Now)[k].target)' = At(u)'
    BY <2>2, <1>5 DEF At
  <2> QED
    BY <2>2, <2>3, <1>1, <1>2, <1>4 DEF Known
<1>15. \A u \in Plain' : /\ u \in Plain /\ u \in Target /\ At(u)' = At(u)
                         /\ pc # "idle" => Base(u)' = Base(u)
  BY <1>2, <1>4 DEF Plain, Base
<1>16. Forward'
  BY <1>1, <1>2, <1>5, <1>15 DEF Forward
<1>17. Reverted'
  BY <1>1, <1>2, <1>15 DEF Reverted, Types
<1>18. Backward' /\ Undoing'
  <2>1. CASE Active
    <3>1. start' = start
      BY <2>1, <1>2 DEF Active, Taking
    <3>2. \A u \in Target : \A x : Restores(u, x) => Restores(u, x)'
      BY <1>2, <1>5, <1>7 DEF Restores
    <3>3. \A u \in Target : \A x : Sought(u, x) => Sought(u, x)' \/ u \in others'
      BY <1>2, <1>4, <1>5, <1>7 DEF Sought, Planned, Making
    <3> QED
      BY <2>1, <3>1, <3>2, <3>3, <1>1, <1>2, Onwards
  <2>2. CASE ~Active
    BY <2>2, <1>7 DEF Backward, Undoing
  <2> QED
    BY <2>1, <2>2
<1> QED
  BY <1>8, <1>9, <1>13, <1>14, <1>16, <1>17, <1>18 DEF RepairsInv

\* What the sessions do to the locks, and what that does to the doctor's.
LEMMA SessionLocks ==
  ASSUME Types, Locks, NEW b \in Bundle, NEW c \in Content, ByOthers(<<b, Lock>>, c),
         NEW stage \in Stages, session' = [session EXCEPT ![b] = stage],
         NEW maker \in {"none", "archive"}, blank' = [blank EXCEPT ![b] = maker],
         maker = "archive" => c = "empty" /\ stage = "starting",
         stage = "starting" => maker = "archive",
         stage = "runs" => c = "live"
  PROVE  Locks'
<1>1. <<b, Lock>> \in Target /\ <<b, Lock>>[1] = b /\ <<b, Lock>>[2] = Lock
      /\ \A d \in Bundle : <<d, Lock>> \in Target
  BY LeafFacts
<1>2. /\ Write(<<b, Lock>>, c) /\ raced' = (raced \/ InWindow(<<b, Lock>>))
      /\ UNCHANGED <<pc, wanted>>
  BY DEF ByOthers, doctor
<1>3. At(<<b, Lock>>)' = c /\ \A u \in Target : u # <<b, Lock>> => At(u)' = At(u)
  BY <1>1, <1>2, WriteOne DEF Types
<1>4. file'[b][Lock] = c /\ \A d \in Bundle \ {b} : file'[d][Lock] = file[d][Lock]
  <2>1. file'[b][Lock] = c
    BY <1>3 DEF At
  <2>2. ASSUME NEW d \in Bundle \ {b} PROVE file'[d][Lock] = file[d][Lock]
    <3>1. <<d, Lock>> # <<b, Lock>>
      OBVIOUS
    <3>2. At(<<d, Lock>>)' = At(<<d, Lock>>)
      BY <1>1, <1>3, <3>1
    <3> QED
      BY <3>2 DEF At
  <2> QED
    BY <2>1, <2>2
<1>5. session' \in [Bundle -> Stages] /\ blank' \in [Bundle -> Makers]
      /\ session'[b] = stage /\ blank'[b] = maker
      /\ \A d \in Bundle \ {b} : blank'[d] = blank[d] /\ session'[d] = session[d]
  BY DEF Locks, Makers
<1>6. pc \in {"unlink", "own"} /\ Turn(b) => raced'
  BY <1>1, <1>2 DEF InWindow
<1>7. LockOf(b)'
  BY <1>2, <1>4, <1>5, <1>6 DEF LockOf, Turn
<1>8. raced => raced'
  BY <1>2
<1> QED
  BY <1>2, <1>4, <1>5, <1>7, <1>8, LocksOne

\* verify, migrate, hydrate and the user leave the locks alone.
LEMMA EditKeeps ==
  ASSUME RepairsInv, NEW t \in Target, Edit(t)
  PROVE  RepairsInv'
<1>1. faults' \in Nat /\ UNCHANGED <<session, blank>> /\ t[2] # Lock /\ Types /\ Locks
  BY DEF RepairsInv, Types, Edit, Fault
<1>2. PICK c \in Contents(t[2]) : ByOthers(t, c)
  BY DEF Edit
<1>3. Write(t, c) /\ (raced => raced') /\ UNCHANGED <<pc, wanted>> /\ c \in Content
  BY <1>2, LeafFacts DEF ByOthers, doctor
<1>4. \A u \in Target : u # t => At(u)' = At(u)
  BY <1>1, <1>3, WriteOne DEF Types
<1>5. ASSUME NEW b \in Bundle PROVE file'[b][Lock] = file[b][Lock]
  <2>1. <<b, Lock>> \in Target /\ <<b, Lock>> # t
    BY <1>1, LeafFacts
  <2>2. At(<<b, Lock>>)' = At(<<b, Lock>>)
    BY <2>1, <1>4
  <2> QED
    BY <2>2 DEF At
<1>6. Locks'
  BY <1>1, <1>3, <1>5, LocksStay
<1> QED
  BY <1>1, <1>2, <1>6, OthersKeep

\* What the properties are about stays as it is.
LEMMA StillKeeps ==
  ASSUME RepairsInv, UNCHANGED <<file, runs, doctor, exit, ghosts>>, Locks',
         sound' \in [Bundle -> Soundness], faults' \in Nat
  PROVE  RepairsInv'
<1>1. Types /\ Shape /\ Locks /\ Window /\ Quiet /\ Known
      /\ Forward /\ Backward /\ Reverted /\ Undoing
  BY DEF RepairsInv
<1>2. /\ UNCHANGED <<file, runs, exit, start, others, raced>>
      /\ UNCHANGED <<pc, mode, plans, wanted, held, source, moved>>
  BY DEF doctor, ghosts
<1>3. Types' /\ Shape'
  BY <1>1, <1>2 DEF Types, Shape, Midway, At, Acts, Now, LastAct, Current
<1>4. Window' /\ Quiet' /\ Known'
  BY <1>1, <1>2 DEF Window, Quiet, Known, Midway, At, Acts, Now, LastAct, Current
<1>5. Forward' /\ Reverted'
  BY <1>1, <1>2 DEF Forward, Reverted, Due, Plain, Base, At, Acts, Now
<1>6. Backward' /\ Undoing'
  <2>1. \A t, c : /\ Sought(t, c)' <=> Sought(t, c)
                  /\ Restores(t, c)' <=> Restores(t, c)
    BY <1>2 DEF Sought, Restores, Planned, Making, Midway, At, Now, LastAct, Current
  <2>2. CASE Active
    <3>1. \A i \in DOMAIN runs : i < Now => runs'[i] = runs[i]
      BY <1>2
    <3> QED
      BY <1>1, <1>2, <2>1, <2>2, <3>1, Onwards
  <2>3. CASE ~Active
    BY <1>2, <2>3 DEF Backward, Undoing, Active
  <2> QED
    BY <2>2, <2>3
<1> QED
  BY <1>3, <1>4, <1>5, <1>6 DEF RepairsInv

\* The sessions of the archives.
LEMMA SessionsKeep ==
  ASSUME RepairsInv, NEW b \in Bundle,
         \/ SessionStart(b) \/ SessionJudges(b) \/ SessionReclaims(b)
         \/ SessionOwns(b) \/ SessionEnd(b) \/ SessionDies(b)
  PROVE  RepairsInv'
<1>1. Types /\ Locks /\ LockOf(b) /\ faults \in Nat /\ sound \in [Bundle -> Soundness]
  BY DEF RepairsInv, Types, Locks
<1> DEFINE l == <<b, Lock>>
<1>2. /\ l \in Target /\ l[2] = Lock /\ Contents(Lock) \subseteq Content
      /\ {"empty", "live", "absent", "dead"} \subseteq Contents(l[2])
      /\ {"none", "judged", "starting", "runs"} \subseteq Stages
  BY LeafFacts DEF Stages
<1> HIDE DEF l
<1>3. ASSUME NEW c \in {"empty", "live", "absent", "dead"}, ByOthers(l, c), faults' \in Nat,
             NEW stage \in Stages, session' = [session EXCEPT ![b] = stage],
             NEW maker \in {"none", "archive"}, blank' = [blank EXCEPT ![b] = maker],
             maker = "archive" => c = "empty" /\ stage = "starting",
             stage = "starting" => maker = "archive",
             stage = "runs" => c = "live"
      PROVE  RepairsInv'
  <2>1. Locks'
    BY <1>1, <1>2, <1>3, SessionLocks DEF l
  <2> QED
    BY <1>2, <1>3, <2>1, OthersKeep
<1>4. ASSUME SessionMakes(b), faults' \in Nat PROVE RepairsInv'
  BY <1>2, <1>3, <1>4 DEF SessionMakes, SessionGoto, l
<1>5. CASE SessionStart(b)
  BY <1>1, <1>4, <1>5 DEF SessionStart, Fault
<1>6. CASE SessionJudges(b)
  <2>1. /\ session' = [session EXCEPT ![b] = "judged"] /\ faults' \in Nat
        /\ UNCHANGED <<file, sound, blank, runs, doctor, exit, ghosts>> /\ session[b] = "none"
    BY <1>1, <1>6 DEF SessionJudges, SessionGoto, Fault
  <2>2. session' \in [Bundle -> Stages] /\ blank' \in [Bundle -> Makers] /\ session'[b] = "judged"
        /\ UNCHANGED <<file, blank, pc, wanted, raced>> /\ \A d \in Bundle \ {b} : session'[d] = session[d]
    BY <1>1, <1>2, <2>1 DEF Locks, doctor, ghosts
  <2>3. LockOf(b)'
    BY <1>1, <2>1, <2>2 DEF LockOf, Turn
  <2>4. Locks'
    BY <1>1, <2>2, <2>3, LocksOne
  <2> QED
    BY <1>1, <2>1, <2>4, StillKeeps
<1>7. CASE SessionReclaims(b)
  <2>1. CASE SessionMakes(b)
    BY <1>1, <1>4, <1>7, <2>1 DEF SessionReclaims
  <2>2. CASE SessionGoto(b, "none") /\ blank' = [blank EXCEPT ![b] = "none"] /\ ByOthers(l, "absent")
    BY <1>1, <1>2, <1>3, <1>7, <2>2 DEF SessionReclaims, SessionGoto
  <2> QED
    BY <1>7, <2>1, <2>2 DEF SessionReclaims, l
<1>8. CASE SessionOwns(b)
  <2>1. session[b] = "starting" /\ session' = [session EXCEPT ![b] = "runs"] /\ faults' \in Nat
    BY <1>1, <1>8 DEF SessionOwns, SessionGoto
  <2>2. CASE blank[b] = "archive"
    <3>1. blank' = [blank EXCEPT ![b] = "none"] /\ ByOthers(l, "live")
      BY <1>8, <2>2 DEF SessionOwns, l
    <3> QED
      BY <1>2, <1>3, <2>1, <3>1
  <2>3. CASE blank[b] # "archive"
    <3>1. UNCHANGED <<file, sound, blank, runs, doctor, exit, ghosts>> /\ raced
      BY <1>1, <1>8, <2>1, <2>3 DEF SessionOwns, LockOf
    <3>2. session' \in [Bundle -> Stages] /\ blank' \in [Bundle -> Makers] /\ session'[b] = "runs"
          /\ UNCHANGED <<file, blank, pc, wanted, raced>> /\ \A d \in Bundle \ {b} : session'[d] = session[d]
      BY <1>1, <1>2, <2>1, <3>1 DEF Locks, doctor, ghosts
    <3>3. LockOf(b)'
      BY <1>1, <2>3, <3>1, <3>2 DEF LockOf, Turn
    <3>4. Locks'
      BY <1>1, <3>2, <3>3, LocksOne
    <3> QED
      BY <1>1, <2>1, <3>1, <3>4, StillKeeps
  <2> QED
    BY <2>2, <2>3
<1>9. ASSUME file[b][Lock] = "live", UNCHANGED blank PROVE blank' = [blank EXCEPT ![b] = "none"]
  BY <1>1, <1>9 DEF LockOf, Locks, Makers
<1>10. CASE SessionEnd(b)
  <2>1. session' = [session EXCEPT ![b] = "none"] /\ ByOthers(l, "absent") /\ faults' \in Nat
        /\ blank' = [blank EXCEPT ![b] = "none"]
    BY <1>1, <1>9, <1>10 DEF SessionEnd, SessionGoto, l
  <2> QED
    BY <1>2, <1>3, <2>1
<1>11. CASE SessionDies(b)
  <2>1. session' = [session EXCEPT ![b] = "none"] /\ faults' \in Nat
    BY <1>1, <1>11 DEF SessionDies, SessionGoto, Fault
  <2>2. blank' = [blank EXCEPT ![b] = "none"] /\ (ByOthers(l, "dead") \/ ByOthers(l, "empty"))
    BY <1>9, <1>11 DEF SessionDies, l
  <2> QED
    BY <1>2, <1>3, <2>1, <2>2
<1> QED
  BY <1>5, <1>6, <1>7, <1>8, <1>10, <1>11

\* What a bundle looks like hinders repairs, and breaks none.
LEMMA SpoilKeeps ==
  ASSUME RepairsInv, NEW b \in Bundle, Spoil(b)
  PROVE  RepairsInv'
<1>1. sound' \in [Bundle -> Soundness] /\ faults' \in Nat /\ Locks
      /\ UNCHANGED <<file, session, blank, runs, doctor, exit, ghosts>>
  BY DEF RepairsInv, Types, Spoil, Fault
<1>2. UNCHANGED <<session, blank, raced, pc, wanted>>
  BY <1>1 DEF doctor, ghosts
<1>3. Locks'
  BY <1>1, <1>2, LocksStay
<1> QED
  BY <1>1, <1>3, StillKeeps

-----------------------------------------------------------------------------
(* The invariant, and what follows from it. *)

\* It holds at the start.
LEMMA RepairsInit == Init => RepairsInv
<1> SUFFICES ASSUME Init PROVE RepairsInv
  OBVIOUS
<1>1. /\ session = [b \in Bundle |-> "none"] /\ blank = [b \in Bundle |-> "none"] /\ pc = "idle" /\ mode = "fix" /\ plans = {} /\ wanted = {} /\ held = {}
      /\ source = 0 /\ moved = "absent" /\ exit = "none" /\ start = file /\ others = {}
      /\ raced = FALSE /\ faults = 0 /\ runs = <<>>
  BY DEF Init
<1>2. /\ Now = 0 /\ DOMAIN runs = {} /\ runs \in Journals /\ 0 \in 0..Now
  BY <1>1 DEF Now, Journals
<1>3. file \in [Bundle -> [Leaf -> Content]] /\ \A t \in Target : At(t) \in Contents(t[2])
  BY DEF Init
<1>4. sound \in [Bundle -> Soundness] /\ "absent" \in Content
  BY LeafFacts DEF Init, Soundness
<1>5. Types
  <2>1. \A i \in DOMAIN runs : \A k \in DOMAIN Acts(i) :
          Fits(Acts(i)[k].before, Acts(i)[k].after, Acts(i)[k].target)
    BY <1>2
  <2>2. ~Midway /\ mode \in Kinds
    BY <1>1 DEF Midway, Kinds
  <2> QED
    BY <1>1, <1>2, <1>3, <1>4, <2>1, <2>2 DEF Types
<1>6. Shape
  BY <1>1, <1>2 DEF Shape
<1>7. Locks /\ Window /\ Quiet /\ Known
  BY <1>1 DEF Locks, LockOf, Stages, Makers, Window, Quiet, Known, Midway, Taking
<1>8. Forward /\ Backward /\ Reverted /\ Undoing
  BY <1>1 DEF Forward, Backward, Reverted, Undoing
<1> QED
  BY <1>5, <1>6, <1>7, <1>8 DEF RepairsInv

\* No step of the doctor and none of the others breaks it.
LEMMA RepairsInductive == RepairsInv /\ [Next]_vars => RepairsInv'
<1> SUFFICES ASSUME RepairsInv, [Next]_vars PROVE RepairsInv'
  OBVIOUS
<1>1. ASSUME Step PROVE RepairsInv'
  BY <1>1, AcquireKeeps, LeadKeeps, PrepareKeeps, CheckKeeps, CommitKeeps, FinishKeeps, RollBackKeeps,
     DoneKeeps, EndKeeps DEF Step
<1>2. ASSUME Command PROVE RepairsInv'
  <2>1. ASSUME NEW checks \in {Checks} \cup {{c} : c \in Checks},
               NEW scanned \in {Bundle} \cup {{b} : b \in Bundle}, Fix(checks, scanned)
        PROVE  RepairsInv'
    <3>1. scanned \in SUBSET Bundle
      OBVIOUS
    <3> QED
      BY <2>1, <3>1, FixKeeps
  <2>2. ASSUME NEW i \in DOMAIN runs, Undo(i) \/ Gc(i) PROVE RepairsInv'
    BY <2>2, UndoKeeps, GcKeeps
  <2> QED
    BY <1>2, <2>1, <2>2 DEF Command
<1>3. ASSUME Mishap \/ Crash \/ (\E b \in Bundle : OwnFails(b)) PROVE RepairsInv'
  BY <1>3, CheckKeeps, EndKeeps, AcquireKeeps
<1>4. ASSUME Others PROVE RepairsInv'
  BY <1>4, SessionsKeep, SpoilKeeps, EditKeeps DEF Others
<1>5. ASSUME UNCHANGED vars PROVE RepairsInv'
  <2>1. sound' \in [Bundle -> Soundness] /\ faults' \in Nat /\ Locks
        /\ UNCHANGED <<file, session, blank, runs, doctor, exit, ghosts>>
    BY <1>5 DEF vars, RepairsInv, Types
  <2>2. UNCHANGED <<session, blank, raced, pc, wanted>>
    BY <2>1 DEF doctor, ghosts
  <2>3. Locks'
    BY <2>1, <2>2, LocksStay
  <2> QED
    BY <2>1, <2>3, StillKeeps
<1> QED
  BY <1>1, <1>2, <1>3, <1>4, <1>5 DEF Next

\* RepairsInv holds of every run.
LEMMA RepairsHold == Spec => []RepairsInv
<1>1. Init => RepairsInv
  BY RepairsInit
<1>2. RepairsInv /\ [Next]_vars => RepairsInv'
  BY RepairsInductive
<1> QED
  BY <1>1, <1>2, PTL DEF Spec

\* The journals, the plans and the files are what the model says they are.
THEOREM RepairsTyped == Spec => []TypeOK
<1>1. RepairsInv => TypeOK
  <2> SUFFICES ASSUME Types, Locks PROVE TypeOK
    BY DEF RepairsInv
  <2>0. session \in [Bundle -> Stages] /\ blank \in [Bundle -> Makers]
    BY DEF Locks
  <2>1. ASSUME NEW i \in DOMAIN runs
        PROVE  runs[i].kind \in Kinds /\ \A k \in DOMAIN runs[i].acts : runs[i].acts[k] \in Action
    <3>1. runs[i] \in Journal
      BY DEF Types, Journals
    <3> QED
      BY <3>1 DEF Journal
  <2>2. source \in 0..Len(runs)
    BY DEF Types, Now
  <2> QED
    BY <2>0, <2>1, <2>2 DEF TypeOK, Types, Stages, Makers, Taking
<1> QED
  BY <1>1, RepairsHold, PTL

\* No doctor takes away the lock of a running archive, however the sessions come
\* and go between its steps, unless somebody comes between a look of its and what it
\* does next under the same name, or an archive is between making a lock and owning it.
THEOREM LocksOfArchivesStay == Spec => []LiveLockStays
<1>1. RepairsInv => LiveLockStays
  BY DEF RepairsInv, Locks, LockOf, LiveLockStays
<1> QED
  BY <1>1, RepairsHold, PTL

\* A rollback ends with every file as it was at the start of the command, an undo
\* with every file as it was before the run it undoes.
THEOREM RepairsAllOrNothing == Spec => []AllOrNothing
<1>1. RepairsInv => AllOrNothing
  <2> SUFFICES ASSUME RepairsInv PROVE AllOrNothing
    OBVIOUS
  <2>1. ASSUME exit = "reverted", NEW t \in Target \ others, t[2] # Lock
        PROVE  At(t) = start[t[1]][t[2]]
    BY <2>1 DEF RepairsInv, Reverted, Plain, Base
  <2>2. ASSUME pc = "apply", mode = "undo", plans = {}, NEW k \in Due(source)
        PROVE  \/ At(runs[source].acts[k].target) = runs[source].acts[k].before
               \/ runs[source].acts[k].target \in others
    BY <2>2 DEF RepairsInv, Undoing, Sought, Planned, Making, Midway, Active, Acts
  <2> QED
    BY <2>1, <2>2 DEF AllOrNothing
<1> QED
  BY <1>1, RepairsHold, PTL

\* After any end of the doctor, a crash included, what its last run left open has
\* happened or has not.
THEOREM InterruptionsAreKnown == Spec => []InterruptedIsKnown
<1>1. RepairsInv => InterruptedIsKnown
  <2> SUFFICES ASSUME RepairsInv, runs # <<>>, NEW k \in DOMAIN runs[Now].acts,
                      Pending(runs[Now].acts[k]), runs[Now].acts[k].target \notin others
               PROVE  RecoveryState(runs[Now].acts[k]) # "divergent"
    BY DEF InterruptedIsKnown
  <2>1. At(runs[Now].acts[k].target) \in {runs[Now].acts[k].before, runs[Now].acts[k].after}
    BY DEF RepairsInv, Known, Acts
  <2> QED
    BY <2>1 DEF RecoveryState
<1> QED
  BY <1>1, RepairsHold, PTL

\* The current action is in a journal.
LEMMA CurrentJournaled ==
  ASSUME Types, Midway
  PROVE  Current \in Journaled(Current.target)
<1>1. PICK r : r = runs
  OBVIOUS
<1>2. Now > 0 /\ LastAct > 0 /\ runs \in Journals
  BY DEF Types, Midway
<1>3. Now \in DOMAIN runs
  BY <1>2 DEF Journals, Now
<1>4. LastAct \in DOMAIN runs[Now].acts
  <2>1. Acts(Now) \in Seq(Action) /\ LastAct = Len(Acts(Now))
    BY <1>2, <1>3, ActsTyped DEF LastAct, Acts
  <2> QED
    BY <2>1, <1>2 DEF Acts
<1>5. Current = runs[Now].acts[LastAct]
  BY DEF Current
<1> QED
  BY <1>3, <1>4, <1>5 DEF Journaled

\* The doctor writes over what its journals account for, and over nothing else
\* but what slipped in between the last look and the rename.
THEOREM EditsStand == Spec => EditStands
<1> DEFINE Accounted(t) ==
      \/ At(t)' = At(t) \/ raced
      \/ /\ t[2] = Lock
         /\ {At(t), At(t)'} \subseteq {"absent", "empty", "doctor", "orphan"}
      \/ At(t) \in UNION {{a.before, a.after} : a \in Journaled(t)}
    A == <<doctor, runs>>' # <<doctor, runs>> => \A t \in Target : Accounted(t)
<1>1. ASSUME RepairsInv, file' = file PROVE \A t \in Target : Accounted(t)
  BY <1>1 DEF At
<1>2. ASSUME RepairsInv, Midway,
             NEW t \in Target, t = Current.target, \A u \in Target : u # t => At(u)' = At(u),
             At(t)' = At(t) \/ raced \/ At(t) \in {Current.before, Current.after}
      PROVE  \A u \in Target : Accounted(u)
  <2>1. Current \in Journaled(t)
    BY <1>2, CurrentJournaled DEF RepairsInv
  <2>2. {Current.before, Current.after} \in {{a.before, a.after} : a \in Journaled(t)}
    BY <2>1
  <2>3. {Current.before, Current.after} \subseteq UNION {{a.before, a.after} : a \in Journaled(t)}
    BY <2>2
  <2>4. Accounted(t)
    BY <1>2, <2>3
  <2> QED
    BY <1>2, <2>4
<1>3. ASSUME RepairsInv, NEW b \in Bundle, Look(b) \/ Unlink(b) \/ Create(b) \/ Own(b) \/ OwnFails(b)
      PROVE  \A t \in Target : Accounted(t)
  <2>1. CASE file' = file
    BY <2>1, <1>1, <1>3
  <2>2. CASE file' # file
    <3>1. /\ raced \/ file[b][Lock] \in {"absent", "empty", "orphan"}
          /\ \E c \in {"absent", "empty", "doctor"} : Write(<<b, Lock>>, c)
      <4>1. LockOf(b)
        BY <1>3 DEF RepairsInv, Locks
      <4> QED
        BY <1>3, <2>2, <4>1 DEF Look, Unlink, Create, Own, OwnFails, LockOf
    <3> DEFINE l == <<b, Lock>>
    <3>2. PICK c \in {"absent", "empty", "doctor"} : Write(l, c)
      BY <3>1
    <3>3. l \in Target /\ l[2] = Lock /\ At(l) = file[b][Lock] /\ c \in Content
      BY LeafFacts DEF At
    <3> HIDE DEF l
    <3>4. At(l)' = c /\ \A u \in Target : u # l => At(u)' = At(u)
      BY <3>2, <3>3, <1>3, WriteOne DEF RepairsInv, Types
    <3> QED
      BY <3>1, <3>3, <3>4
  <2> QED
    BY <2>1, <2>2
<1>4. ASSUME RepairsInv, Release \/ Crash PROVE \A t \in Target : Accounted(t)
  <2> SUFFICES ASSUME NEW t \in Target, At(t)' # At(t)
               PROVE  t[2] = Lock /\ At(t) = "doctor" /\ At(t)' \in {"absent", "orphan"}
    OBVIOUS
  <2>1. t[1] \in Bundle /\ t[2] \in Leaf
    BY LeafFacts
  <2>2. file \in [Bundle -> [Leaf -> Content]] /\ file[t[1]] \in [Leaf -> Content]
    BY <1>4, <2>1 DEF RepairsInv, Types
  <2>3. \/ file'[t[1]] = file[t[1]]
        \/ \E c \in {"absent", "orphan"} : /\ file[t[1]][Lock] = "doctor"
                                           /\ file'[t[1]] = [file[t[1]] EXCEPT ![Lock] = c]
    BY <1>4, <2>1 DEF Release, Crash
  <2> QED
    BY <2>1, <2>2, <2>3 DEF At
<1>5. ASSUME RepairsInv, Commit PROVE \A t \in Target : Accounted(t)
  <2>1. Midway /\ pc = "commit" /\ Write(Current.target, Current.after) /\ runs' \in {runs, Closed("ok")}
    BY <1>5 DEF Commit, Place, Midway
  <2>2. Current.target \in Target /\ Fits(Current.before, Current.after, Current.target)
    BY <1>5, <2>1, Closing DEF RepairsInv, Outcomes
  <2>3. PICK t \in Target : t = Current.target
    BY <2>2
  <2>4. Current.after \in Content
    BY <2>2, <2>3, LeafFacts DEF Fits
  <2>5. \A u \in Target : u # t => At(u)' = At(u)
    BY <1>5, <2>1, <2>3, <2>4, WriteOne DEF RepairsInv, Types
  <2>6. raced \/ At(t) = Current.before
    BY <1>5, <2>1, <2>3 DEF RepairsInv, Window
  <2> QED
    BY <1>2, <1>5, <2>1, <2>3, <2>5, <2>6
<1>6. ASSUME RepairsInv, Midway, Compensated PROVE \A t \in Target : Accounted(t)
  <2>1. PICK out \in {"undone", "failed"}, t \in Target :
           /\ t = Current.target
           /\ \A u \in Target : u # t => At(u)' = At(u)
           /\ \/ At(t)' = At(t)
              \/ raced \/ (At(t) # "live" /\ At(t) = Current.after)
    BY <1>6, Compensation DEF RepairsInv
  <2> QED
    BY <1>2, <1>6, <2>1
<1>7. RepairsInv /\ [Next]_vars => [A]_vars
  <2> SUFFICES ASSUME RepairsInv, Next, <<doctor, runs>>' # <<doctor, runs>>
               PROVE  \A t \in Target : Accounted(t)
    BY DEF A
  <2>1. CASE Step
    <3>1. CASE \E b \in Bundle : Look(b) \/ Unlink(b) \/ Create(b) \/ Own(b)
      BY <3>1, <1>3
    <3>2. CASE Commit
      BY <3>2, <1>5
    <3>3. CASE Release
      BY <3>3, <1>4
    <3>4. CASE Check \/ NotVerified \/ NothingToMove
      BY <3>4, <1>1, <1>6 DEF Check, NotVerified, NothingToMove, Stumble, Midway
    <3>5. CASE Acquired \/ Prepare \/ Finish \/ RollBack \/ GiveUp \/ Reported \/ AllDone
      <4>1. file' = file
        BY <3>5 DEF Acquired, Prepare, Finish, RollBack, GiveUp, Reported, AllDone
      <4> QED
        BY <4>1, <1>1
    <3> QED
      BY <2>1, <3>1, <3>2, <3>3, <3>4, <3>5 DEF Step
  <2>2. CASE Command
    <3>1. file' = file
      BY <2>2 DEF Command, Fix, Undo, Gc, Begin
    <3> QED
      BY <3>1, <1>1
  <2>3. CASE Mishap
    BY <2>3, <1>6 DEF Mishap, Stumble, Midway
  <2>4. CASE Crash
    BY <2>4, <1>4
  <2>5. CASE Others
    BY <2>5 DEF Others, SessionStart, SessionJudges, SessionReclaims, SessionMakes, SessionOwns,
                SessionEnd, SessionDies, Spoil, Edit, ByOthers
  <2>6. CASE \E b \in Bundle : OwnFails(b)
    BY <2>6, <1>3
  <2> QED
    BY <2>1, <2>2, <2>3, <2>4, <2>5, <2>6 DEF Next
<1>8. Spec => [][A]_vars
  BY <1>7, RepairsHold, PTL DEF Spec
<1> QED
  BY <1>8 DEF EditStands
=============================================================================
