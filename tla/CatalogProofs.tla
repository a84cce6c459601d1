------------------------------ MODULE CatalogProofs ------------------------------
(***************************************************************************)
(* Proofs about the catalog and the collection room, for any sources,      *)
(* scopes, orders, publications and windows: of each alone, and beside the *)
(* other parts.                                                            *)
(***************************************************************************)
EXTENDS Parts, FiniteSetTheorems, SequenceTheorems, WellFoundedInduction, TLAPS

-----------------------------------------------------------------------------
(* The catalog.                                                             *)

\* What holds of zero and of the successor of every number it holds of, holds of
\* every number.
LEMMA NatUp ==
  ASSUME NEW Good, 0 \in Good, \A k \in Nat : k \in Good => k + 1 \in Good
  PROVE  Nat \subseteq Good
<1> DEFINE R   == {ss \in Nat \X Nat : ss[1] < ss[2]}
           Bad == Nat \ Good
<1>1. IsWellFoundedOn(R, Nat)
  BY NatLessThanWellFounded, Zenon DEF OpToRel
<1>2. \A m, n \in Nat : m < n => <<m, n>> \in R
  OBVIOUS
<1> HIDE DEF R
<1> SUFFICES ASSUME Bad # {} PROVE FALSE
  OBVIOUS
<1>3. PICK n \in Bad : \A m \in Bad : ~ (<<m, n>> \in R)
  <2>1. Bad \subseteq Nat
    OBVIOUS
  <2> HIDE DEF Bad
  <2> QED
    BY <1>1, <2>1, WFMin
<1>4. n # 0 /\ n \in Nat
  BY <1>3
<1>5. n - 1 \in Nat /\ n - 1 < n /\ n - 1 + 1 = n
  BY <1>4
<1>6. n - 1 \notin Bad
  BY <1>2, <1>3, <1>4, <1>5
<1>7. n - 1 + 1 \in Good
  BY <1>5, <1>6
<1> QED
  BY <1>3, <1>5, <1>7

\* The largest member of a set of indices.
LEMMA Largest ==
  ASSUME NEW n \in Nat, NEW s \in SUBSET (1..n), s # {}
  PROVE  Wants!Max(s) \in s /\ \A y \in s : y <= Wants!Max(s)
<1> DEFINE Good == {k \in Nat : \A t \in SUBSET (1..k) : t # {} => \E x \in t : \A y \in t : x >= y}
<1>1. 0 \in Good
  <2>1. 1..0 = {}
    OBVIOUS
  <2> QED
    BY <2>1
<1>2. ASSUME NEW k \in Nat, k \in Good PROVE k + 1 \in Good
  <2> SUFFICES ASSUME NEW t \in SUBSET (1..k + 1), t # {} PROVE \E x \in t : \A y \in t : x >= y
    OBVIOUS
  <2>1. CASE k + 1 \in t
    BY <2>1
  <2>2. CASE k + 1 \notin t
    <3>1. t \in SUBSET (1..k)
      BY <2>2
    <3> QED
      BY <1>2, <3>1
  <2> QED
    BY <2>1, <2>2
<1> HIDE DEF Good
<1>3. n \in Good
  BY <1>1, <1>2, NatUp
<1>4. \E x \in s : \A y \in s : x >= y
  BY <1>3 DEF Good
<1>5. Wants!Max(s) \in s /\ \A y \in s : Wants!Max(s) >= y
  BY <1>4 DEF Wants!Max
<1> QED
  BY <1>5

\* The equation of a fold over the indices 1..n whose steps stay in a set.
Folds(h, step, base, n) ==
  h = [s \in SUBSET (1..n) |-> IF s = {} THEN base ELSE step[<<Wants!Max(s), h[s \ {Wants!Max(s)}]>>]]

\* It has a solution, whose values are in the set.
LEMMA FoldExists ==
  ASSUME NEW n \in Nat, NEW C, NEW base \in C, NEW step \in [(1..n) \X C -> C]
  PROVE  \E h : Folds(h, step, base, n) /\ h \in [SUBSET (1..n) -> C]
<1> DEFINE Solved(k) == \E h : Folds(h, step, base, k) /\ h \in [SUBSET (1..k) -> C]
           Good == {k \in Nat : k <= n => Solved(k)}
<1>1. 0 \in Good
  <2>1. Folds([s \in SUBSET (1..0) |-> base], step, base, 0)
    BY DEF Folds
  <2> QED
    BY <2>1
<1>2. ASSUME NEW k \in Nat, k \in Good PROVE k + 1 \in Good
  <2> HIDE DEF Solved
  <2> SUFFICES ASSUME k + 1 <= n PROVE Solved(k + 1)
    OBVIOUS
  <2>0. Solved(k)
    BY <1>2
  <2>1. PICK g : Folds(g, step, base, k) /\ g \in [SUBSET (1..k) -> C]
    BY <2>0 DEF Solved
  <2> DEFINE h == [s \in SUBSET (1..k + 1) |->
                     IF k + 1 \in s THEN step[<<k + 1, g[s \ {k + 1}]>>] ELSE g[s]]
  <2>2. ASSUME NEW s \in SUBSET (1..k + 1) PROVE s \ {k + 1} \in SUBSET (1..k)
    OBVIOUS
  <2>3. ASSUME NEW s \in SUBSET (1..k + 1) PROVE h[s] \in C
    <3>1. CASE k + 1 \in s
      <4>1. g[s \ {k + 1}] \in C /\ k + 1 \in 1..n
        BY <2>1, <2>2
      <4> QED
        BY <3>1, <4>1
    <3>2. CASE k + 1 \notin s
      <4>1. s \in SUBSET (1..k)
        BY <2>2, <3>2
      <4> QED
        BY <2>1, <3>2, <4>1
    <3> QED
      BY <3>1, <3>2
  <2>4. h \in [SUBSET (1..k + 1) -> C]
    BY <2>3
  <2>5. ASSUME NEW s \in SUBSET (1..k + 1)
        PROVE  h[s] = IF s = {} THEN base ELSE step[<<Wants!Max(s), h[s \ {Wants!Max(s)}]>>]
    <3>1. CASE k + 1 \in s
      <4>1. Wants!Max(s) = k + 1
        <5>1. k + 1 \in Nat /\ s \in SUBSET (1..k + 1) /\ s # {}
          BY <3>1
        <5>2. Wants!Max(s) \in s /\ \A y \in s : y <= Wants!Max(s)
          BY <5>1, Largest
        <5>3. ASSUME NEW m \in 1..k + 1, k + 1 <= m PROVE m = k + 1
          BY <5>3
        <5> QED
          BY <3>1, <5>2, <5>3
      <4>2. h[s] = step[<<k + 1, g[s \ {k + 1}]>>] /\ h[s \ {k + 1}] = g[s \ {k + 1}]
        BY <3>1
      <4> HIDE DEF h
      <4> QED
        BY <3>1, <4>1, <4>2
    <3>2. CASE k + 1 \notin s
      <4>1. s \in SUBSET (1..k) /\ h[s] = g[s]
        BY <2>2, <3>2
      <4>2. g[s] = IF s = {} THEN base ELSE step[<<Wants!Max(s), g[s \ {Wants!Max(s)}]>>]
        BY <2>1, <4>1 DEF Folds
      <4>3. h[s \ {Wants!Max(s)}] = g[s \ {Wants!Max(s)}]
        BY <3>2
      <4> HIDE DEF h
      <4> QED
        BY <4>1, <4>2, <4>3
    <3> QED
      BY <3>1, <3>2
  <2>6. Folds(h, step, base, k + 1)
    BY <2>5 DEF Folds
  <2> HIDE DEF h
  <2> QED
    BY <2>4, <2>6 DEF Solved
<1> HIDE DEF Good, Solved
<1>3. n \in Good
  BY <1>1, <1>2, NatUp
<1>4. Solved(n)
  BY <1>3 DEF Good
<1> QED
  BY <1>4 DEF Solved

\* What a fold yields is in a set that it starts in and that no step leaves.
LEMMA FoldStays ==
  ASSUME NEW n \in Nat, NEW C, NEW h, h[{}] \in C,
         \A s \in SUBSET (1..n) : s # {} /\ h[s \ {Wants!Max(s)}] \in C => h[s] \in C
  PROVE  h[1..n] \in C
<1> DEFINE Good == {k \in Nat : k <= n => \A s \in SUBSET (1..k) : h[s] \in C}
<1>1. 0 \in Good
  <2>1. ASSUME NEW s \in SUBSET (1..0) PROVE h[s] \in C
    <3>1. s = {}
      OBVIOUS
    <3> QED
      BY <3>1
  <2> QED
    BY <2>1
<1>2. ASSUME NEW k \in Nat, k \in Good PROVE k + 1 \in Good
  <2> SUFFICES ASSUME k + 1 <= n, NEW s \in SUBSET (1..k + 1), s # {} PROVE h[s] \in C
    <3>1. ASSUME k + 1 <= n, NEW s \in SUBSET (1..k + 1), s = {} PROVE h[s] \in C
      BY <3>1
    <3> QED
      BY <3>1
  <2> DEFINE m == Wants!Max(s)
  <2>1. m \in s /\ \A y \in s : y <= m
    <3>1. k + 1 \in Nat
      OBVIOUS
    <3> QED
      BY <3>1, Largest
  <2> HIDE DEF m
  <2>2. s \ {m} \in SUBSET (1..k)
    BY <2>1
  <2>3. h[s \ {m}] \in C
    BY <1>2, <2>2
  <2>4. s \in SUBSET (1..n)
    OBVIOUS
  <2> QED
    BY <2>3, <2>4 DEF m
<1> HIDE DEF Good
<1>3. n \in Good
  BY <1>1, <1>2, NatUp
<1> QED
  BY <1>3 DEF Good

\* Catalogs without two entries of one key.
Uniques == {c \in Seq(Wants!Entries) :
              \A i, j \in DOMAIN c : i # j => Wants!Key(c[i]) # Wants!Key(c[j])}

\* An entry that a catalog lacks may be appended.
LEMMA AppendUnique ==
  ASSUME NEW c \in Uniques, NEW e \in Wants!Entries, Wants!Lacks(c, e)
  PROVE  Append(c, e) \in Uniques
<1> DEFINE d == Append(c, e)
<1>1. c \in Seq(Wants!Entries) /\ DOMAIN c = 1..Len(c) /\ Len(c) \in Nat
  BY DEF Uniques
<1>2. /\ d \in Seq(Wants!Entries) /\ DOMAIN d = 1..Len(c) + 1
      /\ d[Len(c) + 1] = e /\ \A i \in 1..Len(c) : d[i] = c[i]
  BY <1>1
<1> HIDE DEF d
<1>3. ASSUME NEW i \in DOMAIN d, NEW j \in DOMAIN d, i # j PROVE Wants!Key(d[i]) # Wants!Key(d[j])
  <2>1. CASE i \in 1..Len(c) /\ j \in 1..Len(c)
    BY <1>1, <1>2, <1>3, <2>1 DEF Uniques
  <2>2. CASE i = Len(c) + 1 /\ j \in 1..Len(c)
    BY <1>1, <1>2, <2>2 DEF Wants!Lacks
  <2>3. CASE j = Len(c) + 1 /\ i \in 1..Len(c)
    BY <1>1, <1>2, <2>3 DEF Wants!Lacks
  <2> QED
    BY <1>1, <1>2, <1>3, <2>1, <2>2, <2>3
<1> QED
  BY <1>2, <1>3 DEF Uniques, d

\* catalog adopt keeps the keys apart: the fold over the other catalog.
LEMMA AdoptedUnique ==
  ASSUME Wants!CatalogAssumption, NEW c \in Uniques PROVE Wants!Adopted(c, Friend) \in Uniques
<1> DEFINE n == Len(Friend)
           After(d, e) == IF Wants!Lacks(d, e) THEN Append(d, e) ELSE d
           Eq(h) == h = [s \in SUBSET DOMAIN Friend |->
                           IF s = {} THEN c ELSE After(h[s \ {Wants!Max(s)}], Friend[Wants!Max(s)])]
           iter == CHOOSE h : Eq(h)
           step == [x \in (1..n) \X Uniques |-> After(x[2], Friend[x[1]])]
<1>1. Wants!Adopted(c, Friend) = iter[DOMAIN Friend]
  BY DEF Wants!Adopted, Wants!FoldLeft, Wants!MapThenFoldSet
<1>2. n \in Nat /\ DOMAIN Friend = 1..n /\ \A i \in 1..n : Friend[i] \in Wants!Entries
  BY DEF Wants!CatalogAssumption
<1>3. \A d \in Uniques : \A e \in Wants!Entries : After(d, e) \in Uniques
  BY AppendUnique
<1> HIDE DEF n, After
<1>4. step \in [(1..n) \X Uniques -> Uniques]
  BY <1>2, <1>3
<1>5. PICK h : Folds(h, step, c, n) /\ h \in [SUBSET (1..n) -> Uniques]
  <2> HIDE DEF step
  <2> QED
    BY <1>2, <1>4, FoldExists
<1>6. Eq(h)
  <2>1. ASSUME NEW s \in SUBSET (1..n), s # {}
        PROVE  step[<<Wants!Max(s), h[s \ {Wants!Max(s)}]>>] = After(h[s \ {Wants!Max(s)}], Friend[Wants!Max(s)])
    <3>1. Wants!Max(s) \in 1..n /\ s \ {Wants!Max(s)} \in SUBSET (1..n)
      BY <1>2, <2>1, Largest
    <3>2. h[s \ {Wants!Max(s)}] \in Uniques
      BY <1>5, <3>1
    <3> QED
      BY <3>1, <3>2
  <2> HIDE DEF step
  <2> QED
    BY <1>2, <1>5, <2>1 DEF Folds
<1>7. Eq(iter)
  <2> HIDE DEF Eq
  <2> QED
    BY <1>6
<1> HIDE DEF iter
<1>8. ASSUME NEW s \in SUBSET (1..n), s # {}, iter[s \ {Wants!Max(s)}] \in Uniques
      PROVE  iter[s] \in Uniques
  <2>1. Wants!Max(s) \in 1..n
    BY <1>2, <1>8, Largest
  <2>2. iter[s] = After(iter[s \ {Wants!Max(s)}], Friend[Wants!Max(s)])
    BY <1>2, <1>7, <1>8
  <2> QED
    BY <1>2, <1>3, <1>8, <2>1, <2>2
<1>9. iter[{}] = c
  BY <1>7
<1> HIDE DEF Eq
<1>10. iter[{}] \in Uniques
  BY <1>9
<1>11. iter[1..n] \in Uniques
  BY <1>2, <1>8, <1>10, FoldStays
<1> QED
  BY <1>1, <1>2, <1>11

\* An address is rewritten in a catalog only if no other entry has the key it
\* gets, so no two get the same.
LEMMA ResolvedUnique ==
  ASSUME Wants!CatalogAssumption, NEW c \in Uniques, NEW i \in Nat
  PROVE  Wants!AdoptResolved(c, i) \in Uniques
<1> SUFFICES ASSUME ~Wants!Collides(c, i), i \in DOMAIN c
             PROVE  [c EXCEPT ![i] = Wants!Resolved(@)] \in Uniques
  <2>1. i \notin DOMAIN c => [c EXCEPT ![i] = Wants!Resolved(@)] = c
    BY DEF Uniques
  <2> QED
    BY <2>1 DEF Wants!AdoptResolved
<1> DEFINE d == [c EXCEPT ![i] = Wants!Resolved(@)]
<1>1. c \in Seq(Wants!Entries) /\ DOMAIN c = 1..Len(c) /\ \A k \in DOMAIN c : c[k] \in Wants!Entries
  BY DEF Uniques
<1>2. Wants!Resolved(c[i]) \in Wants!Entries
  BY <1>1 DEF Wants!Resolved, Wants!Entries, Wants!CatalogAssumption
<1>3. /\ d \in Seq(Wants!Entries) /\ DOMAIN d = DOMAIN c /\ d[i] = Wants!Resolved(c[i])
      /\ \A k \in DOMAIN c \ {i} : d[k] = c[k]
  BY <1>1, <1>2
<1> HIDE DEF d
<1>4. \A k \in DOMAIN c \ {i} : Wants!Key(d[k]) # Wants!Key(d[i])
  BY <1>3 DEF Wants!Collides
<1>5. ASSUME NEW k \in DOMAIN d, NEW l \in DOMAIN d, k # l PROVE Wants!Key(d[k]) # Wants!Key(d[l])
  <2>1. CASE k = i \/ l = i
    BY <1>3, <1>4, <1>5, <2>1
  <2>2. CASE k # i /\ l # i
    BY <1>3, <1>5, <2>2 DEF Uniques
  <2> QED
    BY <2>1, <2>2
<1> QED
  BY <1>3, <1>5 DEF Uniques, d

\* So does estimate, whatever sources answered: the fold over the indices.
LEMMA PricedUnique ==
  ASSUME Wants!CatalogAssumption, NEW c \in Uniques, NEW reached PROVE Wants!Priced(c, reached) \in Uniques
<1> DEFINE n == Len(c)
           ids == [i \in DOMAIN c |-> i]
           After(d, i) == IF i \in reached THEN Wants!AdoptResolved(d, i) ELSE d
           Eq(h) == h = [s \in SUBSET DOMAIN ids |->
                           IF s = {} THEN c ELSE After(h[s \ {Wants!Max(s)}], ids[Wants!Max(s)])]
           iter == CHOOSE h : Eq(h)
           step == [x \in (1..n) \X Uniques |-> After(x[2], x[1])]
<1>1. Wants!Priced(c, reached) = iter[DOMAIN ids]
  BY DEF Wants!Priced, Wants!FoldLeft, Wants!MapThenFoldSet
<1>2. n \in Nat /\ DOMAIN ids = 1..n /\ \A i \in 1..n : ids[i] = i /\ i \in Nat
  BY DEF Uniques
<1>3. \A d \in Uniques : \A i \in Nat : After(d, i) \in Uniques
  BY ResolvedUnique
<1> HIDE DEF n, After, ids
<1>4. step \in [(1..n) \X Uniques -> Uniques]
  BY <1>2, <1>3
<1>5. PICK h : Folds(h, step, c, n) /\ h \in [SUBSET (1..n) -> Uniques]
  <2> HIDE DEF step
  <2> QED
    BY <1>2, <1>4, FoldExists
<1>6. Eq(h)
  <2>1. ASSUME NEW s \in SUBSET (1..n), s # {}
        PROVE  step[<<Wants!Max(s), h[s \ {Wants!Max(s)}]>>] = After(h[s \ {Wants!Max(s)}], ids[Wants!Max(s)])
    <3>1. Wants!Max(s) \in 1..n /\ s \ {Wants!Max(s)} \in SUBSET (1..n)
      BY <1>2, <2>1, Largest
    <3>2. h[s \ {Wants!Max(s)}] \in Uniques
      BY <1>5, <3>1
    <3> QED
      BY <1>2, <3>1, <3>2
  <2> HIDE DEF step
  <2> QED
    BY <1>2, <1>5, <2>1 DEF Folds
<1>7. Eq(iter)
  <2> HIDE DEF Eq
  <2> QED
    BY <1>6
<1> HIDE DEF iter
<1>8. ASSUME NEW s \in SUBSET (1..n), s # {}, iter[s \ {Wants!Max(s)}] \in Uniques
      PROVE  iter[s] \in Uniques
  <2>1. Wants!Max(s) \in 1..n
    BY <1>2, <1>8, Largest
  <2>2. iter[s] = After(iter[s \ {Wants!Max(s)}], ids[Wants!Max(s)])
    BY <1>2, <1>7, <1>8
  <2> QED
    BY <1>2, <1>3, <1>8, <2>1, <2>2
<1>9. iter[{}] = c
  BY <1>7
<1> HIDE DEF Eq
<1>10. iter[{}] \in Uniques
  BY <1>9
<1>11. iter[1..n] \in Uniques
  BY <1>2, <1>8, <1>10, FoldStays
<1> QED
  BY <1>1, <1>2, <1>11

\* So do catalog add and add --estimate.
LEMMA UpsertUnique ==
  ASSUME NEW c \in Uniques, NEW e \in Wants!Entries PROVE Wants!Upsert(c, e) \in Uniques
<1>1. c \in Seq(Wants!Entries) /\ DOMAIN c = 1..Len(c) /\ \A k \in DOMAIN c : c[k] \in Wants!Entries
  BY DEF Uniques
<1>2. CASE \E i \in DOMAIN c : Wants!Key(c[i]) = Wants!Key(e)
  <2> DEFINE Up(k) == IF Wants!Key(c[k]) = Wants!Key(e) /\ e.desire # 0
                      THEN [c[k] EXCEPT !.desire = e.desire] ELSE c[k]
             d == [k \in DOMAIN c |-> Up(k)]
  <2>1. Wants!Upsert(c, e) = d
    BY <1>2 DEF Wants!Upsert
  <2>2. ASSUME NEW k \in DOMAIN c PROVE Up(k) \in Wants!Entries /\ Wants!Key(Up(k)) = Wants!Key(c[k])
    BY <1>1 DEF Wants!Entries, Wants!Key
  <2> HIDE DEF Up
  <2>3. d \in Seq(Wants!Entries) /\ DOMAIN d = DOMAIN c /\ \A k \in DOMAIN c : Wants!Key(d[k]) = Wants!Key(c[k])
    BY <1>1, <2>2
  <2> HIDE DEF d
  <2>4. \A i, j \in DOMAIN c : i # j => Wants!Key(c[i]) # Wants!Key(c[j])
    BY DEF Uniques
  <2> QED
    BY <2>1, <2>3, <2>4 DEF Uniques
<1>3. CASE ~\E i \in DOMAIN c : Wants!Key(c[i]) = Wants!Key(e)
  BY <1>3, AppendUnique DEF Wants!Upsert, Wants!Lacks
<1> QED
  BY <1>2, <1>3

\* So does catalog drop.
LEMMA RemovedUnique ==
  ASSUME NEW c \in Uniques, NEW i \in DOMAIN c PROVE Wants!RemoveAt(c, i) \in Uniques
<1> DEFINE n == Len(c)
           a == SubSeq(c, 1, i - 1)
           b == SubSeq(c, i + 1, n)
           d == a \o b
<1>1. n \in Nat /\ i \in 1..n /\ DOMAIN c = 1..n /\ \A k \in 1..n : c[k] \in Wants!Entries
  BY DEF Uniques
<1>2. Wants!RemoveAt(c, i) = d
  BY DEF Wants!RemoveAt
<1> HIDE DEF n
<1>3. a \in Seq(Wants!Entries) /\ Len(a) = i - 1 /\ \A k \in 1..i - 1 : a[k] = c[k]
  BY <1>1, SubSeqProperties
<1>4. b \in Seq(Wants!Entries) /\ Len(b) = n - i /\ \A k \in 1..n - i : b[k] = c[i + k]
  BY <1>1, SubSeqProperties
<1> HIDE DEF a, b
<1>5. d \in Seq(Wants!Entries) /\ DOMAIN d = 1..n - 1
      /\ \A k \in 1..n - 1 : d[k] = c[IF k < i THEN k ELSE k + 1]
  <2>1. d \in Seq(Wants!Entries) /\ Len(d) = n - 1 /\ DOMAIN d = 1..n - 1
    <3>1. d \in Seq(Wants!Entries) /\ Len(d) = Len(a) + Len(b) /\ DOMAIN d = 1..Len(d)
      BY <1>3, <1>4
    <3>2. Len(d) = n - 1
      BY <1>1, <1>3, <1>4, <3>1
    <3> QED
      BY <3>1, <3>2
  <2>2. ASSUME NEW k \in 1..n - 1 PROVE d[k] = c[IF k < i THEN k ELSE k + 1]
    <3>1. d[k] = IF k <= Len(a) THEN a[k] ELSE b[k - Len(a)]
      BY <1>1, <1>3, <1>4
    <3>2. CASE k < i
      <4>1. k \in 1..i - 1 /\ k <= i - 1
        BY <1>1, <3>2
      <4> QED
        BY <1>3, <3>1, <3>2, <4>1
    <3>3. CASE ~(k < i)
      <4>1. k - (i - 1) \in 1..n - i /\ i + (k - (i - 1)) = k + 1 /\ ~(k <= i - 1)
        BY <1>1, <3>3
      <4>2. d[k] = b[k - (i - 1)]
        BY <1>3, <3>1, <4>1
      <4> QED
        BY <1>4, <3>3, <4>1, <4>2
    <3> QED
      BY <3>2, <3>3
  <2> QED
    BY <2>1, <2>2
<1> HIDE DEF d
<1>6. ASSUME NEW k \in 1..n - 1, NEW l \in 1..n - 1, k # l PROVE Wants!Key(d[k]) # Wants!Key(d[l])
  <2> DEFINE Old(x) == IF x < i THEN x ELSE x + 1
  <2>1. Old(k) \in 1..n /\ Old(l) \in 1..n /\ Old(k) # Old(l)
    BY <1>1, <1>6
  <2>2. d[k] = c[Old(k)] /\ d[l] = c[Old(l)]
    BY <1>5
  <2> HIDE DEF Old
  <2> QED
    BY <1>1, <2>1, <2>2 DEF Uniques
<1> QED
  BY <1>2, <1>5, <1>6 DEF Uniques

\* What is in the vault: a pin made at a commit is of that commit.
Pins == {b \in [address : Source, revision : Wants!Commits, ref : Wants!Revision,
                include : Wants!Scope, done : BOOLEAN] :
           b.ref \in Wants!Commits => b.revision = b.ref}

CatalogInv ==
  /\ entries \in Uniques
  /\ price \in [on : BOOLEAN, copy : Uniques, add : Seq(Wants!Entries)]
  /\ bundles \subseteq Pins /\ head \in Wants!Commits

\* The bundle an archive run works on is one of those.
LEMMA PinnedTyped ==
  ASSUME Wants!CatalogAssumption, CatalogInv, NEW s \in Source, NEW rev \in Wants!Revision,
         NEW scope \in Wants!Scope, NEW resumeScope \in BOOLEAN
  PROVE  Wants!Pinned(s, rev, scope, resumeScope) \subseteq Pins
<1> DEFINE req == Wants!Requested(rev)
<1>1. req \in Wants!Revision \ {"none"}
  BY DEF Wants!Requested, Wants!Revision, Wants!Commits
<1>2. Wants!CommitOf(req) \in Wants!Commits /\ (req \in Wants!Commits => Wants!CommitOf(req) = req)
  BY <1>1 DEF Wants!CommitOf, Wants!Commits, Wants!Revision, CatalogInv
<1>3. Resolves[s] \in Source
  BY DEF Wants!CatalogAssumption
<1> HIDE DEF req
<1>4. ASSUME NEW kept \in Wants!Scope PROVE Wants!Bundle(Resolves[s], Wants!CommitOf(req), req, kept) \in Pins
  BY <1>1, <1>2, <1>3 DEF Wants!Bundle, Pins
<1>5. "default" \in Wants!Scope /\ "kept" \in Wants!Scope
  BY DEF Wants!Scope
<1> QED
  BY <1>4, <1>5 DEF Wants!Pinned, Wants!FindResume, Wants!InPlace, CatalogInv, req

\* So are the bundles of the vault when it has ended.
LEMMA OutcomeTyped ==
  ASSUME Wants!CatalogAssumption, CatalogInv, NEW s \in Source, NEW rev \in Wants!Revision,
         NEW scope \in Wants!Scope, NEW row, Wants!Outcome(s, rev, scope, row)
  PROVE  bundles' \subseteq Pins
<1>1. PICK b \in Wants!Pinned(s, rev, scope, row = <<>>), done \in BOOLEAN :
        bundles' = (bundles \ {b}) \cup {[b EXCEPT !.done = done]}
  BY DEF Wants!Outcome, Wants!NoRow
<1> DEFINE resumeScope == row = <<>>
<1>2. b \in Pins
  <2>1. resumeScope \in BOOLEAN
    OBVIOUS
  <2>2. b \in Wants!Pinned(s, rev, scope, resumeScope)
    BY <1>1
  <2> HIDE DEF resumeScope
  <2> QED
    BY <2>1, <2>2, PinnedTyped
<1>3. [b EXCEPT !.done = done] \in Pins
  BY <1>2 DEF Pins
<1> QED
  BY <1>1, <1>3 DEF CatalogInv

\* A row that archive --next registers is served by what it registered.
LEMMA Serves ==
  ASSUME Wants!CatalogAssumption, CatalogInv, NEW e \in Wants!Entries,
         Wants!Status(e) \in {"want", "partial"}, NEW r \in Wants!Realize(e),
         NEW b \in Wants!Pinned(e.source, r[1], r[2], FALSE),
         bundles' = (bundles \ {b}) \cup {[b EXCEPT !.done = TRUE]}
  PROVE  \/ Wants!Status(e)' = "have"
         \/ Resolves[e.source] # e.source
         \/ e.revision \in {"main", "tag"} /\ b.ref # e.revision
<1> DEFINE c == [b EXCEPT !.done = TRUE]
           Fitting(x) == /\ x.address = e.source /\ Wants!RevisionMatches(x, e.revision)
                      /\ Wants!ScopeMatches(x, e.include)
<1>1. e.source \in Source /\ e.revision \in Wants!Revision /\ e.include \in Wants!Scope
  BY DEF Wants!Entries
<1>2. e.source \notin Home
  BY DEF Wants!Status
<1>3. \A x \in Wants!Matches(e) : x \in bundles /\ Fitting(x)
  BY DEF Wants!Matches
<1>4. r[1] \in Wants!Revision /\ r[2] \in Wants!Scope
  BY <1>1, <1>3 DEF Wants!Realize, CatalogInv, Pins, Wants!Revision
<1>5. b \in Pins
  BY <1>1, <1>4, PinnedTyped
<1>6. /\ c.done = TRUE /\ c.address = b.address /\ c.revision = b.revision
      /\ c.ref = b.ref /\ c.include = b.include
  BY <1>5 DEF Pins
<1>7. Fitting(c) => Wants!Status(e)' = "have"
  <2>1. c \in bundles'
    OBVIOUS
  <2>2. Fitting(c) => c \in Wants!Matches(e)'
    BY <2>1 DEF Wants!Matches
  <2> QED
    BY <1>2, <1>6, <2>2 DEF Wants!Status
<1>8. Fitting(b) => Fitting(c)
  BY <1>6 DEF Wants!RevisionMatches, Wants!ScopeMatches
<1> HIDE DEF c
<1>9. CASE Wants!Status(e) = "partial"
  <2>1. PICK x \in Wants!Matches(e) : r = <<x.revision, x.include>> /\ ~x.done
    BY <1>2, <1>9 DEF Wants!Realize, Wants!Status
  <2>2. x \in Pins /\ x \in bundles /\ Fitting(x)
    BY <1>3 DEF CatalogInv
  <2>3. Wants!Requested(x.revision) = x.revision
    BY <2>2 DEF Wants!Requested, Pins, Wants!Commits
  <2>4. x \in Wants!FindResume(e.source, r[1])
    BY <2>1, <2>2, <2>3 DEF Wants!FindResume
  <2>5. b \in Wants!FindResume(e.source, r[1]) /\ Wants!ScopeFits(b, r[2])
    BY <2>4 DEF Wants!Pinned
  <2>6. b.address = e.source /\ b.revision = x.revision
    BY <1>5, <2>1, <2>2, <2>3, <2>5 DEF Wants!FindResume, Pins
  <2>7. Wants!ScopeMatches(b, e.include)
    BY <2>1, <2>2, <2>5 DEF Wants!ScopeFits, Wants!ScopeMatches
  <2>8. Wants!RevisionMatches(b, e.revision) \/ (e.revision \in {"main", "tag"} /\ b.ref # e.revision)
    BY <1>1, <2>6, <2>2 DEF Wants!RevisionMatches, Wants!Revision
  <2> QED
    BY <1>7, <1>8, <2>6, <2>7, <2>8
<1>10. CASE Wants!Status(e) = "want"
  <2>1. r[1] = e.revision /\ r[2] = e.include
    BY <1>10 DEF Wants!Realize
  <2> DEFINE req == Wants!Requested(e.revision)
  <2>2. /\ req \in {"main", "tag"} \cup Wants!Commits
        /\ e.revision # "none" => req = e.revision
    BY <1>1 DEF Wants!Requested, Wants!Revision
  <2>3. (req \in Wants!Commits => Wants!CommitOf(req) = req)
    BY DEF Wants!CommitOf, Wants!Commits
  <2> HIDE DEF req
  <2>4. CASE b \in Wants!FindResume(e.source, e.revision) /\ Wants!ScopeFits(b, e.include)
    <3>1. b.address = e.source /\ req \in {b.ref, b.revision}
      BY <2>4 DEF Wants!FindResume, req
    <3>2. Wants!ScopeMatches(b, e.include)
      BY <2>4 DEF Wants!ScopeFits, Wants!ScopeMatches
    <3>3. Wants!RevisionMatches(b, e.revision)
      BY <1>1, <1>5, <2>2, <3>1 DEF Wants!RevisionMatches, Wants!Revision, Wants!Commits, Pins
    <3> QED
      BY <1>7, <1>8, <3>1, <3>2, <3>3
  <2>5. CASE b \in Wants!InPlace(e.source, e.revision) /\ Wants!ScopeFits(b, e.include)
    <3>1. b.address = Resolves[e.source] /\ b.revision = Wants!CommitOf(req)
      BY <2>5 DEF Wants!InPlace, req
    <3>2. Wants!ScopeMatches(b, e.include)
      BY <2>5 DEF Wants!ScopeFits, Wants!ScopeMatches
    <3>3. Wants!RevisionMatches(b, e.revision) \/ (e.revision \in {"main", "tag"} /\ b.ref # e.revision)
      BY <1>1, <2>2, <2>3, <3>1 DEF Wants!RevisionMatches, Wants!Revision, Wants!Commits
    <3> QED
      BY <1>7, <1>8, <3>1, <3>2, <3>3
  <2>6. CASE \E kept \in IF e.include = "default" THEN {"default", "kept"} ELSE {e.include} :
               b = Wants!Bundle(Resolves[e.source], Wants!CommitOf(req), req, kept)
    <3>1. PICK kept \in IF e.include = "default" THEN {"default", "kept"} ELSE {e.include} :
               b = Wants!Bundle(Resolves[e.source], Wants!CommitOf(req), req, kept)
      BY <2>6
    <3>2. b.address = Resolves[e.source] /\ b.revision = Wants!CommitOf(req) /\ b.ref = req /\ b.include = kept
      BY <3>1 DEF Wants!Bundle
    <3>3. Wants!ScopeMatches(b, e.include)
      BY <3>1, <3>2 DEF Wants!ScopeMatches
    <3>4. Wants!RevisionMatches(b, e.revision)
      BY <1>1, <2>2, <2>3, <3>2 DEF Wants!RevisionMatches, Wants!Revision, Wants!Commits
    <3> QED
      BY <1>7, <1>8, <3>2, <3>3, <3>4
  <2> QED
    BY <2>1, <2>4, <2>5, <2>6 DEF Wants!Pinned, req
<1> QED
  BY <1>9, <1>10

\* What is registered is recorded behind its row.
LEMMA AppendPair ==
  ASSUME NEW e, NEW x
  PROVE  Append(<<e>>, x) = <<e, x>>
<1>1. <<e>> \in Seq({e, x}) /\ x \in {e, x} /\ Len(<<e>>) = 1
  OBVIOUS
<1>2. Append(<<e>>, x) \in Seq({e, x}) /\ Len(Append(<<e>>, x)) = 2
  BY <1>1
<1>3. Append(<<e>>, x)[1] = e /\ Append(<<e>>, x)[2] = x
  BY <1>1
<1>4. <<e, x>> \in Seq({e, x}) /\ Len(<<e, x>>) = 2 /\ <<e, x>>[1] = e /\ <<e, x>>[2] = x
  OBVIOUS
<1>5. \A k \in 1..2 : Append(<<e>>, x)[k] = <<e, x>>[k]
  BY <1>3, <1>4
<1> QED
  BY <1>2, <1>4, <1>5, SeqEqual

\* Every command, and a commit upstream, keeps the invariant and the promise.
LEMMA CatalogStep ==
  ASSUME Wants!CatalogAssumption, CatalogInv, Wants!NextServesItsRow, [Wants!Next]_Wants!vars
  PROVE  CatalogInv' /\ Wants!NextServesItsRow'
<1> USE DEF Wants!Still
<1>1. ASSUME UNCHANGED <<bundles, served>> PROVE Wants!NextServesItsRow'
  BY <1>1 DEF Wants!NextServesItsRow, Wants!Status, Wants!Matches
<1>2. ASSUME served' = <<>> PROVE Wants!NextServesItsRow'
  BY <1>2 DEF Wants!NextServesItsRow, Wants!NoRow
<1>3. ASSUME NEW s \in Source, NEW w \in Wish, NEW desire \in {0, 5}, Wants!Add(s, w, desire)
      PROVE  CatalogInv' /\ UNCHANGED <<bundles, served>>
  <2>1. Wants!Entry(s, w[1], w[2], desire) \in Wants!Entries
    BY DEF Wants!Entry, Wants!Entries, Wants!CatalogAssumption, Wants!Scope
  <2> QED
    BY <1>3, <2>1, UpsertUnique DEF Wants!Add, CatalogInv
<1>4. ASSUME NEW s \in Source, NEW w \in Wish, NEW x \in BOOLEAN, NEW y \in BOOLEAN, Wants!Drop(s, w, x, y)
      PROVE  CatalogInv' /\ UNCHANGED <<bundles, served>>
  <2>1. \E i \in DOMAIN entries : entries' = Wants!RemoveAt(entries, i)
    BY <1>4 DEF Wants!Drop, Wants!DropCandidates
  <2> QED
    BY <1>4, <2>1, RemovedUnique DEF Wants!Drop, CatalogInv
<1>5. ASSUME Wants!Adopt PROVE CatalogInv'
  BY <1>5, AdoptedUnique DEF Wants!Adopt, CatalogInv
<1>6. ASSUME Wants!Price PROVE CatalogInv'
  <2>1. PICK add \in Seq(Wants!Entries) : price' = [on |-> TRUE, copy |-> entries, add |-> add]
    <3>1. <<>> \in Seq(Wants!Entries)
      OBVIOUS
    <3>2. ASSUME NEW s \in Source, NEW w \in Wish PROVE <<Wants!Entry(s, w[1], w[2], 0)>> \in Seq(Wants!Entries)
      BY DEF Wants!Entry, Wants!Entries, Wants!CatalogAssumption, Wants!Scope
    <3> QED
      BY <1>6, <3>1, <3>2 DEF Wants!Price
  <2> QED
    BY <1>6, <2>1 DEF Wants!Price, CatalogInv
<1>7. ASSUME Wants!PriceEnds PROVE CatalogInv'
  <2>1. price.copy \in Uniques /\ price.add \in Seq(Wants!Entries)
    BY DEF CatalogInv
  <2>2. entries' \in Uniques
    <3>1. CASE price.add = <<>>
      BY <1>7, <2>1, <3>1, PricedUnique DEF Wants!PriceEnds
    <3>2. CASE price.add # <<>>
      <4>1. price.add[1] \in Wants!Entries
        BY <2>1, <3>2
      <4>2. Wants!Resolved(price.add[1]) \in Wants!Entries
        BY <4>1 DEF Wants!Resolved, Wants!Entries, Wants!CatalogAssumption
      <4> QED
        BY <1>7, <2>1, <3>2, <4>2, UpsertUnique DEF Wants!PriceEnds
    <3> QED
      BY <3>1, <3>2
  <2>3. Wants!NoPrice \in [on : BOOLEAN, copy : Uniques, add : Seq(Wants!Entries)]
    <3>1. <<>> \in Seq(Wants!Entries) /\ <<>> \in Uniques
      BY DEF Uniques
    <3> QED
      BY <3>1 DEF Wants!NoPrice
  <2> QED
    BY <1>7, <2>2, <2>3 DEF Wants!PriceEnds, CatalogInv
<1>8. ASSUME NEW s \in Source, NEW w \in Wish, Wants!Archive(s, w)
      PROVE  CatalogInv' /\ served' = <<>>
  <2>1. w[1] \in Wants!Revision /\ w[2] \in Wants!Scope
    BY DEF Wants!CatalogAssumption, Wants!Scope
  <2>2. Wants!Outcome(s, w[1], w[2], Wants!NoRow) /\ UNCHANGED <<entries, head, price>>
    BY <1>8 DEF Wants!Archive
  <2>3. bundles' \subseteq Pins
    BY <2>1, <2>2, OutcomeTyped
  <2>4. served' = <<>>
    BY <2>2 DEF Wants!Outcome, Wants!NoRow
  <2> QED
    BY <2>2, <2>3, <2>4 DEF CatalogInv
<1>9. CASE Wants!ArchiveNext
  <2>1. PICK i, r : /\ i \in DOMAIN entries /\ Wants!IsNext(i) /\ r \in Wants!Realize(entries[i])
                    /\ \/ Wants!Outcome(entries[i].source, r[1], r[2], <<entries[i]>>)
                       \/ served' = <<>> /\ UNCHANGED bundles
    BY <1>9 DEF Wants!ArchiveNext, Wants!NoRow
  <2>2. UNCHANGED <<entries, head, price>>
    BY <1>9 DEF Wants!ArchiveNext
  <2>3. PICK e \in Wants!Entries : e = entries[i] /\ Wants!Status(e) \in {"want", "partial"}
    BY <2>1 DEF CatalogInv, Uniques, Wants!IsNext, Wants!Unfinished
  <2>4. /\ r \in Wants!Realize(e)
        /\ \/ Wants!Outcome(e.source, r[1], r[2], <<e>>)
           \/ served' = <<>> /\ UNCHANGED bundles
    BY <2>1, <2>3
  <2>5. CASE served' = <<>> /\ UNCHANGED bundles
    BY <1>2, <2>2, <2>5 DEF CatalogInv
  <2>6. CASE Wants!Outcome(e.source, r[1], r[2], <<e>>)
    <3>1. r[1] \in Wants!Revision /\ r[2] \in Wants!Scope /\ e.source \in Source
      BY <2>3, <2>4 DEF Wants!Entries, Wants!Realize, Wants!Matches, CatalogInv, Pins, Wants!Revision
    <3>2. bundles' \subseteq Pins
      BY <2>6, <3>1, OutcomeTyped
    <3>3. PICK b \in Wants!Pinned(e.source, r[1], r[2], FALSE), done \in BOOLEAN :
            /\ bundles' = (bundles \ {b}) \cup {[b EXCEPT !.done = done]}
            /\ served' = IF done THEN <<e, [b EXCEPT !.done = TRUE]>> ELSE <<>>
      <4>1. <<e>> # <<>> /\ \A x : Append(<<e>>, x) = <<e, x>>
        BY AppendPair
      <4> QED
        BY <2>6, <4>1 DEF Wants!Outcome, Wants!NoRow
    <3>4. CASE done
      <4>1. bundles' = (bundles \ {b}) \cup {[b EXCEPT !.done = TRUE]} /\ served' = <<e, [b EXCEPT !.done = TRUE]>>
        BY <3>3, <3>4
      <4>2. \/ Wants!Status(e)' = "have"
            \/ Resolves[e.source] # e.source
            \/ e.revision \in {"main", "tag"} /\ b.ref # e.revision
        BY <2>3, <2>4, <4>1, Serves
      <4>3. b \in Pins
        BY <3>1, PinnedTyped
      <4>4. [b EXCEPT !.done = TRUE].ref = b.ref
        BY <4>3 DEF Pins
      <4> QED
        BY <2>2, <3>2, <4>1, <4>2, <4>4 DEF CatalogInv, Wants!NextServesItsRow
    <3>5. CASE ~done
      BY <1>2, <2>2, <3>2, <3>3, <3>5 DEF CatalogInv
    <3> QED
      BY <3>4, <3>5
  <2> QED
    BY <2>4, <2>5, <2>6
<1>10. CASE Wants!Push
  BY <1>1, <1>10 DEF Wants!Push, CatalogInv, Wants!Commits
<1>11. ASSUME NEW b \in bundles, Wants!Rm(b) PROVE CatalogInv' /\ Wants!NextServesItsRow'
  BY <1>2, <1>11 DEF Wants!Rm, CatalogInv, Wants!NoRow
<1>12. CASE UNCHANGED Wants!vars
  BY <1>1, <1>12 DEF Wants!vars, CatalogInv
<1>13. CASE Wants!Adopt \/ Wants!Price \/ Wants!PriceEnds
  BY <1>1, <1>5, <1>6, <1>7, <1>13 DEF Wants!Adopt, Wants!Price, Wants!PriceEnds
<1> QED
  BY <1>1, <1>2, <1>3, <1>4, <1>8, <1>9, <1>10, <1>11, <1>12, <1>13 DEF Wants!Next

\* No sequence of edits, whoever the source of each entry is and whatever the
\* network answered, leaves two entries of one key; and what archive --next has
\* registered is what the overlay finds for its row (catalog.py).
THEOREM CatalogsHold ==
  ASSUME Wants!CatalogAssumption
  PROVE  Wants!Spec => [](Wants!KeysUnique /\ Wants!NextServesItsRow)
<1>1. Wants!Init => CatalogInv /\ Wants!NextServesItsRow
  <2>1. <<>> \in Seq(Wants!Entries) /\ <<>> \in Uniques
    BY DEF Uniques
  <2> QED
    BY <2>1 DEF Wants!Init, Wants!NoPrice, Wants!NoRow, Wants!Commits, CatalogInv, Wants!NextServesItsRow
<1>2. CatalogInv => Wants!KeysUnique
  BY DEF CatalogInv, Uniques, Wants!KeysUnique
<1> QED
  BY <1>1, <1>2, CatalogStep, PTL DEF Wants!Spec

-----------------------------------------------------------------------------
(* The collection room.                                                      *)

\* A set of naturals has a least member.
LEMMA LeastOf ==
  ASSUME NEW S \in SUBSET Nat, S # {} PROVE \E x \in S : \A y \in S : x <= y
<1>1. IsWellFoundedOn({ss \in Nat \X Nat : ss[1] < ss[2]}, Nat)
  BY NatLessThanWellFounded DEF OpToRel
<1>2. PICK x \in S : \A y \in S : <<y, x>> \notin {ss \in Nat \X Nat : ss[1] < ss[2]}
  BY <1>1, WFMin
<1>3. \A y \in S : ~(y < x)
  BY <1>2
<1> QED
  BY <1>3

\* What is numbered by naturals has a member of the least number.
LEMMA LeastBy ==
  ASSUME NEW S, S # {}, NEW number \in [S -> Nat]
  PROVE  \E i \in S : \A j \in S : number[i] <= number[j]
<1> DEFINE N == {number[i] : i \in S}
<1>1. N \in SUBSET Nat /\ N # {}
  OBVIOUS
<1> HIDE DEF N
<1>2. PICK n \in N : \A m \in N : n <= m
  BY <1>1, LeastOf
<1> QED
  BY <1>2 DEF N

\* Each row of the room is the group of some weight, and each weight has its row.
LEMMA RowsAreGroups ==
  ASSUME Window!RoomAssumption
  PROVE  /\ \A i \in DOMAIN Group : \E f \in Window!Weights :
              Group[i] = Window!GroupOf(Window!Key(f), f.kind)
         /\ \A f \in Window!Weights : \E i \in DOMAIN Group :
              Group[i] = Window!GroupOf(Window!Key(f), f.kind)
<1>1. {Group[i] : i \in DOMAIN Group} = {Window!GroupOf(Window!Key(f), f.kind) : f \in Window!Weights}
  BY DEF Window!RoomAssumption
<1>2. ASSUME NEW i \in DOMAIN Group
      PROVE  \E f \in Window!Weights : Group[i] = Window!GroupOf(Window!Key(f), f.kind)
  BY <1>1
<1>3. ASSUME NEW f \in Window!Weights
      PROVE  \E i \in DOMAIN Group : Group[i] = Window!GroupOf(Window!Key(f), f.kind)
  BY <1>1
<1> QED
  BY <1>2, <1>3

\* The globs of a group match the weights of that group and no other: a shard
\* pattern is used only where it reaches nothing else, and a path is literal.
LEMMA IncludeNamesItems ==
  ASSUME NEW f \in Window!Weights, NEW w \in Window!Weights
  PROVE  (\E glob \in Window!Include(Window!Key(f)) : Window!Matches(glob, w))
           <=> w \in Window!Items(Window!Key(f))
<1> DEFINE key == Window!Key(f)
<1>0. Window!Weights \subseteq Gguf
  BY DEF Window!Weights
<1>1. CASE key[2] # 0 /\ {g \in Gguf : Window!Matches(Window!ShardGlob(key), g)} = Window!Items(key)
  <2>1. Window!Include(key) = {Window!ShardGlob(key)}
    BY <1>1 DEF Window!Include
  <2> QED
    BY <1>0, <1>1, <2>1
<1>2. CASE ~(key[2] # 0 /\ {g \in Gguf : Window!Matches(Window!ShardGlob(key), g)} = Window!Items(key))
  <2>1. Window!Include(key) = {Window!PathGlob(g) : g \in Window!Items(key)}
    BY <1>2 DEF Window!Include
  <2>2. \A g : Window!Matches(Window!PathGlob(g), w) <=> Window!PathGlob(g) = Window!PathGlob(w)
    BY DEF Window!Matches, Window!PathGlob
  <2>3. \A g \in Window!Items(key) : Window!PathGlob(g) = Window!PathGlob(w) => w \in Window!Items(key)
    BY DEF Window!PathGlob, Window!Items, Window!Key
  <2> QED
    BY <2>1, <2>2, <2>3
<1> QED
  BY <1>1, <1>2

\* The first selected row is a row.
LEMMA FirstIsRow ==
  ASSUME Window!RoomAssumption, NEW list
  PROVE  Window!FirstSelected(list) \in 1..Len(Group)
<1> DEFINE chosen == {i \in DOMAIN Group : Window!Selected(list, i)}
<1>1. Len(Group) \in Nat \ {0} /\ DOMAIN Group = 1..Len(Group)
  BY DEF Window!RoomAssumption
<1>2. CASE chosen = {}
  BY <1>1, <1>2 DEF Window!FirstSelected
<1>3. CASE chosen # {}
  <2>1. \E i \in chosen : \A j \in chosen : i <= j
    <3>1. chosen \in SUBSET Nat
      BY <1>1
    <3> HIDE DEF chosen
    <3> QED
      BY <1>3, <3>1, LeastOf
  <2> QED
    BY <1>1, <1>3, <2>1 DEF Window!FirstSelected
<1> QED
  BY <1>2, <1>3

\* Among the variants of one width there is a smallest one, whatever sizes two
\* of them share: their names differ.
LEMMA SmallestIsOption ==
  ASSUME Window!RoomAssumption, NEW bits, Window!Options(bits) # {}
  PROVE  Window!Smallest(Window!Options(bits)) \in Window!Options(bits)
<1> DEFINE S == Window!Options(bits)
<1>1. /\ S \subseteq DOMAIN Group /\ \A i \in S : Group[i].kind = "variant"
      /\ DOMAIN Group \subseteq Nat
  BY DEF Window!Options, Window!RoomAssumption
<1>2. \A i \in S : Group[i].size \in Nat /\ Group[i].name[1] \in Nat /\ Group[i].name[2] \in Nat
  <2> SUFFICES ASSUME NEW i \in S
               PROVE  Group[i].size \in Nat /\ Group[i].name[1] \in Nat /\ Group[i].name[2] \in Nat
    OBVIOUS
  <2>1. PICK f \in Window!Weights : Group[i] = Window!GroupOf(Window!Key(f), f.kind)
    BY <1>1, RowsAreGroups
  <2>2. Group[i].name = <<f.stem, f.of>> /\ f.stem \in Nat /\ f.of \in Nat
    BY <2>1 DEF Window!GroupOf, Window!Key, Window!Weights, Window!RoomAssumption
  <2> QED
    BY <1>1, <2>2 DEF Window!RoomAssumption
<1>3. \A i, j \in S : i # j => Window!Before(Group[i].name, Group[j].name)
                              \/ Window!Before(Group[j].name, Group[i].name)
  BY <1>1 DEF Window!RoomAssumption
<1> HIDE DEF S
<1>4. PICK a \in S : \A j \in S : Group[a].size <= Group[j].size
  <2> DEFINE number == [i \in S |-> Group[i].size]
  <2>1. number \in [S -> Nat] /\ S # {}
    BY <1>2 DEF S
  <2>2. \A i \in S : number[i] = Group[i].size
    OBVIOUS
  <2> HIDE DEF number
  <2>3. PICK i \in S : \A j \in S : number[i] <= number[j]
    BY <2>1, LeastBy
  <2> QED
    BY <2>2, <2>3
<1> DEFINE S1 == {i \in S : Group[i].size = Group[a].size}
<1>5. PICK b \in S1 : \A j \in S1 : Group[b].name[1] <= Group[j].name[1]
  <2> DEFINE number == [i \in S1 |-> Group[i].name[1]]
  <2>1. number \in [S1 -> Nat] /\ S1 # {}
    BY <1>2, <1>4
  <2>2. \A i \in S1 : number[i] = Group[i].name[1]
    OBVIOUS
  <2> HIDE DEF number, S1
  <2>3. PICK i \in S1 : \A j \in S1 : number[i] <= number[j]
    BY <2>1, LeastBy
  <2> QED
    BY <2>2, <2>3
<1> DEFINE S2 == {i \in S1 : Group[i].name[1] = Group[b].name[1]}
<1>6. PICK c \in S2 : \A j \in S2 : Group[c].name[2] <= Group[j].name[2]
  <2> DEFINE number == [i \in S2 |-> Group[i].name[2]]
  <2>1. number \in [S2 -> Nat] /\ S2 # {}
    BY <1>2, <1>5
  <2>2. \A i \in S2 : number[i] = Group[i].name[2]
    OBVIOUS
  <2> HIDE DEF number, S2
  <2>3. PICK i \in S2 : \A j \in S2 : number[i] <= number[j]
    BY <2>1, LeastBy
  <2> QED
    BY <2>2, <2>3
<1>7. c \in S
  BY <1>6
<1>8. ASSUME NEW j \in S \ {c}
      PROVE  \/ Group[c].size < Group[j].size
             \/ Group[c].size = Group[j].size /\ Window!Before(Group[c].name, Group[j].name)
  <2>1. CASE j \notin S1
    BY <1>2, <1>4, <1>6, <2>1
  <2>2. CASE j \in S1 /\ j \notin S2
    <3>1. Group[c].name[1] < Group[j].name[1] /\ Group[c].size = Group[j].size
      BY <1>2, <1>5, <1>6, <2>2
    <3> QED
      BY <3>1 DEF Window!Before
  <2>3. CASE j \in S2
    <3>1. Group[c].size = Group[j].size /\ Group[c].name[1] = Group[j].name[1]
      BY <1>6, <2>3
    <3>2. Group[c].name[2] <= Group[j].name[2] /\ Group[c].name[1] \in Nat /\ Group[c].name[2] \in Nat
          /\ Group[j].name[2] \in Nat
      BY <1>2, <1>6, <1>7, <2>3
    <3> QED
      BY <1>3, <1>7, <3>1, <3>2 DEF Window!Before
  <2> QED
    BY <2>1, <2>2, <2>3
<1>9. \E i \in S : \A j \in S \ {i} :
        \/ Group[i].size < Group[j].size
        \/ Group[i].size = Group[j].size /\ Window!Before(Group[i].name, Group[j].name)
  BY <1>7, <1>8
<1>10. Window!Smallest(S) \in S
  BY <1>9 DEF Window!Smallest
<1> QED
  BY <1>10 DEF S

\* Of a window that fits, the list is scrolled to show the row of the cursor.
LEMMA ScrollShows ==
  ASSUME NEW o \in Int, NEW c \in Nat \ {0}, NEW h \in Nat
  PROVE  /\ Window!Scroll(o, c, h) \in Int
         /\ c - 1 \in Window!Scroll(o, c, h) .. Window!Scroll(o, c, h) + Window!Rows(h) - 1
<1>1. Window!Rows(h) \in Nat \ {0}
  BY DEF Window!Rows, Window!Hi, Window!ListFrame
<1>2. Window!Hi(0, Window!Lo(o, c - 1)) \in Nat /\ Window!Hi(0, Window!Lo(o, c - 1)) <= c - 1
  BY DEF Window!Hi, Window!Lo
<1> QED
  BY <1>1, <1>2 DEF Window!Scroll

\* An include list that the room itself makes: all of it, or that of some groups.
Gathered(list) ==
  list = Window!Whole \/ \E S \in SUBSET DOMAIN Group : list = UNION {Group[j].include : j \in S}

RoomInv ==
  /\ cursor \in 1..Len(Group) /\ offset \in Int /\ height \in Height
  /\ Window!CursorShown
  /\ include \in Opening \/ Gathered(include)

\* What such a list keeps is what the rows that are marked hold.
LEMMA GatheredIsMarked ==
  ASSUME Window!RoomAssumption, NEW list, Gathered(list)
  PROVE  Window!Kept(list) \cap Window!Weights
           = UNION {Group[i].files : i \in {j \in DOMAIN Group : Window!Selected(list, j)}}
<1> DEFINE chosen == {j \in DOMAIN Group : Window!Selected(list, j)}
           named  == {w \in Window!Weights : \E glob \in list : Window!Matches(glob, w)}
<1>1. Window!Kept(list) \cap Window!Weights = named
  BY DEF Window!Kept, Window!Weights
<1>2. \A i \in DOMAIN Group :
        /\ Group[i].files \subseteq Window!Weights
        /\ \A w \in Window!Weights :
             (\E glob \in Group[i].include : Window!Matches(glob, w)) <=> w \in Group[i].files
  <2> SUFFICES ASSUME NEW i \in DOMAIN Group
               PROVE  /\ Group[i].files \subseteq Window!Weights
                      /\ \A w \in Window!Weights :
                           (\E glob \in Group[i].include : Window!Matches(glob, w)) <=> w \in Group[i].files
    OBVIOUS
  <2>1. PICK f \in Window!Weights : Group[i] = Window!GroupOf(Window!Key(f), f.kind)
    BY RowsAreGroups
  <2>2. Group[i].files = Window!Items(Window!Key(f)) /\ Group[i].include = Window!Include(Window!Key(f))
    BY <2>1 DEF Window!GroupOf
  <2>3. Window!Items(Window!Key(f)) \subseteq Window!Weights
    BY DEF Window!Items
  <2> QED
    BY <2>2, <2>3, IncludeNamesItems
<1>3. \A w \in Window!Weights : \E i \in DOMAIN Group : w \in Group[i].files
  <2> SUFFICES ASSUME NEW w \in Window!Weights PROVE \E i \in DOMAIN Group : w \in Group[i].files
    OBVIOUS
  <2>1. PICK i \in DOMAIN Group : Group[i] = Window!GroupOf(Window!Key(w), w.kind)
    BY RowsAreGroups
  <2> QED
    BY <2>1 DEF Window!GroupOf, Window!Items
<1>4. CASE list = Window!Whole
  <2>1. \A w : Window!Matches(Window!WholeGlob, w)
    BY DEF Window!Matches, Window!WholeGlob
  <2>2. named = Window!Weights
    BY <1>4, <2>1 DEF Window!Whole
  <2>3. chosen = DOMAIN Group
    BY <1>4 DEF Window!Selected
  <2> QED
    BY <1>1, <1>2, <1>3, <2>2, <2>3
<1>5. CASE list # Window!Whole
  <2>1. PICK S \in SUBSET DOMAIN Group : list = UNION {Group[j].include : j \in S}
    BY <1>5 DEF Gathered
  <2>2. chosen = {j \in DOMAIN Group : Group[j].include \subseteq list}
    BY <1>5 DEF Window!Selected
  <2>3. S \subseteq chosen
    BY <2>1, <2>2
  <2>4. ASSUME NEW w \in named PROVE \E i \in chosen : w \in Group[i].files
    <3>1. PICK j \in S : \E glob \in Group[j].include : Window!Matches(glob, w)
      BY <2>1
    <3> QED
      BY <1>2, <2>3, <3>1
  <2>5. ASSUME NEW i \in chosen, NEW w \in Group[i].files PROVE w \in named
    BY <1>2, <2>2
  <2> HIDE DEF chosen, named
  <2> QED
    BY <1>1, <2>4, <2>5 DEF chosen
<1> QED
  BY <1>4, <1>5

\* Drawing keeps the invariant.
LEMMA DrawKeeps ==
  ASSUME Window!RoomAssumption, RoomInv, NEW list, NEW c \in 1..Len(Group), NEW o \in Int, NEW p,
         NEW h \in Height, list = include \/ Gathered(list), Window!Draw(list, c, o, p, h)
  PROVE  RoomInv'
<1>1. /\ include' = list /\ cursor' = c /\ page' = p /\ height' = h
      /\ offset' = IF ~Window!Fits(h) THEN o
                   ELSE IF p = "choose" THEN Window!Scroll(o, c, h) ELSE Window!Read(o, h)
  BY DEF Window!Draw
<1>2. h \in Nat /\ Lines \in Nat /\ c \in Nat \ {0} /\ Len(Group) \in Nat
  BY DEF Window!RoomAssumption
<1>3. Window!Read(o, h) \in Int
  BY <1>2 DEF Window!Read, Window!Lo, Window!Hi, Window!PageFrame
<1>4. /\ Window!Scroll(o, c, h) \in Int
      /\ c - 1 \in Window!Scroll(o, c, h) .. Window!Scroll(o, c, h) + Window!Rows(h) - 1
  BY <1>2, ScrollShows
<1>5. offset' \in Int
  BY <1>1, <1>3, <1>4
<1>6. Window!CursorShown'
  <2> SUFFICES ASSUME page' = "choose", Window!Fits(height')
               PROVE  cursor' - 1 \in offset' .. offset' + Window!Rows(height') - 1
    BY DEF Window!CursorShown
  <2>1. offset' = Window!Scroll(o, c, h)
    BY <1>1
  <2> QED
    BY <1>1, <1>4, <2>1
<1>7. include' \in Opening \/ Gathered(include')
  BY <1>1 DEF RoomInv
<1> QED
  BY <1>1, <1>5, <1>6, <1>7 DEF RoomInv, Gathered

\* The lists that the keys make.
LEMMA StartGathered ==
  ASSUME Window!RoomAssumption, NEW wanted PROVE Gathered(Window!Start(wanted))
<1> DEFINE S == {Window!Smallest(Window!Options(b)) : b \in {w \in wanted : Window!Options(w) # {}}}
<1>1. S \subseteq DOMAIN Group
  BY SmallestIsOption DEF Window!Options
<1>2. Window!Start(wanted) = UNION {Group[j].include : j \in S}
  BY DEF Window!Start
<1> QED
  BY <1>1, <1>2 DEF Gathered

LEMMA RoomStep == ASSUME Window!RoomAssumption PROVE RoomInv /\ [Window!Next]_Window!vars => RoomInv'
<1> SUFFICES ASSUME RoomInv, [Window!Next]_Window!vars PROVE RoomInv'
  OBVIOUS
<1>0. /\ cursor \in 1..Len(Group) /\ offset \in Int /\ height \in Height /\ 0 \in Int
      /\ Len(Group) \in Nat \ {0} /\ DOMAIN Group = 1..Len(Group)
  BY DEF RoomInv, Window!RoomAssumption
<1>1. CASE UNCHANGED <<include, cursor, offset, page, height>>
  BY <1>1 DEF RoomInv, Window!CursorShown, Gathered
<1>2. CASE UNCHANGED Window!vars
  BY <1>1, <1>2 DEF Window!vars
<1>3. CASE Window!Cancel
  BY <1>1, <1>3 DEF Window!Cancel
<1>4. ASSUME NEW h \in Height, Window!Esc(h) PROVE RoomInv'
  BY <1>0, <1>3, <1>4, DrawKeeps DEF Window!Esc
<1>5. ASSUME NEW h \in Height, Window!Redraw(h) PROVE RoomInv'
  BY <1>0, <1>5, DrawKeeps DEF Window!Redraw
<1>6. ASSUME NEW h \in Height, Window!Guide(h) PROVE RoomInv'
  BY <1>0, <1>6, DrawKeeps DEF Window!Guide
<1>7. ASSUME NEW h \in Height, Window!Space(h) PROVE RoomInv'
  <2>1. Window!Chosen(cursor) \in SUBSET DOMAIN Group
    BY <1>0 DEF Window!Chosen, Window!Others
  <2>2. Gathered(UNION {Group[j].include : j \in Window!Chosen(cursor)})
    BY <2>1 DEF Gathered
  <2> QED
    BY <1>0, <1>7, <2>2, DrawKeeps DEF Window!Space
<1>8. ASSUME NEW h \in Height, Window!Enter(h) PROVE RoomInv'
  BY <1>0, <1>1, <1>8, DrawKeeps DEF Window!Enter
<1>9. ASSUME NEW h \in Height, NEW step \in {-8, -1, 1, 8}, Window!Move(step, h) PROVE RoomInv'
  <2>1. Window!Hi(1, Window!Lo(Len(Group), cursor + step)) \in 1..Len(Group)
    BY <1>0 DEF Window!Hi, Window!Lo
  <2>2. Window!Hi(0, offset + step) \in Int
    BY <1>0 DEF Window!Hi
  <2> QED
    BY <1>0, <1>9, <2>1, <2>2, DrawKeeps DEF Window!Move
<1>10. ASSUME NEW h \in Height, NEW list \in {Window!Start({4}), Window!Start({4, 8}), Window!Whole},
              Window!Intent(list, h)
       PROVE  RoomInv'
  <2>1. Gathered(list)
    BY StartGathered DEF Gathered
  <2>2. Window!FirstSelected(list) \in 1..Len(Group)
    BY FirstIsRow
  <2> QED
    BY <1>0, <1>10, <2>1, <2>2, DrawKeeps DEF Window!Intent
<1> QED
  BY <1>2, <1>3, <1>4, <1>5, <1>6, <1>7, <1>8, <1>9, <1>10 DEF Window!Next, Window!Leap

\* However the keys and the resizes interleave, the row under the cursor is
\* drawn, and once the user has chosen the weights that are kept are those of
\* the rows that are marked (CollectionState.key, choose_page).
THEOREM RoomIsTrue == ASSUME Window!RoomAssumption PROVE Window!Spec => []Window!ShownIsChosen
<1>1. Window!Init => RoomInv
  <2> SUFFICES ASSUME Window!Init PROVE RoomInv
    OBVIOUS
  <2>1. cursor \in 1..Len(Group) /\ height \in Height /\ include \in Opening
    BY FirstIsRow DEF Window!Init
  <2>2. height \in Nat /\ cursor \in Nat \ {0}
    BY <2>1 DEF Window!RoomAssumption
  <2>3. /\ Window!Scroll(0, cursor, height) \in Int
        /\ cursor - 1 \in Window!Scroll(0, cursor, height)
                          .. Window!Scroll(0, cursor, height) + Window!Rows(height) - 1
    BY <2>2, ScrollShows
  <2>4. offset = IF Window!Fits(height) THEN Window!Scroll(0, cursor, height) ELSE 0
    BY DEF Window!Init
  <2>5. Window!CursorShown
    BY <2>3, <2>4 DEF Window!CursorShown
  <2> QED
    BY <2>1, <2>3, <2>4, <2>5 DEF RoomInv
<1>2. RoomInv => Window!ShownIsChosen
  <2> SUFFICES ASSUME RoomInv PROVE Window!ShownIsChosen
    OBVIOUS
  <2>1. ASSUME include \notin Opening
        PROVE  Window!Kept(include) \cap Window!Weights = UNION {Group[i].files : i \in Window!Marked}
    BY <2>1, GatheredIsMarked DEF RoomInv, Window!Marked
  <2> QED
    BY <2>1 DEF RoomInv, Window!ShownIsChosen, Window!MarkedIsKept
<1> QED
  BY <1>1, <1>2, RoomStep, PTL DEF Window!Spec

-----------------------------------------------------------------------------
(* The catalog and the room beside them.                                     *)

\* The catalog behaves as it does alone, or nothing of it moves.
OnCatalog == part = "catalog"
LEMMA CatalogAlone ==
  PartsSpec => \/ Wants!Spec /\ []OnCatalog
               \/ []~OnCatalog /\ [][FALSE]_Wants!vars
<1>1. PartsInit => Wants!Init
  BY DEF PartsInit
<1>2. [PartsNext]_partsVars =>
        \/ OnCatalog /\ OnCatalog' /\ [Wants!Next]_Wants!vars
        \/ ~OnCatalog /\ ~OnCatalog' /\ [FALSE]_Wants!vars
  BY DEF PartsNext, partsVars, OnCatalog, Wants!vars, vars, mains, jobs, signals, linkVars, panelVars,
         recordVars, envVars, boardVars, catalogVars, roomVars, classVars, lockVars
<1> QED
  BY <1>1, <1>2, PTL DEF PartsSpec, Wants!Spec

\* Of the parts together: no edits leave two entries of one key in a catalog
\* (catalog.upsert_entry, adopt_entries).
THEOREM PartsKeepKeysUnique == PartsSpec => []KeysUnique
<1>1. Wants!Spec => []Wants!KeysUnique
  <2>1. Wants!CatalogAssumption
    BY PartsAssumption
  <2> QED
    BY <2>1, CatalogsHold, PTL
<1>2. Wants!KeysUnique \/ ~OnCatalog => KeysUnique
  BY DEF KeysUnique, OnCatalog
<1> QED
  BY <1>1, <1>2, CatalogAlone, PTL

\* Of the parts together: what archive --next registers is what the overlay then
\* finds for its row (catalog.overlay).
THEOREM PartsServeTheRow == PartsSpec => []NextServesItsRow
<1>1. Wants!Spec => []Wants!NextServesItsRow
  <2>1. Wants!CatalogAssumption
    BY PartsAssumption
  <2> QED
    BY <2>1, CatalogsHold, PTL
<1>2. Wants!NextServesItsRow \/ ~OnCatalog => NextServesItsRow
  BY DEF NextServesItsRow, OnCatalog
<1> QED
  BY <1>1, <1>2, CatalogAlone, PTL
\* The room behaves as it does alone, or nothing of it moves.
InRoom == part = "room"
LEMMA RoomAlone ==
  PartsSpec => \/ Window!Spec /\ []InRoom
               \/ []~InRoom /\ [][FALSE]_Window!vars
<1>1. PartsInit => Window!Init
  BY DEF PartsInit
<1>2. [PartsNext]_partsVars =>
        \/ InRoom /\ InRoom' /\ [Window!Next]_Window!vars
        \/ ~InRoom /\ ~InRoom' /\ [FALSE]_Window!vars
  BY DEF PartsNext, partsVars, InRoom, Window!vars, vars, mains, jobs, signals, linkVars, panelVars,
         recordVars, envVars, boardVars, catalogVars, roomVars, classVars, lockVars
<1> QED
  BY <1>1, <1>2, PTL DEF PartsSpec, Window!Spec

\* Of the parts together: the room never lets a user act on a row that is not
\* drawn, nor keeps other weights than those it marks (CollectionState.key).
THEOREM RoomShowsWhatItKeeps == PartsSpec => []ShownIsChosen
<1>1. Window!Spec => []Window!ShownIsChosen
  <2>1. Window!RoomAssumption
    BY PartsAssumption
  <2> QED
    BY <2>1, RoomIsTrue, PTL
<1>2. Window!ShownIsChosen \/ ~InRoom => ShownIsChosen
  BY DEF ShownIsChosen, InRoom
<1> QED
  BY <1>1, <1>2, RoomAlone, PTL
=============================================================================
