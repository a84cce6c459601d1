------------------------------ MODULE Catalog ------------------------------
(***************************************************************************)
(* A catalog of wanted sources in a vault (catalog.py), the commands that  *)
(* edit it (catalog add, drop, adopt, estimate CATALOG), its overlay       *)
(* against the bundles of the vault, and `archive --next`, which archives  *)
(* the row the overlay puts first.  An archive run is the choice of its    *)
(* pin and its outcome; ArchiveSession has the rest.                       *)
(***************************************************************************)
EXTENDS Naturals, Sequences, FiniteSets, SequencesExt

CONSTANTS Source,    \* addresses: of repositories, shorthands and home pages
          Rank,      \* their order as strings
          Resolves,  \* what a provider resolves each one to when it pins it
          Home,      \* those of closed works, which have no provider
          Wish,      \* the pairs of revision and scope that commands ask for
          Friend,    \* the entries of another catalog, which is adopted
          MaxEdits,  \* commands that edit the catalog
          MaxRuns    \* archive runs

VARIABLES entries,   \* catalog.json, in its order
          bundles,   \* the vault
          head,      \* the commit upstream calls main
          price,     \* an estimate (or add --estimate) under way, with its copy
          edits, runs,
          served     \* the row the last archive --next registered, and its bundle

vars == <<entries, bundles, head, price, edits, runs, served>>

Commits == {"r1", "r2"}
\* What an entry may ask for: nothing, a branch, a tag, or a commit.
Revision == {"none", "main", "tag"} \cup Commits
CommitOf(rev) == CASE rev = "main" -> head [] rev = "tag" -> "r1" [] OTHER -> rev

\* "default" stands for no include at all; "kept" is what the policy selects.
Entry(s, rev, scope, desire) == [source |-> s, revision |-> rev, include |-> scope, desire |-> desire]
Key(e) == <<e.source, e.revision, e.include>>

Scope == {"default", "kept"} \cup {w[2] : w \in Wish}
Entries == [source : Source, revision : Revision, include : Scope, desire : Nat]
CatalogAssumption ==
  /\ Resolves \in [Source -> Source] /\ Friend \in Seq(Entries)
  /\ \A w \in Wish : w[1] \in Revision

NoPrice == [on |-> FALSE, copy |-> <<>>, add |-> <<>>]
NoRow   == <<>>

Init ==
  /\ entries = <<>> /\ bundles = {} /\ head = "r1"
  /\ price = NoPrice /\ edits = 0 /\ runs = 0 /\ served = NoRow

-----------------------------------------------------------------------------
(* Edits.  upsert_entry updates the entry with the same key, or appends one. *)
Upsert(cat, e) ==
  IF \E i \in DOMAIN cat : Key(cat[i]) = Key(e)
  THEN [i \in DOMAIN cat |-> IF Key(cat[i]) = Key(e) /\ e.desire # 0
                             THEN [cat[i] EXCEPT !.desire = e.desire] ELSE cat[i]]
  ELSE Append(cat, e)

Sensible(s, w) == s \in Home => w = <<"none", "default">>

Still == UNCHANGED <<bundles, head, runs, served>>

Add(s, w, desire) ==
  /\ edits < MaxEdits /\ edits' = edits + 1 /\ Sensible(s, w)
  /\ entries' = Upsert(entries, Entry(s, w[1], w[2], desire))
  /\ UNCHANGED price /\ Still

\* drop_entry: the source alone must be unambiguous; with a revision or a scope
\* exactly one entry must be left.
DropCandidates(s, w, revGiven, scopeGiven) ==
  {i \in DOMAIN entries : /\ entries[i].source = s
                          /\ revGiven => entries[i].revision = w[1]
                          /\ scopeGiven => entries[i].include = w[2]}

Drop(s, w, revGiven, scopeGiven) ==
  /\ edits < MaxEdits /\ edits' = edits + 1
  /\ LET found == DropCandidates(s, w, revGiven, scopeGiven) IN
     /\ Cardinality(found) = 1
     /\ \E i \in found : entries' = RemoveAt(entries, i)
  /\ UNCHANGED price /\ Still

\* adopt_entries appends what the other catalog has and this one lacks.
Lacks(cat, e) == \A i \in DOMAIN cat : Key(cat[i]) # Key(e)

Adopted(cat, other) ==
  FoldLeft(LAMBDA c, e : IF Lacks(c, e) THEN Append(c, e) ELSE c, cat, other)

Adopt ==
  /\ edits < MaxEdits /\ edits' = edits + 1
  /\ entries' = Adopted(entries, Friend)
  /\ UNCHANGED price /\ Still

(* estimate CATALOG reads the catalog, prices its entries over the network   *)
(* one by one, rewriting a source to what it resolves to unless that entry   *)
(* is there already, and writes the whole catalog.  add --estimate is read,  *)
(* price, upsert and write.                                                  *)
Price ==
  /\ ~price.on /\ edits < MaxEdits /\ edits' = edits + 1
  /\ \/ price' = [on |-> TRUE, copy |-> entries, add |-> <<>>]
     \/ \E s \in Source \ Home, w \in Wish :
          price' = [on |-> TRUE, copy |-> entries, add |-> <<Entry(s, w[1], w[2], 0)>>]
  /\ UNCHANGED entries /\ Still

Resolved(e) == [e EXCEPT !.source = Resolves[@]]

\* Mutated: the address is rewritten whatever else is in the catalog.
CollidesNever(cat, i) == FALSE
Collides(cat, i) ==
  \E j \in DOMAIN cat \ {i} : Key(cat[j]) = Key(Resolved(cat[i]))

AdoptResolved(cat, i) == IF Collides(cat, i) THEN cat ELSE [cat EXCEPT ![i] = Resolved(@)]

\* The entries of unreachable sources stay as they are.
Priced(cat, reached) ==
  FoldLeft(LAMBDA c, i : IF i \in reached THEN AdoptResolved(c, i) ELSE c,
           cat, [i \in DOMAIN cat |-> i])

PriceEnds ==
  /\ price.on /\ price' = NoPrice
  /\ IF price.add = <<>>
     THEN \E reached \in SUBSET {i \in DOMAIN price.copy : price.copy[i].source \notin Home} :
            entries' = Priced(price.copy, reached)
     ELSE entries' = Upsert(price.copy, Resolved(price.add[1]))
  /\ UNCHANGED edits /\ Still

-----------------------------------------------------------------------------
(* The overlay.  row_matches_entry: the address, the revision if the entry   *)
(* has one (a commit, or the name the pin was made with), and the scope.     *)
RevisionMatches(b, rev) ==
  CASE rev = "none"     -> TRUE
    [] rev \in Commits  -> b.revision = rev
    [] OTHER            -> b.ref = rev

\* Mutated: the selection of the policy is a scope like any other.
ScopeMatchesListed(b, scope) == b.include = scope
\* An entry without a scope is also satisfied by the default acquisition.
ScopeMatches(b, scope) == b.include = scope \/ (scope = "default" /\ b.include = "kept")

Matches(e) == {b \in bundles : /\ b.address = e.source
                               /\ RevisionMatches(b, e.revision)
                               /\ ScopeMatches(b, e.include)}

Status(e) ==
  IF e.source \in Home THEN "closed"
  ELSE IF Matches(e) = {} THEN "want"
  ELSE IF \E b \in Matches(e) : b.done THEN "have" ELSE "partial"

(* next_entry: partials first, then by desire (none last), then by name, and *)
(* by the order of the catalog.                                              *)
Unfinished == {i \in DOMAIN entries : Status(entries[i]) \in {"want", "partial"}}

SortKey(i) == LET e == entries[i] IN
  <<IF Status(e) = "partial" THEN 0 ELSE 1, IF e.desire = 0 THEN 1 ELSE 0,
    9 - e.desire, Rank[e.source], i>>

Before(k, l) == \E n \in DOMAIN k : k[n] < l[n] /\ \A m \in 1..n - 1 : k[m] = l[m]

IsNext(i) == i \in Unfinished /\ \A j \in Unfinished \ {i} : Before(SortKey(i), SortKey(j))

\* realize_from_overlay: a partial's own revision and scope, or the entry's.
Realize(e) ==
  IF Status(e) = "partial" THEN {<<b.revision, b.include>> : b \in Matches(e)}
  ELSE {<<e.revision, e.include>>}

-----------------------------------------------------------------------------
(* archive(source, revision, include): which pin it goes on with, if any.    *)
(* With resume_scope (archive SOURCE, neither --next nor --board) a run that *)
(* states no scope takes over the one of the pin it resumes.                 *)
Requested(rev) == IF rev = "none" THEN "main" ELSE rev
Bundle(a, rev, ref, scope) ==
  [address |-> a, revision |-> rev, ref |-> ref, include |-> scope, done |-> FALSE]

FindResume(s, rev) ==
  {b \in bundles : ~b.done /\ b.address = s /\ Requested(rev) \in {b.ref, b.revision}}

\* _check_pin_scope.
ScopeFits(b, scope) ==
  b.include = scope \/ (scope = "default" /\ b.include = "kept")

InPlace(s, rev) == {b \in bundles : b.address = Resolves[s] /\ b.revision = CommitOf(Requested(rev))}

\* The bundle the run works on: one it resumes, or the one that lies where the
\* pin would go, or a new one, whose default scope the policy may narrow.
Pinned(s, rev, scope, resumeScope) ==
  LET resume == FindResume(s, rev)
      there  == InPlace(s, rev) IN
  IF resume # {}
  THEN {b \in resume : /\ Cardinality(resume) = 1
                       /\ ScopeFits(b, scope) \/ (resumeScope /\ scope = "default")}
  ELSE IF there # {} THEN {b \in there : ~b.done /\ ScopeFits(b, scope)}
  ELSE {Bundle(Resolves[s], CommitOf(Requested(rev)), Requested(rev), kept) :
           kept \in IF scope = "default" THEN {"default", "kept"} ELSE {scope}}

\* A pinned bundle is paused or registered; a run that finds none is refused.
\* There is no row when the user names the source.
Outcome(s, rev, scope, row) ==
  \E b \in Pinned(s, rev, scope, row = NoRow), done \in BOOLEAN :
     /\ bundles' = (bundles \ {b}) \cup {[b EXCEPT !.done = done]}
     /\ served' = IF done /\ row # NoRow THEN Append(row, [b EXCEPT !.done = TRUE]) ELSE NoRow

ArchiveNext ==
  /\ runs < MaxRuns /\ runs' = runs + 1
  /\ \E i \in DOMAIN entries : IsNext(i) /\ \E r \in Realize(entries[i]) :
        LET e == entries[i] IN
        \/ Outcome(e.source, r[1], r[2], <<e>>)
        \/ /\ Pinned(e.source, r[1], r[2], FALSE) = {}
           /\ served' = NoRow /\ UNCHANGED bundles
  /\ UNCHANGED <<entries, head, price, edits>>

\* archive SOURCE, by the user.
Archive(s, w) ==
  /\ runs < MaxRuns /\ runs' = runs + 1
  /\ Outcome(s, w[1], w[2], NoRow)
  /\ UNCHANGED <<entries, head, price, edits>>

\* Upstream commits to main.
Push ==
  /\ head = "r1" /\ head' = "r2"
  /\ UNCHANGED <<entries, bundles, price, edits, runs, served>>

\* rm.
Rm(b) ==
  /\ runs < MaxRuns /\ runs' = runs + 1
  /\ bundles' = bundles \ {b} /\ served' = NoRow
  /\ UNCHANGED <<entries, head, price, edits>>

Next ==
  \/ \E s \in Source, w \in Wish :
       \/ \E desire \in {0, 5} : Add(s, w, desire)
       \/ \E r, i \in BOOLEAN : Drop(s, w, r, i)
       \/ s \notin Home /\ Archive(s, w)
  \/ Adopt \/ Price \/ PriceEnds \/ ArchiveNext \/ Push
  \/ \E b \in bundles : Rm(b)

Spec == Init /\ [][Next]_vars

-----------------------------------------------------------------------------
(* A catalog never has two entries with one key, however it was edited: an   *)
(* entry that cannot be told from another one can neither be updated nor     *)
(* dropped (catalog.py:169-173, 763-772, 836-858).                           *)
KeysUnique ==
  \A i, j \in DOMAIN entries : i # j => Key(entries[i]) # Key(entries[j])

(* "Status flips when this vault grows bytes" (docs/CATALOGS.md:182): what   *)
(* archive --next registers for a row is what the overlay then finds for it, *)
(* so that the next run goes on to another row - unless the row's address is *)
(* a shorthand, or its tag or branch named a commit that was already pinned  *)
(* under another name, and what was registered is that pin.                  *)
NextServesItsRow ==
  served # NoRow =>
    LET e == served[1]
        b == served[2] IN
    \/ Status(e) = "have"
    \/ Resolves[e.source] # e.source
    \/ e.revision \in {"main", "tag"} /\ b.ref # e.revision
=============================================================================
