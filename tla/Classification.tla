---------------------------- MODULE Classification ----------------------------
(***************************************************************************)
(* The default selection of a fresh model pin (classify.py): the indexes   *)
(* of the repository are read, its weights are grouped into sets, a set    *)
(* that is file for file another one is skipped, and what remains is put   *)
(* into globs that are tried on the inventory before they may bind.        *)
(*                                                                         *)
(* The verdicts on the other sets (rules R2 to R14) are words for people:  *)
(* every such set is fetched.  So are the headers and the base repository  *)
(* that are read for them.                                                 *)
(***************************************************************************)
EXTENDS Naturals, Sequences, FiniteSets, FiniteSetsExt

CONSTANTS File,    \* [place, dir, kind, stem, of, shard, odd]: place follows the
                   \* depth, the directory and the name; odd is a name with a "["
          Index,   \* the index files in order: the weights each lists beside it
          Digest   \* published digests

\* Assumed by MCSafety.
ClassificationAssumption ==
  /\ IsFiniteSet(File) /\ \A f \in File : f.place \in Nat
  /\ DOMAIN Index = 1..Len(Index) /\ Len(Index) \in Nat
  /\ \A i \in DOMAIN Index : Index[i] \subseteq {f \in File : f.kind \in {"safetensors", "legacy"}}

Root    == "."
Unknown == 0       \* no digest was published

VARIABLES hash,    \* the digest of each weight that is ever compared
          found,   \* what reading the indexes gave so far
          pinned   \* the files of the pin; none before it is decided

vars == <<hash, found, pinned>>

Kinds   == {"safetensors", "legacy", "gguf"}
Weights == {f \in File : f.kind \in Kinds}
Support == File \ Weights          \* of kind "sidecar" or "other"
Compared == {f \in Weights : f.kind # "gguf"}

TypeOK ==
  /\ hash \in [Compared -> Digest \cup {Unknown}]
  /\ found \in UNION {[1..n -> {"read", "failed"}] : n \in 0..Len(Index)}
  /\ pinned \subseteq File

Init ==
  /\ hash \in [Compared -> Digest \cup {Unknown}]
  /\ found = <<>> /\ pinned = {}

-----------------------------------------------------------------------------
(* build_sets: the members of each index that could be read, as far as no    *)
(* earlier one has them, then what is left in each directory.                *)
ReadIndexes == {i \in DOMAIN found : found[i] = "read"}
Members(i)  == Index[i] \ UNION {Index[j] : j \in {k \in ReadIndexes : k < i}}
Claimed     == UNION {Index[i] : i \in ReadIndexes}
Unclaimed(f) ==
  {g \in Weights \ Claimed : g.dir = f.dir /\ g.kind = f.kind}
Variant(f) ==
  {g \in Weights : g.kind = "gguf" /\ <<g.dir, g.stem, g.of>> = <<f.dir, f.stem, f.of>>}

\* Sets of safetensors or legacy weights: only these are compared.
Sets ==
  ({Members(i) : i \in ReadIndexes}
    \cup {Unclaimed(f) : f \in Compared \ Claimed}) \ {{}}
Variants == {Variant(f) : f \in Weights \ Compared}

(* evaluate, rule R15: of the sets with the same digests, all of them known, *)
(* the one nearest to the root is kept.                                      *)
\* Mutated: an unpublished digest counts like any other.
HashedOrNot(set) == set # {}
Hashed(set) == \A f \in set : hash[f] # Unknown

Contents(set) == [d \in Digest \cup {Unknown} |-> Cardinality({f \in set : hash[f] = d})]
First(set) == Min({f.place : f \in set})
Twins(s, t) == Hashed(s) /\ Hashed(t) /\ Contents(s) = Contents(t)
Skipped == {s \in Sets : \E t \in Sets : Twins(s, t) /\ First(t) < First(s)}
Fetched == File \ UNION Skipped

-----------------------------------------------------------------------------
(* attach_selection: set_glob names a set by its only path or by the pattern *)
(* of its shards, unescaped; a literal path is escaped.  A pattern without a *)
(* directory matches a file name anywhere unless it is anchored.             *)
OneName(set) == Cardinality({<<f.kind, f.stem, f.of>> : f \in set}) = 1
Globbed(set) == Cardinality(set) = 1 \/ (OneName(set) /\ \A f \in set : f.of # 0)
Glob(set, anchored) ==
  [form |-> IF Cardinality(set) = 1 THEN "path" ELSE "shards",
   file |-> CHOOSE f \in set : f.place = First(set), anchored |-> anchored]
Literal(f) == [form |-> "literal", file |-> f, anchored |-> TRUE]

Matches(glob, f) ==
  IF glob.form = "literal" THEN f = glob.file
  ELSE /\ ~f.odd
       /\ <<f.kind, f.stem, f.of>> = <<glob.file.kind, glob.file.stem, glob.file.of>>
       /\ glob.form = "path" => f.shard = glob.file.shard
       /\ \/ f.dir = glob.file.dir
          \/ glob.file.dir = Root /\ ~glob.anchored

\* select_subset.
Selected(globs) == {f \in File : f.kind = "sidecar" \/ \E glob \in globs : Matches(glob, f)}
Verified(globs) == Selected(globs) = Fetched

KeptSets == (Sets \ Skipped) \cup Variants
Compact(anchored) ==
  IF \A set \in KeptSets : Globbed(set)
  THEN {Glob(set, anchored) : set \in KeptSets}
       \cup {Literal(f) : f \in {g \in Support : g.kind = "other"}}
  ELSE {}
Explicit == {Literal(f) : f \in Fetched}

\* The first list that holds; everything if there is none, or nothing to skip.
Selection ==
  LET lists == <<Compact(FALSE), Compact(TRUE), Explicit>>
      held  == {i \in DOMAIN lists : Verified(lists[i])}
  IN  IF Skipped = {} \/ held = {} THEN File ELSE Selected(lists[Min(held)])

-----------------------------------------------------------------------------
(* collect_facts: a request that fails, a file over the cap or one that is   *)
(* no weight map leaves an error instead of an index.                        *)
ReadIndex ==
  /\ pinned = {} /\ Len(found) < Len(Index)
  /\ \E answer \in {"read", "failed"} : found' = Append(found, answer)
  /\ UNCHANGED <<hash, pinned>>

Decide ==
  /\ pinned = {} /\ Len(found) = Len(Index)
  /\ pinned' = Selection
  /\ UNCHANGED <<hash, found>>

\* negatives_policy: any other failure, like --full, means the whole repository.
Full ==
  /\ pinned = {} /\ pinned' = File
  /\ UNCHANGED <<hash, found>>

Next == ReadIndex \/ Decide \/ Full

Spec == Init /\ [][Next]_vars

-----------------------------------------------------------------------------
(* Whatever could not be read and whatever names the files have, a pin       *)
(* leaves out weights only, each of a published digest that a weight it      *)
(* keeps has as well (classify.py:434-471, 534-616).                         *)
NothingUniqueSkipped ==
  pinned # {} => \A f \in File \ pinned :
    f \in Compared /\ hash[f] # Unknown /\ \E g \in pinned \cap Compared : hash[g] = hash[f]
=============================================================================
