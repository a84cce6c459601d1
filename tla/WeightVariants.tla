---------------------------- MODULE WeightVariants ----------------------------
(***************************************************************************)
(* What a publication offers: its GGUF files grouped into variants and     *)
(* companions, each with the globs that name it (weight_variants.py,       *)
(* collection.py), and what a list of globs keeps of it (subset.py).       *)
(*                                                                         *)
(* A path is a stem and, of a shard, its number and the declared count.    *)
(***************************************************************************)
EXTENDS Integers, Sequences, SequencesExt, FiniteSets, FiniteSetsExt

CONSTANTS File,    \* [stem, of, shard, kind, bits, size]: of = 0 names a single
                   \* file, size = 0 an unknown one; stems are numbered in order
          Begins   \* <<s, t>>: stem t is stem s, a hyphen and more

Weights == {f \in File : f.kind \in {"variant", "projector"}}

-----------------------------------------------------------------------------
(* A glob is a literal path, the compact pattern of a sharded file, the      *)
(* whole publication, or one of an earlier request, here by precision.       *)
PathGlob(f)    == <<"path", f.stem, f.of, f.shard>>
ShardGlob(key) == <<"shards", key[1], key[2], 0>>
WholeGlob      == <<"all", 0, 0, 0>>
BitsGlob(bits) == <<"bits", bits, 0, 0>>

\* The star of a shard pattern also matches what stands before the number.
Matches(glob, f) ==
  CASE glob[1] = "all"    -> TRUE
    [] glob[1] = "path"   -> glob = PathGlob(f)
    [] glob[1] = "bits"   -> f.bits = glob[2]
    [] glob[1] = "shards" -> /\ f.of = glob[3]
                             /\ f.stem = glob[2] \/ <<glob[2], f.stem>> \in Begins

\* select_subset: small support files accompany every selection.
Kept(include) == {f \in File : \/ f.kind = "sidecar"
                               \/ \E glob \in include : Matches(glob, f)}

-----------------------------------------------------------------------------
(* gguf_groups: one group for each stem and declared count.                  *)
Key(f)     == <<f.stem, f.of>>
Items(key) == {f \in Weights : Key(f) = key}

\* Every shard exactly once; a single file is complete.
Complete(key) == key[2] = 0 \/ (/\ Cardinality(Items(key)) = key[2]
                                /\ {f.shard : f \in Items(key)} = 1..key[2])

VariantSize(key) == IF \E f \in Items(key) : f.size = 0 THEN 0
                    ELSE MapThenSumSet(LAMBDA f : f.size, Items(key))

\* The compact pattern, if it matches these files of the publication and no other.
\* Mutated: a sharded file is always named by its pattern.
IncludeCompact(key) == IF key[2] = 0 THEN {PathGlob(f) : f \in Items(key)} ELSE {ShardGlob(key)}
Include(key) ==
  IF key[2] # 0 /\ {f \in File : Matches(ShardGlob(key), f)} = Items(key)
  THEN {ShardGlob(key)} ELSE {PathGlob(f) : f \in Items(key)}

GroupOf(key, kind) ==
  [name |-> key, kind |-> kind, files |-> Items(key), complete |-> Complete(key),
   size |-> VariantSize(key), include |-> Include(key),
   bits |-> (CHOOSE f \in Items(key) : TRUE).bits]

Before(k, l) == k[1] < l[1] \/ (k[1] = l[1] /\ k[2] < l[2])
Groups(kind) ==
  LET keys == SetToSortSeq({Key(f) : f \in {g \in Weights : g.kind = kind}}, Before)
  IN  [i \in DOMAIN keys |-> GroupOf(keys[i], kind)]

Variants   == Groups("variant")
Companions == Groups("projector")
=============================================================================
