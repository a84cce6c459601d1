------------------------------ MODULE MCSafety ------------------------------
(***************************************************************************)
(* The parts that share no state, each on its own small instance, in one   *)
(* run.                                                                    *)
(***************************************************************************)
EXTENDS Parts

\* The pipeline: four files of one or two chunks, two streams, no sibling.
BigFiles == {"a", "b", "c", "d"}
Smallest == <<"a", "b", "c", "d">>
Chunks   == [f \in BigFiles |-> IF f \in {"c", "d"} THEN 2 ELSE 1]
Lone     == [f \in BigFiles |-> 0]

\* The lock: two process ids on a desk machine, one on a machine that mounts the
\* same vault.
Mounters  == {"desk", "nas"}
MachineOf == [p \in LockProc |-> IF p = 3 THEN "nas" ELSE "desk"]

\* The environments: two bundles of one vault.
OneVault == [b \in EnvBundle |-> "desk"]

\* The board: two machines, two processes on the first of them.
Machines == [p \in BoardProc |-> IF p = 3 THEN "heron" ELSE "comet"]

\* The catalog: a dataset, the shorthand that resolves to it, and a home page; the
\* catalog that is adopted has the dataset under both names.
Addresses == {"rows", "datasets/rows", "https"}
Pages     == {"https"}
Sorted    == [s \in Addresses |-> CASE s = "datasets/rows" -> 1 [] s = "https" -> 2 [] s = "rows" -> 3]
Pins      == [s \in Addresses |-> IF s = "rows" THEN "datasets/rows" ELSE s]
Wishes    == {<<"none", "default">>, <<"tag", "default">>, <<"r1", "q4">>}
Wanted(s, desire) == [source |-> s, revision |-> "none", include |-> "default", desire |-> desire]
Friends   == <<Wanted("rows", 0), Wanted("datasets/rows", 5)>>

\* The collection room: two 4-bit variants and one of unknown size, 8-bit ones
\* in shards, of which one name begins with the other and one lacks a shard, a
\* projector, a sidecar and another file.  It may open with an earlier pin.
Weight(stem, of, shard, bits, size) ==
  [stem |-> stem, of |-> of, shard |-> shard, kind |-> "variant", bits |-> bits, size |-> size]
Publication ==
  { Weight(1, 0, 0, 4, 3), Weight(2, 0, 0, 4, 2), Weight(3, 0, 0, 4, 0),
    Weight(4, 2, 1, 8, 3), Weight(4, 2, 2, 8, 3), Weight(5, 2, 1, 8, 2), Weight(5, 2, 2, 8, 2),
    Weight(6, 2, 2, 8, 1),
    [Weight(7, 0, 0, 0, 1) EXCEPT !.kind = "projector"],
    [Weight(8, 0, 0, 0, 1) EXCEPT !.kind = "sidecar"],
    [Weight(9, 0, 0, 0, 1) EXCEPT !.kind = "other"] }
Hyphens  == {<<4, 5>>}
Offer    == INSTANCE WeightVariants WITH File <- Publication, Begins <- Hyphens
Offered  == Offer!Variants \o Offer!Companions
Windows  == {19, 20, 21}
Openings == {{}, {<<"all", 0, 0, 0>>}, {<<"bits", 4, 0, 0>>}, {<<"path", 2, 0, 0>>, <<"path", 4, 2, 1>>}}

\* The classification: two shards beside an index and a file of its own in the
\* root, the same names in a directory with another index, and in a third
\* directory one whose name holds a bracket; a legacy and a GGUF weight, a
\* sidecar and another file.
Piece(place, dir, stem, shard) ==
  [place |-> place, dir |-> dir, kind |-> "safetensors", stem |-> stem,
   of |-> IF shard = 0 THEN 0 ELSE 2, shard |-> shard, odd |-> FALSE]
Repository ==
  { Piece(1, ".", 1, 1), Piece(2, ".", 1, 2), Piece(3, ".", 2, 0),
    Piece(4, "copy", 1, 1), Piece(5, "copy", 1, 2),
    [Piece(6, "old", 3, 0) EXCEPT !.odd = TRUE],
    [Piece(7, "old", 2, 0) EXCEPT !.kind = "legacy"],
    [Piece(8, ".", 4, 0) EXCEPT !.kind = "gguf"],
    [Piece(9, ".", 5, 0) EXCEPT !.kind = "sidecar"],
    [Piece(10, ".", 6, 0) EXCEPT !.kind = "other"] }
Listed == << {f \in Repository : f.place \in {1, 2}}, {f \in Repository : f.place \in {4, 5}} >>
=============================================================================
