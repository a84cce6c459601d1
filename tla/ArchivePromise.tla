--------------------------- MODULE ArchivePromise ---------------------------
(***************************************************************************)
(* What archiving promises whoever keeps the vault, with no sessions, no   *)
(* memory and no payload: a pinned set, one durable record per file, and a *)
(* seal (the manifest) that copies a complete set of verified records and  *)
(* is never rewritten while it stands.  ArchiveSession implements it.      *)
(***************************************************************************)
CONSTANTS File,    \* payload paths
          Bytes    \* a verified record: the bytes it vouches for

VARIABLES wanted,  \* the pinned set
          record,  \* what is known of each file
          sealed,  \* the bundle is registered
          seal     \* the records it was registered with

vars == <<wanted, record, sealed, seal>>

Unknown == [f \in File |-> "missing"]

Init == /\ wanted = {} /\ record = Unknown
        /\ sealed = FALSE /\ seal = Unknown

\* A new pin forgets every record; the seal, if any, is broken next or stays.
Repin(S) == /\ wanted' = S /\ record' = Unknown
            /\ UNCHANGED <<sealed, seal>>

\* One file's record changes.  A file of another vault's keeping is not lost.
Learn(f, r) == /\ ~sealed /\ f \in wanted
               /\ r = "missing" => record[f] # "handed_off"
               /\ r = "handed_off" => record[f] \in Bytes
               /\ record' = [record EXCEPT ![f] = r]
               /\ UNCHANGED <<wanted, sealed, seal>>

\* Registration: every wanted file is verified, and the seal is those records.
Seal == /\ ~sealed /\ \A f \in wanted : record[f] \in Bytes
        /\ sealed' = TRUE /\ seal' = record
        /\ UNCHANGED <<wanted, record>>

\* The seal is broken only under a fresh pin.
Unseal == /\ sealed /\ record = Unknown
          /\ sealed' = FALSE /\ seal' = Unknown
          /\ UNCHANGED <<wanted, record>>

Next == \/ \E S \in SUBSET File : Repin(S)
        \/ \E f \in File, r \in Bytes \cup {"missing", "handed_off"} : Learn(f, r)
        \/ Seal
        \/ Unseal

Spec == Init /\ [][Next]_vars
=============================================================================
