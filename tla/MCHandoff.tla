------------------------------ MODULE MCHandoff ------------------------------
(* A desk and a NAS that assemble from each other. *)
EXTENDS Handoff

Two   == {"desk", "nas"}

\* "gather" takes the other vaults' partials to the NAS, "giveback" the NAS's
\* to the desk, which is named as a source too; "keep" is the same without --handoff.
MCSources == [j \in Job |-> CASE j = "gather"   -> Vault \ {"nas"}
                              [] j = "giveback" -> {"desk", "nas"}
                              [] j = "keep"     -> {"nas"}]
MCDest    == [j \in Job |-> CASE j = "gather"   -> "nas"
                              [] j = "giveback" -> "desk"
                              [] j = "keep"     -> "desk"]
=============================================================================
