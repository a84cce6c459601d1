--------------------------- MODULE MCTransferLock ---------------------------
(* Three process ids: two on a desk machine, one on a machine that mounts   *)
(* the same vault.                                                          *)
EXTENDS TransferLock

Machines == {"desk", "nas"}
MachineOf == [p \in Proc |-> IF p = 3 THEN "nas" ELSE "desk"]
=============================================================================
