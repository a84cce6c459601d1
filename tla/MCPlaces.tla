------------------------------ MODULE MCPlaces ------------------------------
(* A desk vault and a NAS vault on one filesystem, and a USB disk.          *)
EXTENDS Places, TLC

Unraced == ~raced
\* While an export of the whole payload exists nothing can be lost: the last verb
\* has nobody at work beside it then.
LastWaits == tar = Payload /\ runs = MaxRuns => \E c \in Cmd : cmd[c] = Idle
Sym == Permutations(Cmd)
MCDisk == [v \in Vault |-> IF v = "usb" THEN "usb" ELSE "internal"]
=============================================================================
