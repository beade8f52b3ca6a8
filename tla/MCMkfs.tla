------------------------------- MODULE MCMkfs -------------------------------
(***************************************************************************)
(* Instances of Mkfs for TLC.  32 bit variables are scaled down with the   *)
(* devices.  In Mkfs.cfg a unit of length stands for 1 KiB, so that block  *)
(* sizes, search and zeroing have the code's own sizes; the others take    *)
(* half of that, to have sizes between two blocks.                         *)
(***************************************************************************)
EXTENDS MkfsProofs

(* Whatever block size mkfs has accepted (mkfs.c 221-222), the volume can  *)
(* be mounted after a success.                                             *)
AcceptedMounts ==
    /\ out = "ok" /\ mode # "try" /\ TableSize > 0
    /\ pos = HeaderSize(bs) + TableSize
    /\ size >= ScanSize /\ ~ModuleMisleads
    => Mounts("new")
=============================================================================
