----------------------------- MODULE MCPathLocks -----------------------------
(* Instances of PathLocks for TLC: the constants are in the .cfg files. *)
EXTENDS PathLocks

=============================================================================
