---------------------------- MODULE MCPagedIndex ----------------------------
(* The instance of PagedIndex that TLC checks.                             *)
EXTENDS PagedIndex

CONSTANTS k1, k2, k3, k4, k5

Legacy == <<k1, k2>>
=============================================================================
