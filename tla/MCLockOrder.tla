----------------------------- MODULE MCLockOrder -----------------------------
(***************************************************************************)
(* Small instances of LockOrder.                                            *)
(***************************************************************************)
EXTENDS LockOrder

CONSTANTS t1, t2, t3

AllCalls == DOMAIN Steps
NoAutoModel == AllCalls \ {"GetFirstAvailableModel"}

=============================================================================
