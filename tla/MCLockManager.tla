--------------------------- MODULE MCLockManager ---------------------------
(* The lock manager on a small instance. *)
EXTENDS LockManager, TLC

TxnSymmetry == Permutations(Txn)
=============================================================================
