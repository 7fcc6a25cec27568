------------------------------- MODULE MCRwlock -------------------------------
(* Three threads on a read-write lock.                                     *)
EXTENDS Rwlock

CONSTANTS t1, t2, t3
=============================================================================
