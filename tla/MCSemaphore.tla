----------------------------- MODULE MCSemaphore -----------------------------
(* Three tasks on two levels and a binary semaphore in FIFO order; a         *)
(* counting one that serves by priority is in MCServices.                    *)
EXTENDS Semaphore

CONSTANTS a, b, c, r

MCInitPri   == [t \in Tasks |-> IF t = a THEN 0 ELSE 1]
MCInitCount == [q \in Sems |-> 1]
MCMode      == [q \in Sems |-> {"binary"}]
=============================================================================
