---------------------------- MODULE MCPthreadMutex ----------------------------
(* Three threads that nest two mutexes with priority inheritance.           *)
EXTENDS PthreadMutex, TLC

CONSTANTS t1, t2, t3, mi, mj

MCProtocol == [m \in Mutexes |-> "INHERIT"]
MCType     == [m \in Mutexes |-> "NORMAL"]
MCCeiling  == [m \in Mutexes |-> 1]
MCInitPri  == t1 :> 1 @@ t2 :> 2 @@ t3 :> 3
MCApps     == {[uses |-> [t \in Threads |-> Mutexes], depth |-> 2, ceilings |-> {}, targets |-> {}]}
=============================================================================
