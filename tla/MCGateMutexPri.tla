---------------------------- MODULE MCGateMutexPri ----------------------------
(* Three tasks: Low, Med and High.                                         *)
EXTENDS GateMutexPri

CONSTANTS low, med, high, g1, g2

MCInitPri == low :> 0 @@ med :> 1 @@ high :> 2

OneGate == [uses |-> [t \in Tasks |-> {g1}], depth |-> 1, nests |-> TRUE]
Nested  == [uses |-> low :> {g1, g2} @@ med :> {g2} @@ high :> {g1}, depth |-> 2,
            nests |-> TRUE]
Crossed == [uses |-> low :> {g1, g2} @@ med :> {} @@ high :> {g1, g2}, depth |-> 2,
            nests |-> FALSE]

MCApps == {OneGate, Nested, Crossed}
MCNestedApps == {Nested}
=============================================================================
