-------------------------------- MODULE MCSwi --------------------------------
(* Three Swis on two levels: x and y are equals, z is above them.          *)
EXTENDS Swi, TLC

CONSTANTS x, y, z

MCInitPri     == [s \in Swis |-> IF s = z THEN 1 ELSE 0]
MCInitTrigger == [s \in Swis |-> IF s = z THEN 1 ELSE 0]
MCUses        == [s \in Swis |-> IF s = z THEN {"inc", "dec", "or", "andn"} ELSE {"post"}]
MCLevels      == [s \in Swis |-> IF s = y THEN {1} ELSE {}]
MCMaxHeld     == [t \in Swis \cup {Task, Hwi} |-> IF t = Task THEN 2 ELSE 1]
MCMayHold     == [t \in Swis \cup {Task, Hwi} |->
                    CASE t = Task -> {"hwi", "swi", "all"} [] t = x -> {"pri", "all"} [] OTHER -> {}]
=============================================================================
