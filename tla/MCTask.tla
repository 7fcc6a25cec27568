------------------------------- MODULE MCTask -------------------------------
(* Three tasks on two levels and the inactive one.  Tasks make others       *)
(* inactive and interrupts bring them back.                                 *)
EXTENDS Task

CONSTANTS a, b, c

MCInitPri == a :> 1 @@ b :> 1 @@ c :> 2
MCCalls   == a :> {"setPri", "yield", "lock"} @@ b :> {"create", "delete", "reap", "swiRestore"}
               @@ c :> {"sleep", "exit"}
OnlyOff   == {Inactive}
=============================================================================
