------------------------------- MODULE MCClock -------------------------------
(* Two Clock objects and a tick count that wraps at 9.                     *)
EXTENDS Clock

CONSTANTS x, y
=============================================================================
