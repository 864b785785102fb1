---------------------------- MODULE MCScheduler ----------------------------
(* Instances of Scheduler for TLC.                                         *)
EXTENDS Scheduler, TLC

CONSTANTS idle, a, b

MCThread == {idle, a, b}

(* a and b at different priorities, or both at the middle one.             *)
MCPriority == idle :> 2 @@ a :> 1 @@ b :> 0
MCEqualPriority == idle :> 1 @@ a :> 0 @@ b :> 0
=============================================================================
