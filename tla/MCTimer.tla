------------------------------ MODULE MCTimer ------------------------------
(* An instance of Timer for TLC.                                           *)
EXTENDS Timer, TLC

CONSTANTS a, b, c

MCInitTicks == a :> {2} @@ b :> {1, 2} @@ c :> {1}
MCModes == a :> {TRUE, FALSE} @@ b :> {FALSE} @@ c :> {TRUE}
=============================================================================
