---------------------------- MODULE MCEventQueue ----------------------------
(* An instance of EventQueue for TLC.                                      *)
EXTENDS EventQueue, TLC

CONSTANTS a, b

MCPriority == a :> 0 @@ b :> 0

Symmetry == Permutations(Thread) \cup Permutations(Message) \cup Permutations(Bit)
=============================================================================
