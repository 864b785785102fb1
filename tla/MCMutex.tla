------------------------------ MODULE MCMutex ------------------------------
(* An instance of Mutex for TLC.                                           *)
EXTENDS Mutex, TLC

CONSTANTS high, middle, low

MCPriority == high :> 0 @@ middle :> 1 @@ low :> 2

(* The mutexes are interchangeable.                                        *)
Symmetry == Permutations(Mutex)
=============================================================================
