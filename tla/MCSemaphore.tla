---------------------------- MODULE MCSemaphore ----------------------------
(* Instances of Semaphore for TLC.                                         *)
EXTENDS Semaphore

MCPriority == [t \in Thread |-> 1]
=============================================================================
