----------------------------- MODULE MCMempool -----------------------------
(* Instances of Mempool for TLC.                                           *)
EXTENDS Mempool

MCPriority == [t \in Thread |-> 1]
=============================================================================
