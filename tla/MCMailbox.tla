----------------------------- MODULE MCMailbox -----------------------------
(* Instances of Mailbox for TLC.                                           *)
EXTENDS Mailbox, TLC

CONSTANTS a, b, c

MCPriority == a :> 0 @@ b :> 1 @@ c :> 1

(* The threads of equal priority are interchangeable, and so are the mails. *)
Symmetry == Permutations({b, c}) \cup Permutations(Mail)
=============================================================================
