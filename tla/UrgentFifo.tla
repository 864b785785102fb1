---------------------------- MODULE UrgentFifo -----------------------------
(* What a message queue promises: a bounded queue of messages, sent to its *)
(* end or, when urgent, to its front.  A receiver takes the first message  *)
(* and has it for itself, unchanged, until it has copied it.  A reset      *)
(* empties the queue, not the hands.                                       *)
EXTENDS Naturals, Sequences

CONSTANTS Context, Message, NoMessage, Size

VARIABLES
    queue,      \* the messages, first to receive first
    inhand      \* the message each receiver is copying

Init ==
    /\ queue = <<>>
    /\ inhand = [c \in Context |-> NoMessage]

Send(m) ==
    /\ Len(queue) < Size
    /\ queue' = Append(queue, m)
    /\ UNCHANGED inhand

Urgent(m) ==
    /\ Len(queue) < Size
    /\ queue' = <<m>> \o queue
    /\ UNCHANGED inhand

Take(c) ==
    /\ queue # <<>> /\ inhand[c] = NoMessage
    /\ inhand' = [inhand EXCEPT ![c] = Head(queue)]
    /\ queue' = Tail(queue)

Copied(c) ==
    /\ inhand[c] # NoMessage
    /\ inhand' = [inhand EXCEPT ![c] = NoMessage]
    /\ UNCHANGED queue

Reset == queue' = <<>> /\ UNCHANGED inhand

Next ==
    \/ \E m \in Message : Send(m) \/ Urgent(m)
    \/ \E c \in Context : Take(c) \/ Copied(c)
    \/ Reset

Spec == Init /\ [][Next]_<<queue, inhand>>
=============================================================================
