---------------------------- MODULE BoundedFifo ----------------------------
(* What a mailbox promises: a bounded first-in first-out queue of mails,   *)
(* each delivered to one receiver, that a reset empties.                   *)
EXTENDS Naturals, Sequences

CONSTANTS Thread, Mail, NoThread, NoMail, Size

VARIABLES
    queue,      \* the mails, oldest first
    delivered   \* the last receiver, and the mail it received

Init == queue = <<>> /\ delivered = <<NoThread, NoMail>>

Send(m) ==
    /\ Len(queue) < Size
    /\ queue' = Append(queue, m)
    /\ UNCHANGED delivered

Receive(t) ==
    /\ queue # <<>>
    /\ delivered' = <<t, Head(queue)>>
    /\ queue' = Tail(queue)

Reset == queue' = <<>> /\ UNCHANGED delivered

Next ==
    \/ \E m \in Mail : Send(m)
    \/ \E t \in Thread : Receive(t)
    \/ Reset

Spec == Init /\ [][Next]_<<queue, delivered>>
=============================================================================
