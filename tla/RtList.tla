------------------------------- MODULE RtList -------------------------------
(* The doubly linked lists of rtservice.h.  A list is the sequence of its   *)
(* nodes; a thread is linked by its one node tlist.                         *)
EXTENDS Naturals, Sequences

InList(s, e) == \E i \in 1 .. Len(s) : s[i] = e
NoRepeat(s)  == \A i, j \in 1 .. Len(s) : s[i] = s[j] => i = j

(* rt_list_remove: unlinks e; a node that is in no list stays in none.     *)
ListRemove(s, e) ==
    IF InList(s, e)
    THEN LET k == CHOOSE i \in 1 .. Len(s) : s[i] = e
         IN  [i \in 1 .. Len(s) - 1 |-> IF i < k THEN s[i] ELSE s[i + 1]]
    ELSE s

(* rt_list_insert_after the head, and rt_list_insert_before it.            *)
InsertFirst(s, e) == <<e>> \o s
InsertLast(s, e)  == Append(s, e)

(* rt_list_insert_before the k-th node, or the head if there is none.      *)
InsertBefore(s, k, e) == SubSeq(s, 1, k - 1) \o <<e>> \o SubSeq(s, k, Len(s))

(* For the properties: u is linked before t.                               *)
Before(s, u, t) == \E i, j \in 1 .. Len(s) : i < j /\ s[i] = u /\ s[j] = t
=============================================================================
