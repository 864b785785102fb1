---------------------------- MODULE EventQueue -----------------------------
(***************************************************************************)
(* A message queue and an event used by the same threads: they share what  *)
(* a thread has once, its state, its error and its timer.  A thread in a   *)
(* call of one object makes no call of the other.  Events are also sent    *)
(* by interrupt handlers.                                                  *)
(***************************************************************************)
EXTENDS MessageQueue

CONSTANT Bit    \* the event bits

VARIABLES
    ev_set, ev_list, ev_event_set, ev_asked, ev_option, ev_alive, ev_pc  \* of the event

Ev == INSTANCE Event WITH
        set <- ev_set, suspend_thread <- ev_list, event_set <- ev_event_set,
        asked <- ev_asked, option <- ev_option, alive <- ev_alive, pc <- ev_pc

evVars == <<ev_set, ev_list, ev_event_set, ev_asked, ev_option, ev_alive, ev_pc>>
allVars == <<vars, evVars>>

Init == IpcInit /\ MqInit /\ Ev!EvInit

(* Steps of the queue: of threads that are in no call of the event, of     *)
(* interrupt handlers, and of the timers.                                  *)
MqNext ==
    /\ \/ \E t \in Thread : ev_pc[t] = "run" /\ MqThreadStep(t)
       \/ \E i \in Isr : MqStep(i)
       \/ \E t \in Thread : Timeout(t)
       \/ MqEnvironment
    /\ UNCHANGED evVars

EvNext ==
    /\ \/ \E t \in Thread : pc[t] = "run" /\ Runs(t) /\ Ev!EvThreadStep(t)
       \/ \E t \in Thread : Ev!Timeout(t)
       \/ Ev!EvEnvironment
    /\ UNCHANGED mqVars

Next == MqNext \/ EvNext

Spec == Init /\ [][Next]_allVars

-----------------------------------------------------------------------------
(* Every field has a value of its type, and no list head was resumed for a *)
(* thread.                                                                 *)
TypeOK == IpcTypeOK /\ ~wild /\ MqTypeOK /\ Ev!EvTypeOK

(* See MessageQueue: a message has a receiver on its way to it while       *)
(* receivers wait.  The threads are resumed by nothing but what they wait  *)
(* for: a thread suspended in one object is linked in that object.         *)
NoLostWakeup ==
    /\ MqNoLostWakeup
    /\ \A t \in Thread :
         stat[t] = "suspend" => (InList(suspend_thread, t) <=> ~InList(ev_list, t))

(* See Event: no thread waits for event bits that are there.               *)
NoneWaitsInVain == Ev!NoneWaitsInVain

(* See Event: what rt_event_send gives to the threads it resumes.          *)
Delivered == Ev!Delivered
=============================================================================
