------------------------------- MODULE Event -------------------------------
(***************************************************************************)
(* rt_event of ipc.c: a set of event bits, and threads that wait for all   *)
(* or any of the bits they ask for.  rt_event_send walks the whole list of *)
(* waiters in one section; a waiter with RT_EVENT_FLAG_CLEAR takes its     *)
(* bits away from those behind it.                                         *)
(***************************************************************************)
EXTENDS Ipc

CONSTANT Bit    \* the event bits

VARIABLES
    set,            \* rt_event.set
    suspend_thread, \* the threads that wait
    event_set,      \* rt_thread.event_set of a thread in the wait of
                    \* rt_event_recv; nothing reads it otherwise
    asked, option,  \* the arguments of that call; option is event_info too
    alive,          \* does the object exist?
    pc              \* where each thread is in a call

local == <<event_set, asked, option>>
evVars == <<set, suspend_thread, local, alive, pc>>
vars == <<ipcVars, evVars>>

(* RT_EVENT_FLAG_AND or RT_EVENT_FLAG_OR, and RT_EVENT_FLAG_CLEAR or not.  *)
Options == {"AND", "OR"} \X BOOLEAN
IsAnd(o)   == o[1] = "AND"
IsClear(o) == o[2]
NoOption   == <<"OR", FALSE>>

Sets == (SUBSET Bit) \ {{}}

Usable == alive /\ \A t \in Thread : pc[t] \in {"run", "wait"}

EvInit ==
    /\ set = {}
    /\ suspend_thread = <<>>
    /\ event_set = [t \in Thread |-> {}]
    /\ asked = [t \in Thread |-> {}]
    /\ option = [t \in Thread |-> NoOption]
    /\ alive = TRUE
    /\ pc = [t \in Thread |-> "run"]

(* The bits s are what a call for the bits a with option o waits for.      *)
Satisfied(s, a, o) == IF IsAnd(o) THEN a \subseteq s ELSE a \cap s # {}

-----------------------------------------------------------------------------
(* rt_event_send.                                                          *)

(* Mutants of the next: the walk ends with the first thread it resumes; no *)
(* bits are cleared.                                                       *)
WalkFirst(w, t) ==
    IF w.woken = {} /\ Satisfied(w.set, event_set[t], option[t])
    THEN LET got == IF IsAnd(option[t]) THEN event_set[t] ELSE event_set[t] \cap w.set
         IN  [set   |-> IF IsClear(option[t]) THEN w.set \ got ELSE w.set,
              got   |-> [w.got EXCEPT ![t] = got],
              list  |-> ListRemove(w.list, t),
              woken |-> w.woken \cup {t}]
    ELSE w
WalkNoClear(w, t) ==
    IF Satisfied(w.set, event_set[t], option[t])
    THEN LET got == IF IsAnd(option[t]) THEN event_set[t] ELSE event_set[t] \cap w.set
         IN  [w EXCEPT !.got[t] = got, !.list = ListRemove(@, t), !.woken = @ \cup {t}]
    ELSE w

(* One turn of the walk: w is the event set, the event_set of the threads, *)
(* the list and the threads resumed so far.                                *)
Walk(w, t) ==
    IF Satisfied(w.set, event_set[t], option[t])
    THEN LET got == IF IsAnd(option[t]) THEN event_set[t] ELSE event_set[t] \cap w.set
         IN  [set   |-> IF IsClear(option[t]) THEN w.set \ got ELSE w.set,
              got   |-> [w.got EXCEPT ![t] = got],
              list  |-> ListRemove(w.list, t),
              woken |-> w.woken \cup {t}]
    ELSE w

(* The walk from the event set s.                                          *)
Walked(s) ==
    LET after[i \in 0 .. Len(suspend_thread)] ==
          IF i = 0 THEN [set |-> s, got |-> event_set, list |-> suspend_thread, woken |-> {}]
                   ELSE Walk(after[i - 1], suspend_thread[i])
    IN  after[Len(suspend_thread)]

rt_event_send(s) ==
    LET w == Walked(set \cup s) IN
    /\ Usable
    /\ set' = w.set
    /\ event_set' = w.got
    /\ suspend_thread' = w.list
    /\ stat' = [t \in Thread |-> IF t \in w.woken THEN "ready" ELSE stat[t]]
    /\ timer' = [t \in Thread |-> timer[t] /\ t \notin w.woken]
    /\ UNCHANGED <<error, wild, asked, option, alive, pc>>

-----------------------------------------------------------------------------
(* rt_event_recv: the bits are there, there is no time to wait, or the     *)
(* thread is suspended.                                                    *)

rt_event_recv(t, s, o, time) ==
    /\ pc[t] = "run" /\ Usable
    /\ \/ /\ Satisfied(set, s, o)
          /\ set' = IF IsClear(o) THEN set \ s ELSE set
          /\ error' = [error EXCEPT ![t] = "EOK"]
          /\ UNCHANGED <<stat, timer, wild, suspend_thread, local, pc>>
       \/ /\ ~Satisfied(set, s, o) /\ time = "zero"
          /\ error' = [error EXCEPT ![t] = "ETIMEOUT"]
          /\ UNCHANGED <<stat, timer, wild, set, suspend_thread, local, pc>>
       \/ /\ ~Satisfied(set, s, o) /\ time # "zero"
          /\ event_set' = [event_set EXCEPT ![t] = s]
          /\ asked' = [asked EXCEPT ![t] = s]
          /\ option' = [option EXCEPT ![t] = o]
          /\ suspend_thread' = rt_ipc_list_suspend(suspend_thread, t)
          /\ SuspendSelf(t, time)
          /\ pc' = [pc EXCEPT ![t] = "wait"]
          /\ UNCHANGED set
    /\ UNCHANGED alive

(* The thread runs again, and returns thread->error or the bits in         *)
(* thread->event_set.                                                      *)
Resumed(t) ==
    /\ pc[t] = "wait" /\ stat[t] = "ready"
    /\ pc' = [pc EXCEPT ![t] = "run"]
    /\ event_set' = [event_set EXCEPT ![t] = {}]
    /\ asked' = [asked EXCEPT ![t] = {}]
    /\ option' = [option EXCEPT ![t] = NoOption]
    /\ UNCHANGED <<ipcVars, set, suspend_thread, alive>>

Timeout(t) ==
    /\ pc[t] = "wait"
    /\ rt_thread_timeout(t)
    /\ suspend_thread' = ListRemove(suspend_thread, t)
    /\ UNCHANGED <<set, local, alive, pc>>

(* rt_event_control(RT_IPC_CMD_RESET).                                     *)
rt_event_control ==
    /\ Usable
    /\ ResumeAll(Linked(suspend_thread))
    /\ suspend_thread' = <<>>
    /\ set' = {}
    /\ UNCHANGED <<local, alive, pc>>

(* rt_event_detach and rt_event_delete.  The discipline: no waiter can     *)
(* time out while the list is emptied.                                     *)
rt_event_delete(t) ==
    /\ pc[t] = "run" /\ Usable
    /\ \A u \in Thread : pc[u] = "wait" => ~timer[u]
    /\ pc' = [pc EXCEPT ![t] = "test"]
    /\ UNCHANGED <<ipcVars, set, suspend_thread, local, alive>>

(* The loop of rt_ipc_list_resume_all; its end is the end of the event.    *)
ResumeAllTest(t) ==
    /\ pc[t] = "test"
    /\ pc' = [pc EXCEPT ![t] = IF suspend_thread # <<>> THEN "next" ELSE "run"]
    /\ alive' = (suspend_thread # <<>>)
    /\ UNCHANGED <<ipcVars, set, suspend_thread, local>>

ResumeAllNext(t) ==
    /\ pc[t] = "next"
    /\ ResumeNext(suspend_thread)
    /\ suspend_thread' = ListRemove(suspend_thread, Head(suspend_thread))
    /\ pc' = [pc EXCEPT ![t] = "test"]
    /\ UNCHANGED <<set, local, alive>>

(* rt_event_init or rt_event_create of a new event in place of the old.    *)
rt_event_init ==
    /\ ~alive
    /\ alive' = TRUE
    /\ set' = {} /\ suspend_thread' = <<>>
    /\ UNCHANGED <<ipcVars, local, pc>>

EvThreadStep(t) ==
    \/ \E s \in Sets, o \in Options, time \in Times : rt_event_recv(t, s, o, time)
    \/ Resumed(t)
    \/ rt_event_delete(t) \/ ResumeAllTest(t) \/ ResumeAllNext(t)
EvEnvironment ==
    \/ \E s \in Sets : rt_event_send(s)
    \/ rt_event_control \/ rt_event_init

-----------------------------------------------------------------------------
EvTypeOK ==
    /\ set \subseteq Bit
    /\ suspend_thread \in Seq(Thread)
    /\ event_set \in [Thread -> SUBSET Bit] /\ asked \in [Thread -> SUBSET Bit]
    /\ option \in [Thread -> Options]
    /\ alive \in BOOLEAN
    /\ pc \in [Thread -> {"run", "wait", "test", "next"}]

(* No thread waits for what is there: the event set satisfies no thread in *)
(* the list, though others cleared bits before or after it in the walk;    *)
(* and exactly the suspended threads of rt_event_recv are linked.          *)
NoneWaitsInVain ==
    /\ \A t \in Thread : InList(suspend_thread, t) =>
         event_set[t] = asked[t] /\ ~Satisfied(set, asked[t], option[t])
    /\ NoRepeat(suspend_thread)
    /\ \A t \in Thread : InList(suspend_thread, t) <=> stat[t] = "suspend" /\ pc[t] = "wait"

(* A step that resumes waiters with RT_EOK gives each what it asked for:   *)
(* all bits, or some; they are bits of the event, and those a thread with  *)
(* RT_EVENT_FLAG_CLEAR got are gone from the event and were not given to   *)
(* any thread behind it.                                                   *)
Woken == {t \in Thread : /\ pc[t] = "wait" /\ stat[t] = "suspend"
                         /\ stat'[t] = "ready" /\ error'[t] = "EOK"}
Takers == {t \in Woken : IsClear(option[t])}
Delivered ==
    [][/\ \A t \in Woken :
            /\ Satisfied(event_set'[t], asked[t], option[t]) /\ event_set'[t] \subseteq asked[t]
            /\ event_set'[t] \subseteq set' \cup UNION {event_set'[u] : u \in Takers}
       /\ \A t \in Takers :
            /\ event_set'[t] \cap set' = {}
            /\ \A u \in Woken :
                 Before(suspend_thread, t, u) => event_set'[t] \cap event_set'[u] = {}]_vars
=============================================================================
