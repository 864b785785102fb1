------------------------------- MODULE Timer -------------------------------
(***************************************************************************)
(* The hard timers of timer.c: one list ordered by timeout_tick, which is  *)
(* compared modulo RT_TICK_MAX + 1 by half-range differences, served by    *)
(* rt_timer_check in the tick interrupt.                                   *)
(*                                                                         *)
(* rt_timer_start, rt_timer_stop and rt_timer_control are not one section: *)
(* the tick, and so any callback, may come between their parts, and may    *)
(* start, stop or change the timer the call is about.  rt_timer_check runs *)
(* with interrupts off; each turn of its loop is one step, and no thread   *)
(* moves between them.  The discipline: at most one thread is in a call    *)
(* for a timer, and a callback deletes no timer.  A timer that a callback  *)
(* starts while a thread is starting it would be linked twice: the model   *)
(* follows the thread no further while the timer is linked (StartArm,      *)
(* StartInsert).                                                           *)
(***************************************************************************)
EXTENDS Integers, Sequences, FiniteSets, RtList

CONSTANTS
    Timer,          \* the timers
    RT_TICK_MAX,    \* the largest rt_tick_t
    InitTicks,      \* the times the application gives each timer
    Modes,          \* whether it makes it one-shot, periodic or both in turn
    MaxCalls,       \* how many threads are in calls at the same time
    MaxLate         \* a thread that has computed a timeout links the timer at
                    \* most this many ticks after that timeout

Modulus == RT_TICK_MAX + 1
Half    == RT_TICK_MAX \div 2

(* rt_timer_start asserts init_tick < RT_TICK_MAX / 2 only; the order of   *)
(* the list needs room for the delay of a preempted caller as well.  A     *)
(* periodic timer of 0 ticks keeps rt_timer_check busy for ever, as does a *)
(* one-shot one whose callback starts it.  One-shot timers of 0 ticks that *)
(* no callback starts are harmless and excluded with them (a thread's      *)
(* timer, after rt_thread_delay(0)).                                       *)
ASSUME TimerAssumption ==
    /\ IsFiniteSet(Timer)
    /\ RT_TICK_MAX \in Nat /\ MaxLate \in Nat /\ MaxCalls \in Nat
    /\ Modes \in [Timer -> (SUBSET BOOLEAN) \ {{}}]
    /\ InitTicks \in [Timer -> (SUBSET Nat) \ {{}}]
    /\ \A t \in Timer : \A i \in InitTicks[t] : i > 0 /\ i + MaxLate < Half

VARIABLES
    rt_tick,        \* the tick
    rt_timer_list,  \* the linked timers
    activated,      \* RT_TIMER_FLAG_ACTIVATED of each timer
    periodic,       \* RT_TIMER_FLAG_PERIODIC
    init_tick,      \* rt_timer.init_tick
    timeout_tick,   \* rt_timer.timeout_tick, of a timer that is armed or linked;
                    \* nothing reads it otherwise, and it is 0 here
    exists,         \* is the timer object initialized?
    pc,             \* where the thread that works on the timer is
    checking,       \* is the interrupt in the loop of rt_timer_check?
    left,           \* history: the ticks until a timeout that was computed
    orphans         \* history: the timers the tick interrupt linked at a moment
                    \* that costs them ACTIVATED, as long as they stay linked

fields == <<rt_timer_list, activated, periodic, init_tick, timeout_tick>>
history == <<left, orphans>>
vars == <<rt_tick, fields, exists, pc, checking, history>>

(* In rt_timer_start: "removed" after the first section, "armed" with the  *)
(* timeout computed.  In rt_timer_stop: "stopping" after the test of the   *)
(* flag, "unlinked" after the section.  In rt_timer_control: "set_on" and  *)
(* "set_off", with the flags read, ACTIVATED as the name says.             *)
Pcs == {"idle", "removed", "armed", "stopping", "unlinked", "set_on", "set_off"}

Init ==
    /\ rt_tick = 0
    /\ rt_timer_list = <<>>
    /\ activated = [t \in Timer |-> FALSE]
    /\ periodic \in {p \in [Timer -> BOOLEAN] : \A t \in Timer : p[t] \in Modes[t]}
    /\ init_tick \in {f \in [Timer -> UNION {InitTicks[t] : t \in Timer}] :
                        \A t \in Timer : f[t] \in InitTicks[t]}
    /\ timeout_tick = [t \in Timer |-> 0]
    /\ exists = [t \in Timer |-> TRUE]
    /\ pc = [t \in Timer |-> "idle"]
    /\ checking = FALSE
    /\ left = [t \in Timer |-> 0]
    /\ orphans = {}

(* A thread may enter a call for t.                                        *)
MayCall(t) ==
    /\ pc[t] = "idle" /\ exists[t]
    /\ Cardinality({u \in Timer : pc[u] # "idle"}) < MaxCalls

(* The difference of two ticks, as rt_tick_t computes it.                  *)
Minus(x, y) == (x - y) % Modulus

(* Mutants of the next: ticks are compared as numbers; a timer goes before *)
(* its equals.                                                             *)
PassesPlain(x, new) == x <= new
PassesNoEquals(x, new) == Minus(x, new) >= Half

(* A timer with timeout x stays before a new one with timeout new.         *)
Passes(x, new) == Minus(x, new) = 0 \/ Minus(x, new) >= Half

(* The list after the second section of rt_timer_start: t, whose timeout   *)
(* is ticks[t], goes before the first timer it does not pass.              *)
Insert(list, ticks, t) ==
    LET k == CHOOSE n \in 1 .. Len(list) + 1 :
               /\ \A i \in 1 .. n - 1 : Passes(ticks[list[i]], ticks[t])
               /\ n <= Len(list) => ~Passes(ticks[list[n]], ticks[t])
    IN  InsertBefore(list, k, t)

(* Mutant: the sum is not wrapped.                                         *)
TimeoutWide(t) == rt_tick + init_tick[t]

Timeout(t) == (rt_tick + init_tick[t]) % Modulus

(* _rt_timer_remove.                                                       *)
_rt_timer_remove(t) ==
    /\ rt_timer_list' = ListRemove(rt_timer_list, t)
    /\ timeout_tick' = [timeout_tick EXCEPT ![t] = 0]
    /\ left' = [left EXCEPT ![t] = 0]
    /\ orphans' = orphans \ {t}

-----------------------------------------------------------------------------
(* Calls from threads.  rt_timer_start in three parts; the second writes   *)
(* the timeout and the third links the timer whether or not a callback has *)
(* linked it meanwhile, which is where the model stops.                    *)

StartRemove(t) ==
    /\ MayCall(t)
    /\ _rt_timer_remove(t)
    /\ activated' = [activated EXCEPT ![t] = FALSE]
    /\ pc' = [pc EXCEPT ![t] = "removed"]
    /\ UNCHANGED <<rt_tick, periodic, init_tick, exists, checking>>

StartArm(t) ==
    /\ pc[t] = "removed" /\ ~InList(rt_timer_list, t)
    /\ timeout_tick' = [timeout_tick EXCEPT ![t] = Timeout(t)]
    /\ left' = [left EXCEPT ![t] = init_tick[t]]
    /\ pc' = [pc EXCEPT ![t] = "armed"]
    /\ UNCHANGED <<rt_tick, rt_timer_list, activated, periodic, init_tick, exists,
                   checking, orphans>>

StartInsert(t) ==
    /\ pc[t] = "armed" /\ ~InList(rt_timer_list, t)
    /\ rt_timer_list' = Insert(rt_timer_list, timeout_tick, t)
    /\ activated' = [activated EXCEPT ![t] = TRUE]
    /\ pc' = [pc EXCEPT ![t] = "idle"]
    /\ UNCHANGED <<rt_tick, periodic, init_tick, timeout_tick, exists, checking, history>>

(* rt_timer_stop; without the flag it returns -RT_ERROR at once.           *)
StopTest(t) ==
    /\ MayCall(t)
    /\ activated[t]
    /\ pc' = [pc EXCEPT ![t] = "stopping"]
    /\ UNCHANGED <<rt_tick, fields, exists, checking, history>>

StopRemove(t) ==
    /\ pc[t] = "stopping"
    /\ _rt_timer_remove(t)
    /\ pc' = [pc EXCEPT ![t] = "unlinked"]
    /\ UNCHANGED <<rt_tick, activated, periodic, init_tick, exists, checking>>

StopClear(t) ==
    /\ pc[t] = "unlinked"
    /\ activated' = [activated EXCEPT ![t] = FALSE]
    /\ pc' = [pc EXCEPT ![t] = "idle"]
    /\ UNCHANGED <<rt_tick, rt_timer_list, periodic, init_tick, timeout_tick, exists,
                   checking, history>>

(* rt_timer_control(RT_TIMER_CTRL_SET_TIME), which does not touch a timer  *)
(* that is running.                                                        *)
ControlTime(t) ==
    /\ MayCall(t)
    /\ \E i \in InitTicks[t] : init_tick' = [init_tick EXCEPT ![t] = i]
    /\ UNCHANGED <<rt_tick, rt_timer_list, activated, periodic, timeout_tick, exists, pc,
                   checking, history>>

(* Its SET_ONESHOT and SET_PERIODIC read the flags and write them back     *)
(* with interrupts enabled: ACTIVATED is written as it was read.           *)
ControlRead(t) ==
    /\ MayCall(t)
    /\ pc' = [pc EXCEPT ![t] = IF activated[t] THEN "set_on" ELSE "set_off"]
    /\ UNCHANGED <<rt_tick, fields, exists, checking, history>>

ControlWrite(t) ==
    /\ pc[t] \in {"set_on", "set_off"}
    /\ activated' = [activated EXCEPT ![t] = (pc[t] = "set_on")]
    /\ \E p \in Modes[t] : periodic' = [periodic EXCEPT ![t] = p]
    /\ orphans' = IF pc[t] = "set_on" THEN orphans \ {t} ELSE orphans
    /\ pc' = [pc EXCEPT ![t] = "idle"]
    /\ UNCHANGED <<rt_tick, rt_timer_list, init_tick, timeout_tick, exists, checking,
                   left>>

(* rt_timer_detach and rt_timer_delete; the fields of a timer that does    *)
(* not exist say nothing.                                                  *)
rt_timer_delete(t) ==
    /\ MayCall(t)
    /\ _rt_timer_remove(t)
    /\ exists' = [exists EXCEPT ![t] = FALSE]
    /\ activated' = [activated EXCEPT ![t] = FALSE]
    /\ periodic' = [periodic EXCEPT ![t] = CHOOSE p \in Modes[t] : TRUE]
    /\ init_tick' = [init_tick EXCEPT ![t] = CHOOSE i \in InitTicks[t] : TRUE]
    /\ UNCHANGED <<rt_tick, pc, checking>>

(* rt_timer_init and rt_timer_create.                                      *)
rt_timer_init(t) ==
    /\ ~exists[t]
    /\ activated' = [activated EXCEPT ![t] = FALSE]
    /\ \E p \in Modes[t] : periodic' = [periodic EXCEPT ![t] = p]
    /\ \E i \in InitTicks[t] : init_tick' = [init_tick EXCEPT ![t] = i]
    /\ timeout_tick' = [timeout_tick EXCEPT ![t] = 0]
    /\ exists' = [exists EXCEPT ![t] = TRUE]
    /\ UNCHANGED <<rt_tick, rt_timer_list, pc, checking, history>>

-----------------------------------------------------------------------------
(* The tick interrupt.                                                     *)

Counting(t) == pc[t] = "armed" \/ InList(rt_timer_list, t)

(* rt_tick_increase up to the loop of rt_timer_check.  (What it does for   *)
(* the time slice of a thread is in Scheduler.)                            *)
rt_tick_increase ==
    /\ \A t \in Timer : pc[t] = "armed" => left[t] > -MaxLate
    /\ rt_tick' = (rt_tick + 1) % Modulus
    /\ checking' = TRUE
    /\ left' = [t \in Timer |-> IF Counting(t) THEN left[t] - 1 ELSE left[t]]
    /\ UNCHANGED <<fields, exists, pc, orphans>>

(* The state callbacks work on, and the calls they make: with interrupts   *)
(* off each is one step.                                                   *)
Now == [list |-> rt_timer_list, act |-> activated, per |-> periodic,
        init |-> init_tick, tick |-> timeout_tick, left |-> left, orphans |-> orphans]

(* _rt_timer_remove.  A thread that is about to link t still uses the      *)
(* timeout.                                                                *)
Removed(s, t) ==
    [s EXCEPT !.list = ListRemove(@, t), !.orphans = @ \ {t},
              !.tick[t] = IF pc[t] = "armed" THEN @ ELSE 0,
              !.left[t] = IF pc[t] = "armed" THEN @ ELSE 0]

(* A thread is about to clear ACTIVATED, by what it has seen or done.      *)
ClearComes(t) == pc[t] \in {"unlinked", "set_off"}

(* The timer is linked anew, n ticks from now.                             *)
StartIn(s, t, n) ==
    LET ticks == [s.tick EXCEPT ![t] = (rt_tick + n) % Modulus] IN
    [s EXCEPT !.tick = ticks, !.list = Insert(ListRemove(@, t), ticks, t),
              !.act[t] = TRUE, !.left[t] = n,
              !.orphans = IF ClearComes(t) THEN @ \cup {t} ELSE @ \ {t}]

(* Mutant: the init_tick is not added.                                     *)
StartNow(s, t) == StartIn(s, t, 0)

rt_timer_start(s, t) == StartIn(s, t, s.init[t])

(* Mutant: the timer is not unlinked.                                      *)
StopKeepsLink(s, t) == IF s.act[t] THEN [s EXCEPT !.act[t] = FALSE] ELSE s

rt_timer_stop(s, t) ==
    IF s.act[t] THEN [Removed(s, t) EXCEPT !.act[t] = FALSE] ELSE s

(* What the callback of t may leave behind: it does nothing, or it starts, *)
(* stops or changes one timer.                                             *)
Callback(s, t) ==
    {s} \cup UNION {
        {rt_timer_start(s, u), rt_timer_stop(s, u)}
          \cup {[s EXCEPT !.init[u] = i] : i \in InitTicks[u]}
          \cup {[s EXCEPT !.per[u] = p] : p \in Modes[u]} :
        u \in {v \in Timer : exists[v]}}

Due(t) == Minus(rt_tick, timeout_tick[t]) < Half

(* The end of the loop's body: a periodic timer that is still activated is *)
(* started again; any other loses its flag, even if it is linked again.    *)
AfterCallback(s, t) ==
    IF s.per[t] /\ s.act[t]
    THEN rt_timer_start(s, t)
    ELSE [s EXCEPT !.act[t] = FALSE,
                   !.orphans = IF InList(s.list, t) THEN @ \cup {t} ELSE @]

(* One turn of the loop of rt_timer_check.                                 *)
Fire(t) ==
    /\ checking /\ rt_timer_list # <<>>
    /\ t = Head(rt_timer_list)
    /\ Due(t)
    /\ \E c \in Callback(Removed(Now, t), t) :
         LET s == AfterCallback(c, t) IN
         /\ rt_timer_list' = s.list
         /\ activated' = s.act
         /\ periodic' = s.per
         /\ init_tick' = s.init
         /\ timeout_tick' = s.tick
         /\ left' = s.left
         /\ orphans' = s.orphans
    /\ UNCHANGED <<rt_tick, exists, pc, checking>>

CheckEnd ==
    /\ checking
    /\ rt_timer_list # <<>> => ~Due(Head(rt_timer_list))
    /\ checking' = FALSE
    /\ UNCHANGED <<rt_tick, fields, exists, pc, history>>

ThreadStep(t) ==
    \/ StartRemove(t) \/ StartArm(t) \/ StartInsert(t)
    \/ StopTest(t) \/ StopRemove(t) \/ StopClear(t)
    \/ ControlTime(t) \/ ControlRead(t) \/ ControlWrite(t)
    \/ rt_timer_delete(t) \/ rt_timer_init(t)

Next ==
    \/ CheckEnd
    \/ \E t \in Timer : Fire(t)
    \/ ~checking /\ (rt_tick_increase \/ \E t \in Timer : ThreadStep(t))

Spec == Init /\ [][Next]_vars

-----------------------------------------------------------------------------
(* Every field has a value of its type.                                    *)
TypeOK ==
    /\ rt_tick \in 0 .. RT_TICK_MAX
    /\ rt_timer_list \in Seq(Timer)
    /\ activated \in [Timer -> BOOLEAN] /\ periodic \in [Timer -> BOOLEAN]
    /\ \A t \in Timer : init_tick[t] \in InitTicks[t]
    /\ timeout_tick \in [Timer -> 0 .. RT_TICK_MAX]
    /\ exists \in [Timer -> BOOLEAN]
    /\ pc \in [Timer -> Pcs]
    /\ checking \in BOOLEAN
    /\ left \in [Timer -> Int]
    /\ orphans \subseteq Timer

(* The list is ordered by the time left until each timeout, which is what  *)
(* timeout_tick says across the wrap of the tick; no timer is in it twice. *)
Sorted ==
    /\ NoRepeat(rt_timer_list)
    /\ \A i, j \in 1 .. Len(rt_timer_list) :
         i < j => left[rt_timer_list[i]] <= left[rt_timer_list[j]]
    /\ \A t \in Timer : Counting(t) => timeout_tick[t] = (rt_tick + left[t]) % Modulus

(* A running timer can be stopped: rt_timer_stop goes by the flag          *)
(* ACTIVATED, so a linked timer has it, whatever callbacks did between the *)
(* parts of the calls of threads, but for the orphans: a timer that its    *)
(* own callback started, if rt_timer_check does not start it again (it     *)
(* clears the flag), and one that the interrupt started between the        *)
(* section and the flag of a rt_timer_stop or between the read and the     *)
(* write of a rt_timer_control that found it off.  An orphan is linked,    *)
(* and without the flag as soon as that call is over; it stops being one   *)
(* when it fires, and when it is started anew.                             *)
LinkedCanBeStopped ==
    /\ \A t \in Timer : InList(rt_timer_list, t) =>
         exists[t] /\ (activated[t] \/ t \in orphans)
    /\ \A t \in orphans :
         InList(rt_timer_list, t) /\ (activated[t] => ClearComes(t))

(* A timer is called at the first check after its timeout, not before;     *)
(* rt_timer_check leaves none that is due; and of two timers the one that  *)
(* is due first is called first, the one inserted first if they are due    *)
(* together.                                                               *)
OnTime ==
    [][/\ checking /\ checking' => left[Head(rt_timer_list)] <= 0
       /\ checking /\ ~checking' =>
            \A t \in Timer : InList(rt_timer_list, t) => left[t] > 0
       /\ \A t, u \in Timer :
            /\ pc[t] = "armed" /\ pc'[t] = "idle"
            /\ InList(rt_timer_list, u) /\ left[u] <= left[t]
            => Before(rt_timer_list', u, t)]_vars

(* rt_timer_check comes to its end, with every callback a program may      *)
(* have: each turn of its loop leaves fewer timers that are due, because   *)
(* no timer that is started within a check is due in it.                   *)
DueTimers == {t \in Timer : InList(rt_timer_list, t) /\ left[t] <= 0}
CheckEnds ==
    [][checking /\ checking' => DueTimers' \subseteq DueTimers \ {Head(rt_timer_list)}]_vars
=============================================================================
