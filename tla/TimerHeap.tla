----------------------------- MODULE TimerHeap ------------------------------
(***************************************************************************)
(* The timers of an event loop, event-loop.c: a binary heap of armed       *)
(* timers ordered by deadline, one timerfd for the earliest, and the list  *)
(* of due timers whose functions a dispatch calls.                         *)
(*                                                                         *)
(* The array `data` is a sequence of the active entries. Indexes into it   *)
(* count from 0 as in the code, so entry i is data[i + 1]. Time is a       *)
(* counter that may advance at any moment.                                 *)
(***************************************************************************)
EXTENDS Integers, Sequences, FiniteSets

CONSTANTS
    Timers,         \* timer event sources
    MinSpace,       \* the smallest allocation of the array, 8 in the code
    MaxTime         \* bound: time and deadlines

ASSUME TimerHeapAssumption ==
    /\ MinSpace \in Nat \ {0}
    /\ MaxTime \in Nat \ {0}

VARIABLES
    data,           \* wl_timer_heap.data, the active entries
    count,          \* wl_timer_heap.count
    space,          \* wl_timer_heap.space
    heap_idx,       \* wl_event_source_timer.heap_idx
    deadline,       \* wl_event_source_timer.deadline
    existing,       \* timers that were added and not removed
    removed,        \* timers on the loop's destroy list
    timerfd,        \* when the timerfd expires, 0: never
    now,            \* CLOCK_MONOTONIC, from 1
    due,            \* due timers with their deadlines, linked by next_due
    expired,        \* what was due when a dispatch read the clock: history
    dispatching     \* what the loop is doing

heapVars == <<data, heap_idx, deadline>>
spaceVars == <<count, space>>
lifeVars == <<existing, removed>>
dueVars == <<due, expired, dispatching>>
timerVars == <<heapVars, spaceVars, lifeVars, timerfd, now, dueVars>>

Heap == [data |-> data, heap_idx |-> heap_idx, deadline |-> deadline]
SetHeap(heap) ==
    /\ data' = heap.data
    /\ heap_idx' = heap.heap_idx
    /\ deadline' = heap.deadline

Due == [timer : Timers, deadline : 1 .. MaxTime]

TimersTypeOK ==
    /\ data \in Seq(Timers)
    /\ count \in Nat
    /\ space \in Nat
    /\ heap_idx \in [Timers -> Nat \cup {-1}]
    /\ deadline \in [Timers -> 0 .. MaxTime]
    /\ existing \subseteq Timers
    /\ removed \subseteq Timers \ existing
    /\ timerfd \in 0 .. MaxTime
    /\ now \in 1 .. MaxTime
    /\ due \in Seq(Due)
    /\ expired \subseteq Due
    /\ dispatching \in {"no", "collecting", "collected", "calling"}

TimersInit ==
    /\ data = <<>>
    /\ count = 0
    /\ space = 0
    /\ heap_idx = [t \in Timers |-> -1]
    /\ deadline = [t \in Timers |-> 0]
    /\ existing = {}
    /\ removed = {}
    /\ timerfd = 0
    /\ now = 1
    /\ due = <<>>
    /\ expired = {}
    /\ dispatching = "no"

-----------------------------------------------------------------------------
(* The loop of a sift goes through the array from place to place, where    *)
(* the place of entry i is i + 1. `step` gives for each place the next one *)
(* of the loop, 0 where it ends; the trail is the least set of places that *)
(* contains the first one and is closed under steps.                       *)
Follows(step, S) == \A i \in S : step[i] # 0 => step[i] \in S
Trail(step, from) ==
    {i \in DOMAIN step : \A S \in SUBSET DOMAIN step : from \in S /\ Follows(step, S) => i \in S}

(* heap_set() at every place of the trail: a timer moves to the place from *)
(* which the loop came, and the timer that is sifted to where it ends.     *)
HeapSet(heap, t, step) ==
    LET trail == Trail(step, heap.heap_idx[t] + 1)
        moved == [i \in DOMAIN heap.data |->
                    IF i \notin trail THEN heap.data[i]
                    ELSE IF step[i] = 0 THEN t ELSE heap.data[step[i]]]
    IN  [data |-> moved,
         heap_idx |-> [u \in DOMAIN heap.heap_idx |->
                        IF \E i \in trail : moved[i] = u
                        THEN (CHOOSE i \in trail : moved[i] = u) - 1 ELSE heap.heap_idx[u]],
         deadline |-> heap.deadline]

(* heap_sift_down(): the earlier of two children, the left one if neither  *)
(* is, moves up when it is earlier than the timer.                         *)
Child(heap, i) ==
    IF 2 * i < Len(heap.data) /\ heap.deadline[heap.data[2 * i + 1]] < heap.deadline[heap.data[2 * i]]
    THEN 2 * i + 1 ELSE 2 * i
Downwards(heap, t) ==
    [i \in DOMAIN heap.data |->
        IF 2 * i <= Len(heap.data) /\ heap.deadline[heap.data[Child(heap, i)]] < heap.deadline[t]
        THEN Child(heap, i) ELSE 0]
SiftDown(heap, t) == HeapSet(heap, t, Downwards(heap, t))

(* heap_sift_up(): parents with a later deadline move down.                *)
Upwards(heap, t) ==
    [i \in DOMAIN heap.data |->
        IF i > 1 /\ heap.deadline[t] < heap.deadline[heap.data[i \div 2]] THEN i \div 2 ELSE 0]
SiftUp(heap, t) == HeapSet(heap, t, Upwards(heap, t))

(* wl_timer_heap_disarm(): the last entry takes the place of the timer     *)
(* and is moved to its proper place.                                       *)
TakeOut(heap, t) ==
    LET old == heap.heap_idx[t]
        n == Len(heap.data)
        last == heap.data[n]
    IN  IF last = t
        THEN [data |-> SubSeq(heap.data, 1, n - 1),
              heap_idx |-> [heap.heap_idx EXCEPT ![t] = -1],
              deadline |-> [heap.deadline EXCEPT ![t] = 0]]
        ELSE [data |-> SubSeq([heap.data EXCEPT ![old + 1] = last], 1, n - 1),
              heap_idx |-> [heap.heap_idx EXCEPT ![t] = -1, ![last] = old],
              deadline |-> [heap.deadline EXCEPT ![t] = 0]]

(* Faulty variant of disarming: the replacement only moves down.           *)
DisarmOnlyDown(heap, t) ==
    LET last == heap.data[Len(heap.data)]
        shorter == TakeOut(heap, t)
    IN  IF last = t THEN shorter ELSE SiftDown(shorter, last)

Disarm(heap, t) ==
    LET last == heap.data[Len(heap.data)]
        shorter == TakeOut(heap, t)
    IN  IF last = t THEN shorter ELSE SiftUp(SiftDown(shorter, last), last)

(* wl_timer_heap_arm().                                                    *)
Arm(heap, t, time) ==
    SiftUp([data |-> Append(heap.data, t),
            heap_idx |-> [heap.heap_idx EXCEPT ![t] = Len(heap.data)],
            deadline |-> [heap.deadline EXCEPT ![t] = time]], t)

(* An armed timer gets another deadline.                                   *)
Rearm(heap, t, time) ==
    LET changed == [heap EXCEPT !.deadline[t] = time]
    IN  IF time < heap.deadline[t] THEN SiftUp(changed, t) ELSE SiftDown(changed, t)

-----------------------------------------------------------------------------
(* Code outside the loop runs between dispatches and in the functions of   *)
(* due timers.                                                             *)
UserCode == dispatching \in {"no", "calling"}

(* wl_event_loop_add_timer(), with wl_timer_heap_reserve().                *)
AddTimer(t) ==
    /\ UserCode
    /\ t \notin existing \cup removed
    /\ existing' = existing \cup {t}
    /\ count' = count + 1
    /\ space' = IF count + 1 <= space THEN space
                ELSE IF space >= MinSpace THEN 2 * space ELSE MinSpace
    /\ UNCHANGED <<heapVars, removed, timerfd, now, dueVars>>

(* Faulty variant of arming: the timerfd is set for the first timer only.  *)
TimerArmFirstOnly(t, delay) ==
    /\ UserCode
    /\ t \in existing
    /\ now + delay <= MaxTime
    /\ SetHeap(IF heap_idx[t] = -1 THEN Arm(Heap, t, now + delay) ELSE Rearm(Heap, t, now + delay))
    /\ timerfd' = IF Len(data') = 1 THEN now + delay ELSE timerfd
    /\ UNCHANGED <<spaceVars, lifeVars, now, dueVars>>

(* wl_event_source_timer_update() with a delay: the timerfd follows when   *)
(* the timer is the earliest.                                              *)
TimerArm(t, delay) ==
    /\ UserCode
    /\ t \in existing
    /\ now + delay <= MaxTime
    /\ SetHeap(IF heap_idx[t] = -1 THEN Arm(Heap, t, now + delay) ELSE Rearm(Heap, t, now + delay))
    /\ timerfd' = IF heap_idx'[t] = 0 THEN now + delay ELSE timerfd
    /\ UNCHANGED <<spaceVars, lifeVars, now, dueVars>>

(* wl_event_source_timer_update() with 0: the timerfd is only cleared when *)
(* no timer is left.                                                       *)
TimerDisarm(t) ==
    \/ /\ heap_idx[t] = -1
       /\ UNCHANGED <<heapVars, timerfd>>
    \/ /\ heap_idx[t] # -1
       /\ SetHeap(Disarm(Heap, t))
       /\ timerfd' = IF data' = <<>> THEN 0 ELSE timerfd

DisarmTimer(t) ==
    /\ UserCode
    /\ t \in existing
    /\ TimerDisarm(t)
    /\ UNCHANGED <<spaceVars, lifeVars, now, dueVars>>

(* Faulty variant of wl_timer_heap_unreserve(): it halves too early.       *)
UnreserveEagerly ==
    /\ count' = count - 1
    /\ \/ UNCHANGED space
       \/ /\ space >= 2 * MinSpace /\ space >= count - 1
          /\ space' = space \div 2

(* wl_timer_heap_unreserve(): halve the array when it is mostly unused,    *)
(* unless realloc() fails.                                                 *)
Unreserve ==
    /\ count' = count - 1
    /\ \/ UNCHANGED space
       \/ /\ space >= 2 * MinSpace /\ space >= 4 * (count - 1)
          /\ space' = space \div 2

(* wl_event_source_remove(): disarm, give up the place, mark as removed.   *)
RemoveTimer(t) ==
    /\ UserCode
    /\ t \in existing
    /\ TimerDisarm(t)
    /\ Unreserve
    /\ existing' = existing \ {t}
    /\ removed' = removed \cup {t}
    /\ UNCHANGED <<now, dueVars>>

(* Time passes. While the due timers are collected it does not matter.     *)
Tick ==
    /\ dispatching # "collecting"
    /\ now < MaxTime
    /\ now' = now + 1
    /\ UNCHANGED <<heapVars, spaceVars, lifeVars, timerfd, dueVars>>

(* wl_timer_heap_dispatch(), once the timerfd has expired: it reads the    *)
(* clock once, takes the due timers from the heap one by one, and sets the *)
(* timerfd for the rest.                                                   *)
ReadClock ==
    /\ dispatching = "no"
    /\ timerfd # 0 /\ timerfd <= now
    /\ dispatching' = "collecting"
    /\ expired' = {[timer |-> t, deadline |-> deadline[t]] :
                    t \in {u \in Timers : heap_idx[u] # -1 /\ deadline[u] <= now}}
    /\ UNCHANGED <<heapVars, spaceVars, lifeVars, timerfd, now, due>>

(* Faulty variant: a timer that is due just now is left.                   *)
RootIsOverdue == data # <<>> /\ deadline[data[1]] < now

RootIsDue == data # <<>> /\ deadline[data[1]] <= now

TakeDue ==
    /\ dispatching = "collecting"
    /\ RootIsDue
    /\ due' = Append(due, [timer |-> data[1], deadline |-> deadline[data[1]]])
    /\ SetHeap(Disarm(Heap, data[1]))
    /\ UNCHANGED <<spaceVars, lifeVars, timerfd, now, expired, dispatching>>

SetTimer ==
    /\ dispatching = "collecting"
    /\ ~RootIsDue
    /\ dispatching' = "collected"
    /\ timerfd' = IF data = <<>> THEN 0 ELSE deadline[data[1]]
    /\ UNCHANGED <<heapVars, spaceVars, lifeVars, now, due, expired>>

(* The functions are called in turn, but not those of timers removed       *)
(* meanwhile.                                                              *)
CallDue ==
    /\ dispatching \in {"collected", "calling"}
    /\ due # <<>>
    /\ due' = Tail(due)
    /\ dispatching' = IF Head(due).timer \in removed THEN dispatching ELSE "calling"
    /\ UNCHANGED <<heapVars, spaceVars, lifeVars, timerfd, now, expired>>

(* The end of a dispatch, with wl_event_loop_process_destroy_list(), also  *)
(* of one that had no timers to call.                                      *)
EndDispatch ==
    /\ due = <<>>
    /\ dispatching \in {"collected", "calling"} \/ (dispatching = "no" /\ removed # {})
    /\ dispatching' = "no"
    /\ removed' = {}
    /\ expired' = {}
    /\ UNCHANGED <<heapVars, spaceVars, existing, timerfd, now, due>>

TimersNext ==
    \/ \E t \in Timers :
        \/ AddTimer(t)
        \/ \E delay \in 1 .. MaxTime : TimerArm(t, delay)
        \/ DisarmTimer(t)
        \/ RemoveTimer(t)
    \/ Tick
    \/ ReadClock
    \/ TakeDue
    \/ SetTimer
    \/ CallDue
    \/ EndDispatch

TimersSpec == TimersInit /\ [][TimersNext]_timerVars

-----------------------------------------------------------------------------
(* The array and the indexes in the timers agree, exactly the armed timers *)
(* are in it, and no timer is due before its parent.                       *)
HeapOK ==
    /\ \A i \in DOMAIN data : heap_idx[data[i]] = i - 1
    /\ \A t \in Timers : heap_idx[t] # -1 =>
        t \in existing /\ heap_idx[t] < Len(data) /\ data[heap_idx[t] + 1] = t
    /\ \A i \in 2 .. Len(data) : deadline[data[i \div 2]] <= deadline[data[i]]

(* Timers never outgrow the array they are put in without a check.         *)
RoomForAll ==
    /\ count = Cardinality(existing)
    /\ Len(data) <= count
    /\ count <= space

(* An armed timer is never slept through: the timerfd expires no later     *)
(* than the earliest deadline, although updates do not always set it.      *)
TimerfdCovers ==
    data # <<>> => timerfd # 0 /\ timerfd <= deadline[data[1]]

(* A dispatch calls "precisely the functions for events before `now`, in   *)
(* order" (event-loop.c:520): those that were due when it read the clock,  *)
(* each once, although every disarm rearranges the heap.                   *)
DispatchExact ==
    dispatching = "collected" =>
        /\ {due[i] : i \in DOMAIN due} = expired
        /\ \A i, j \in DOMAIN due : i < j =>
            due[i].deadline <= due[j].deadline /\ due[i].timer # due[j].timer
=============================================================================
