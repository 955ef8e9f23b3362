----------------------------- MODULE EventLoop ------------------------------
(***************************************************************************)
(* struct wl_event_loop of event-loop.c: its event sources and the lists   *)
(* they are on. Each function of the loop is an operator from a loop to    *)
(* the loop it leaves behind; NativeDisplay runs one. Timers are the       *)
(* subject of TimerHeap, and the display has none.                         *)
(*                                                                         *)
(* A source that is removed keeps its memory until the end of the dispatch *)
(* in which it was removed, because epoll_wait() may have reported it to   *)
(* that dispatch already: only its descriptor, -1 from then on, tells that *)
(* it must be skipped. Here a source has a descriptor as long as it is in  *)
(* the domain of "interest", and memory as long as it is there, among the  *)
(* idle sources or on the destroy list.                                    *)
(***************************************************************************)
EXTENDS Integers, Sequences, FiniteSets, SequencesExt, FiniteSetsExt

CONSTANT MaxEvents  \* room for events in one epoll_wait(), 32 in the code

ASSUME EventLoopAssumption == MaxEvents \in Nat \ {0}

(* wl_event_loop_create(). The batch is what epoll_wait() reported and the *)
(* running dispatch has not dispatched yet.                                *)
LoopCreate == [interest |-> <<>>, idle |-> <<>>, destroy |-> {},
               batch |-> <<>>]

HasFd(loop, s) == s \in DOMAIN loop.interest
HasMemory(loop, s) == HasFd(loop, s) \/ s \in ToSet(loop.idle) \cup loop.destroy

(* wl_event_loop_add_fd() once its descriptor is duplicated and in the     *)
(* epoll set, add_source(): a failure of either leaves no source.          *)
AddFd(loop, s, mask) ==
    [loop EXCEPT !.interest = [x \in DOMAIN @ \cup {s} |-> IF x = s THEN mask ELSE @[x]]]

(* wl_event_source_fd_update()                                             *)
FdUpdate(loop, s, mask) == [loop EXCEPT !.interest[s] = mask]

(* Mutant: the newest idle source runs first.                              *)
AddIdleFirst(loop, s) == [loop EXCEPT !.idle = <<s>> \o @]

(* wl_event_loop_add_idle(): idle sources run in the order they were added *)
AddIdle(loop, s) == [loop EXCEPT !.idle = Append(@, s)]

(* Mutant: the source is freed at once.                                    *)
RemoveFreesAtOnce(loop, sources) ==
    [loop EXCEPT !.interest = [s \in DOMAIN @ \ sources |-> @[s]]]

(* wl_event_source_remove() of some sources that have a descriptor: out of *)
(* the epoll set, closed and onto the destroy list.                        *)
SourceRemove(loop, sources) ==
    [loop EXCEPT !.interest = [s \in DOMAIN @ \ sources |-> @[s]],
                 !.destroy = @ \cup sources]

(* wl_event_loop_process_destroy_list()                                    *)
ProcessDestroyList(loop) == [loop EXCEPT !.destroy = {}]

(* wl_event_loop_destroy(): what is still registered is leaked.            *)
LoopDestroy(loop) == [ProcessDestroyList(loop) EXCEPT !.batch = <<>>]

(* The epoll events of a source: what it is interested in and can do now,  *)
(* and a hangup, which is reported unasked; wl_event_source_fd_dispatch()  *)
(* passes them on as the mask of its handler.                              *)
Mask(loop, s, possible) == possible \cap (loop.interest[s] \cup {"H"})
Ready(loop, possible) ==
    {s \in DOMAIN loop.interest : Mask(loop, s, possible[s]) # {}}

(* epoll_wait(): at most MaxEvents of the sources that are ready, in the   *)
(* order of the kernel's ready list, each with its events.                 *)
Batches(loop, possible) ==
    LET ready == Ready(loop, possible)
        count == Min({MaxEvents, Cardinality(ready)})
    IN  {[i \in 1 .. count |-> [source |-> order[i],
                                mask |-> Mask(loop, order[i], possible[order[i]])]] :
            order \in UNION {SetToSeqs(some) : some \in kSubset(count, ready)}}
EpollWait(loop, batch) == [loop EXCEPT !.batch = batch]

(* The loop of wl_event_loop_dispatch() over the events: the next one, and *)
(* whether its source is still to be dispatched.                           *)
NextEvent(loop) == Head(loop.batch)
TakeEvent(loop) == [loop EXCEPT !.batch = Tail(@)]
IsDispatched(loop) == HasFd(loop, NextEvent(loop).source)

(* The end of wl_event_loop_dispatch_idle()'s loop body: the first idle    *)
(* source has run, and wl_event_source_remove() moves it from the idle     *)
(* list to the destroy list.                                               *)
IdleDone(loop) == [loop EXCEPT !.idle = Tail(@), !.destroy = @ \cup {Head(loop.idle)}]
=============================================================================
