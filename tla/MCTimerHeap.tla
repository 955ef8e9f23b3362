---------------------------- MODULE MCTimerHeap -----------------------------
(* TimerHeap on a small instance: six timers, the least for which an entry *)
(* that replaces a disarmed one has to move up, and two deadlines.         *)
EXTENDS TimerHeap, TLC

(* Timers are interchangeable.                                             *)
TimerSymmetry == Permutations(Timers)

(* The loops of heap_sift_down() and heap_sift_up() as they are written,   *)
(* with indexes from 0 and one call of heap_set() in each round.           *)
SetOne(heap, t, idx) == [heap EXCEPT !.data[idx + 1] = t, !.heap_idx[t] = idx]

DownLoop(heap, t) ==
    LET active == Len(heap.data)
        RECURSIVE Down(_, _)
        Down(h, cursor) ==
            LET left == 2 * cursor + 1
                child == IF /\ left + 1 < active
                            /\ h.deadline[h.data[left + 2]] < h.deadline[h.data[left + 1]]
                         THEN h.data[left + 2] ELSE h.data[left + 1]
            IN  IF left < active /\ h.deadline[child] < h.deadline[t]
                THEN Down(SetOne(h, child, cursor), h.heap_idx[child])
                ELSE SetOne(h, t, cursor)
    IN  Down(heap, heap.heap_idx[t])

UpLoop(heap, t) ==
    LET RECURSIVE Up(_, _)
        Up(h, cursor) ==
            LET parent == h.data[(cursor - 1) \div 2 + 1]
            IN  IF cursor > 0 /\ h.deadline[t] < h.deadline[parent]
                THEN Up(SetOne(h, parent, cursor), h.heap_idx[parent])
                ELSE SetOne(h, t, cursor)
    IN  Up(heap, heap.heap_idx[t])

(* SiftDown and SiftUp are those loops, on every array of up to six        *)
(* timers and three deadlines, a heap or not.                             *)
Order == CHOOSE s \in [1 .. 6 -> Timers] : \A i, j \in 1 .. 6 : s[i] = s[j] => i = j
Arrays ==
    UNION {{[data |-> SubSeq(Order, 1, n),
             heap_idx |-> [t \in Timers |-> IF \E i \in 1 .. n : Order[i] = t
                                            THEN (CHOOSE i \in 1 .. n : Order[i] = t) - 1 ELSE -1],
             deadline |-> [t \in Timers |-> IF \E i \in 1 .. n : Order[i] = t
                                            THEN d[CHOOSE i \in 1 .. n : Order[i] = t] ELSE 0]] :
            d \in [1 .. n -> 1 .. 3]} : n \in 1 .. 6}
ASSUME SiftsAreLoops ==
    \A heap \in Arrays : \A i \in DOMAIN heap.data :
        /\ SiftDown(heap, heap.data[i]) = DownLoop(heap, heap.data[i])
        /\ SiftUp(heap, heap.data[i]) = UpLoop(heap, heap.data[i])
=============================================================================
