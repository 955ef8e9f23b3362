----------------------------- MODULE RingBuffer -----------------------------
(***************************************************************************)
(* struct wl_ring_buffer of connection.c: a fixed array with two counters  *)
(* that only grow and wrap around like uint32_t. An index into the array   *)
(* is a counter modulo the size, so an empty and a full buffer have the    *)
(* same indexes and only the counters tell them apart.                     *)
(***************************************************************************)
EXTENDS Integers, Sequences

CONSTANTS
    RingSize,       \* slots of a ring buffer, 4096 bytes in the code
    Stale           \* what a slot holds that nobody may read any more

ASSUME RingAssumption == RingSize \in Nat \ {0}

(* Where the counters wrap around: a multiple of the size, 2^32.           *)
Wrap == 2 * RingSize
Mask(i) == i % RingSize

EmptyRing == [data |-> [i \in 0 .. RingSize - 1 |-> Stale], head |-> 0, tail |-> 0]

(* ring_buffer_size().                                                     *)
RingLen(b) == (b.head - b.tail) % Wrap

(* The slots of a block that starts at one index.                          *)
Block(from, count) == [i \in 1 .. count |-> from + i - 1]

(* ring_buffer_put_iov(): the free slots, in one or two blocks.            *)
FreeSlots(b) ==
    LET head == Mask(b.head)
        tail == Mask(b.tail)
    IN  IF head < tail THEN Block(head, tail - head)
        ELSE Block(head, RingSize - head) \o Block(0, tail)

(* Faulty variant: the two blocks in the wrong order.                      *)
UsedSlotsSwapped(b) ==
    LET head == Mask(b.head)
        tail == Mask(b.tail)
    IN  IF tail < head THEN Block(tail, head - tail)
        ELSE Block(0, head) \o Block(tail, RingSize - tail)

(* ring_buffer_get_iov(): the used slots of a buffer that is not empty.    *)
UsedSlots(b) ==
    LET head == Mask(b.head)
        tail == Mask(b.tail)
    IN  IF tail < head THEN Block(tail, head - tail)
        ELSE Block(tail, RingSize - tail) \o Block(0, head)

(* ring_buffer_copy(): the oldest `count` elements.                        *)
RingCopy(b, count) ==
    LET tail == Mask(b.tail)
        first == RingSize - tail
        slots == IF count <= first THEN Block(tail, count)
                 ELSE Block(tail, first) \o Block(0, count - first)
    IN  [i \in 1 .. count |-> b.data[slots[i]]]

Contents(b) == RingCopy(b, RingLen(b))

(* ring_buffer_put(): copied to the end in one or two pieces. Whether      *)
(* there is room for it is the caller's business.                          *)
RingPut(b, s) ==
    LET head == Mask(b.head)
        slots == IF head + Len(s) <= RingSize THEN Block(head, Len(s))
                 ELSE Block(head, RingSize - head) \o Block(0, Len(s) - (RingSize - head))
    IN  [data |-> [i \in DOMAIN b.data |->
                    IF \E j \in DOMAIN s : slots[j] = i
                    THEN s[CHOOSE j \in DOMAIN s : slots[j] = i] ELSE b.data[i]],
         head |-> (b.head + Len(s)) % Wrap,
         tail |-> b.tail]

(* recvmsg() into the blocks of ring_buffer_put_iov(), then the head moves. *)
RingFill(b, s) ==
    LET free == FreeSlots(b)
    IN  [data |-> [i \in DOMAIN b.data |->
                    IF \E j \in DOMAIN s : free[j] = i
                    THEN s[CHOOSE j \in DOMAIN s : free[j] = i] ELSE b.data[i]],
         head |-> (b.head + Len(s)) % Wrap,
         tail |-> b.tail]

(* The tail moves on. What is behind it is not read again.                 *)
RingDrop(b, count) ==
    LET gone == {Mask(b.tail + i) : i \in 0 .. count - 1}
    IN  [data |-> [i \in DOMAIN b.data |-> IF i \in gone THEN Stale ELSE b.data[i]],
         head |-> b.head,
         tail |-> (b.tail + count) % Wrap]
=============================================================================
