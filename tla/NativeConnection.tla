-------------------------- MODULE NativeConnection --------------------------
(***************************************************************************)
(* One direction of a native Wayland socket with connection.c at both of   *)
(* its ends: closures are marshalled into the ring buffers of the sending  *)
(* end, flushed into the socket, read into the ring buffers of the         *)
(* receiving end, demarshalled and dispatched. The server is the sending   *)
(* end for events and the receiving end for requests; the client at the    *)
(* other end links the same code, or none of it: see RawRequest.           *)
(*                                                                         *)
(* File descriptors travel beside the bytes, in ring buffers and control   *)
(* messages of their own. Descriptor <<n, i>> is the i-th of message n.    *)
(* Words, 4 bytes each, are tagged with the message they belong to.        *)
(***************************************************************************)
EXTENDS RingBuffer, SequencesExt

CONSTANTS
    Kinds,          \* messages of the interface: signature, since, native
    Objects,        \* objects that exist at the receiving end
    NewIds,         \* ids for new objects
    Version,        \* version of the resources
    MaxFdsOut,      \* MAX_FDS_OUT, descriptors of one sendmsg()
    WordBytes,      \* sizeof(uint32_t)
    MaxMsgs,        \* bound: messages sent
    MaxSegs         \* bound: control messages in the socket

VARIABLES
    out, fds_out,   \* wl_connection of the sending end
    want_flush,
    txError,        \* wl_client.error at the sending end
    txFds,          \* descriptors open at the sending end
    txOpen,
    sock,           \* the socket: what each sendmsg() put in it
    in, fds_in,     \* wl_connection of the receiving end
    rxError, rxFds, rxOpen,
    known,          \* ids in wl_client.objects of the receiving end
    pass,           \* inside wl_client_connection_data()?
    msgs,           \* messages that were sent: history
    written,        \* words that were written: history
    read,           \* words that were consumed: history
    got,            \* dispatched messages with their descriptors: history
    lost            \* a failed write was ignored or a raw request was sent

txVars == <<out, fds_out, want_flush, txError, txFds, txOpen>>
rxVars == <<in, fds_in, rxError, rxFds, rxOpen, known, pass>>
history == <<msgs, written, read, got, lost>>
vars == <<txVars, sock, rxVars, history>>

FdArgs(kind) == SelectSeq(kind.signature, LAMBDA a : a.type = "h")
Fds(n, kind) == [i \in 1 .. Len(FdArgs(kind)) |-> <<n, i>>]

-----------------------------------------------------------------------------
(* div_roundup(): words that hold a number of bytes.                       *)
DivRoundup(n) == (n + WordBytes - 1) \div WordBytes

(* Words of an argument, buffer_size_for_closure(). A string or array is   *)
(* its length in bytes, 0 for none, then its bytes; descriptors take none. *)
ArgWords(arg, value) ==
    CASE arg.type = "h" -> <<>>
      [] arg.type = "s" -> <<value>> \o [i \in 1 .. DivRoundup(value) |-> 0]
      [] OTHER -> <<value>>

(* size << 16 | opcode.                                                    *)
SizeAndOpcode(size, opcode) == size * 2^16 + opcode

(* serialize_closure(): the header with sender, size and opcode, then the  *)
(* arguments.                                                              *)
Serialize(n, sender, kind, args) ==
    LET body == FlattenSeq([i \in DOMAIN kind.signature |-> ArgWords(kind.signature[i], args[i])])
        values == <<sender, SizeAndOpcode(Len(body) + 2, kind.opcode)>> \o body
    IN  [i \in DOMAIN values |-> [msg |-> n, val |-> values[i]]]

-----------------------------------------------------------------------------
(* The sending end and the socket while a call is under way, and what the  *)
(* call returned.                                                          *)
Tx == [out |-> out, fds |-> fds_out, want |-> want_flush, open |-> txFds, sock |-> sock, ret |-> "ok"]

SetTx(c) ==
    /\ out' = c.out
    /\ fds_out' = c.fds
    /\ want_flush' = c.want
    /\ txFds' = c.open
    /\ sock' = c.sock

(* close_fds(): the oldest `max` descriptors of a ring buffer.             *)
CloseFds(c, max) ==
    LET count == IF RingLen(c.fds) < max THEN RingLen(c.fds) ELSE max
    IN  [c EXCEPT !.open = @ \ ToSet(RingCopy(c.fds, count)), !.fds = RingDrop(@, count)]

(* One round of the loop of wl_connection_flush(): build_cmsg() takes at   *)
(* most MaxFdsOut descriptors, sendmsg() accepts k words, and the          *)
(* descriptors are closed.                                                 *)
SendMsg(c, k) ==
    LET words == [i \in 1 .. k |-> c.out.data[UsedSlots(c.out)[i]]]
        count == IF RingLen(c.fds) < MaxFdsOut THEN RingLen(c.fds) ELSE MaxFdsOut
        segment == [words |-> words, fds |-> RingCopy(c.fds, count)]
    IN  [CloseFds(c, MaxFdsOut) EXCEPT !.sock = Append(@, segment), !.out = RingDrop(@, k)]

(* wl_connection_flush(): nothing unless wanted; else everything goes, at  *)
(* once or in two rounds, or sendmsg() fails at once or after one round:   *)
(* with EAGAIN, and with an error when the other end is closed.            *)
FlushOutcomes(c) ==
    LET n == RingLen(c.out)
        fail(d) == [d EXCEPT !.ret = IF rxOpen THEN "again" ELSE "error"]
        done(d) == [d EXCEPT !.want = FALSE]
        room == IF rxOpen THEN MaxSegs - Len(c.sock) ELSE 0
        parts == IF room > 0 THEN 1 .. n - 1 ELSE {}
    IN  IF ~ c.want THEN {c}
        ELSE IF n = 0 THEN {done(c)}
        ELSE {fail(c)}
             \cup (IF room > 0 THEN {done(SendMsg(c, n))} ELSE {})
             \cup {fail(SendMsg(c, k)) : k \in parts}
             \cup (IF room > 1 THEN {done(SendMsg(SendMsg(c, k), n - k)) : k \in parts} ELSE {})

(* Faulty variant: no flush when the queue of descriptors is full.         *)
PutFdNoFlush(c, fd) == {[c EXCEPT !.fds = RingPut(@, <<fd>>)]}

(* wl_connection_put_fd(): a full queue is flushed first.                  *)
PutFd(c, fd) ==
    LET put(d) == IF d.ret = "ok" THEN [d EXCEPT !.fds = RingPut(@, <<fd>>)] ELSE d
        flushed == IF RingLen(c.fds) = MaxFdsOut
                   THEN FlushOutcomes([c EXCEPT !.want = TRUE]) ELSE {c}
    IN  {put(d) : d \in flushed}

(* copy_fds_to_connection(): the descriptors one by one, until one fails.  *)
PutFds(c, fds) ==
    FoldLeft(LAMBDA cs, fd : UNION {IF d.ret = "ok" THEN PutFd(d, fd) ELSE {d} : d \in cs}, {c}, fds)

(* wl_connection_write() and wl_connection_queue(): flush when there is no *)
(* room, then copy. Only a write asks for a flush.                         *)
Write(c, words, want) ==
    LET put(d) ==
            IF d.ret # "ok" THEN d
            ELSE IF Len(words) > RingSize THEN [d EXCEPT !.ret = "error"]
            ELSE [d EXCEPT !.out = RingPut(@, words), !.want = @ \/ want]
        full == RingLen(c.out) + Len(words) > RingSize
    IN  {put(d) : d \in IF full THEN FlushOutcomes([c EXCEPT !.want = TRUE]) ELSE {c}}

(* wl_closure_send() and wl_closure_queue() of a closure that owns its     *)
(* descriptors, then wl_closure_destroy(): the descriptors that did not    *)
(* get into the queue are closed.                                          *)
ClosureSend(c, fds, words, want) ==
    LET opened == [c EXCEPT !.open = @ \cup ToSet(fds)]
        sent == UNION {IF d.ret = "ok" THEN Write(d, words, want) ELSE {d} : d \in PutFds(opened, fds)}
        left(d) == ToSet(fds) \ (ToSet(Contents(d.fds)) \cup UNION {ToSet(s.fds) : s \in ToSet(d.sock)})
    IN  {[d EXCEPT !.open = @ \ left(d)] : d \in sent}

Init ==
    /\ out = EmptyRing /\ fds_out = EmptyRing
    /\ want_flush = FALSE
    /\ txError = FALSE /\ txFds = {} /\ txOpen = TRUE
    /\ sock = <<>>
    /\ in = EmptyRing /\ fds_in = EmptyRing
    /\ rxError = FALSE /\ rxFds = {} /\ rxOpen = TRUE
    /\ known = Objects
    /\ pass = FALSE
    /\ msgs = <<>> /\ written = <<>> /\ read = <<>> /\ got = <<>>
    /\ lost = FALSE

-----------------------------------------------------------------------------
(* The sending end.                                                        *)

(* Arguments a caller may pass: an existing object, an id nobody uses yet, *)
(* a text that takes one word.                                             *)
Values(arg) ==
    CASE arg.type = "o" -> Objects \cup (IF arg.nullable THEN {0} ELSE {})
      [] arg.type = "n" -> NewIds \ (known \cup UNION {ToSet(msgs[i].args) : i \in DOMAIN msgs})
      [] arg.type = "s" -> {WordBytes} \cup (IF arg.nullable THEN {0} ELSE {})
      [] OTHER -> {0}
Arguments(kind) ==
    {args \in [DOMAIN kind.signature -> UNION {Values(a) : a \in ToSet(kind.signature)}] :
        \A i \in DOMAIN args : args[i] \in Values(kind.signature[i])}

Sent(kind, args, words) ==
    /\ msgs' = Append(msgs, [kind |-> kind, args |-> args])
    /\ written' = IF words = <<>> THEN written ELSE written \o words

(* handle_array() for wl_resource_post_event() and wl_resource_queue_event(): *)
(* once a send failed, nothing more is sent.                               *)
HandleArray(kind, want) ==
    \E args \in Arguments(kind), sender \in Objects :
        LET n == Len(msgs) + 1
            words == Serialize(n, sender, kind, args)
        IN  /\ txOpen /\ ~ txError
            /\ n <= MaxMsgs
            /\ \E c \in ClosureSend(Tx, Fds(n, kind), words, want) :
                /\ SetTx(c)
                /\ txError' = (c.ret # "ok")
                /\ Sent(kind, args, IF c.ret = "ok" THEN words ELSE <<>>)
            /\ UNCHANGED <<txOpen, rxVars, read, got, lost>>

PostEvent(kind) == HandleArray(kind, TRUE)
QueueEvent(kind) == HandleArray(kind, FALSE)

(* handle_array() when verify_objects() or wl_closure_marshal() fails: an  *)
(* object of another client, a missing argument, a descriptor that cannot  *)
(* be duplicated. What the closure owned already is closed.                *)
MarshalFails ==
    /\ txOpen /\ ~ txError
    /\ txError' = TRUE
    /\ UNCHANGED <<out, fds_out, want_flush, txFds, txOpen, sock, rxVars, history>>

(* sendEvents() of the addon: descriptors and words the browser marshalled, *)
(* as the browser's own. No result is looked at: after a failure the next  *)
(* descriptor, and in the end the words, are tried all the same.           *)
PutEachFd(c, fds) ==
    LET try(d, fd) == {[e EXCEPT !.ret = IF d.ret = "ok" THEN @ ELSE d.ret] :
                       e \in PutFd([d EXCEPT !.ret = "ok"], fd)}
    IN  FoldLeft(LAMBDA cs, fd : UNION {try(d, fd) : d \in cs}, {c}, fds)

SendEvents(kind) ==
    \E args \in Arguments(kind), sender \in Objects :
        LET n == Len(msgs) + 1
            words == Serialize(n, sender, kind, args)
            opened == [Tx EXCEPT !.open = @ \cup ToSet(Fds(n, kind))]
        IN  /\ txOpen
            /\ n <= MaxMsgs
            /\ \E c \in PutEachFd(opened, Fds(n, kind)) : \E d \in Write([c EXCEPT !.ret = "ok"], words, TRUE) :
                /\ SetTx(d)
                /\ Sent(kind, args, IF d.ret = "ok" THEN words ELSE <<>>)
                /\ lost' = (lost \/ c.ret # "ok" \/ d.ret # "ok")
            /\ UNCHANGED <<txError, txOpen, rxVars, read, got>>

(* wl_client_flush(), flush() of the addon, and wl_display_flush_clients() *)
(* and the WRITABLE part of wl_client_connection_data(), which destroy the *)
(* client unless the socket was only full.                                 *)
TxDestroyed(c) ==
    /\ out' = EmptyRing /\ fds_out' = EmptyRing /\ want_flush' = FALSE
    /\ txFds' = CloseFds(c, RingSize).open
    /\ sock' = c.sock
    /\ txOpen' = FALSE

ClientFlush ==
    /\ txOpen
    /\ want_flush
    /\ \E c \in FlushOutcomes(Tx) :
        \/ c.ret # "error" /\ SetTx(c) /\ UNCHANGED txOpen
        \/ c.ret = "error" /\ TxDestroyed(c)
    /\ UNCHANGED <<txError, rxVars, history>>

(* wl_client_destroy() at the sending end: a last flush, then              *)
(* wl_connection_destroy().                                                *)
TxDestroy ==
    /\ txOpen
    /\ \E c \in FlushOutcomes(Tx) : TxDestroyed(c)
    /\ UNCHANGED <<txError, rxVars, history>>

-----------------------------------------------------------------------------
(* The receiving end.                                                      *)

Pending == RingLen(in)
Header == RingCopy(in, 2)
Size == Header[2].val \div 2^16
Complete == Pending >= 2 /\ Pending >= Size
Number == Header[1].msg
Target == Header[1].val
KindAt == {k \in Kinds : k.opcode = Header[2].val % 2^16}

(* wl_client_destroy() at the receiving end: its descriptors are closed,   *)
(* and the kernel drops what is in the socket.                             *)
RxDestroyed ==
    /\ rxOpen' = FALSE
    /\ in' = EmptyRing /\ fds_in' = EmptyRing
    /\ rxFds' = rxFds \ ToSet(Contents(fds_in))
    /\ sock' = <<>>
    /\ pass' = FALSE

(* wl_connection_read() and decode_cmsg(): as much as fits in the ring     *)
(* buffer, with the descriptors of the first byte. Descriptors for which   *)
(* there is no room are closed, which is an error like a full buffer and   *)
(* the end of the stream.                                                  *)
ReadConnection ==
    LET segment == Head(sock)
        free == Len(FreeSlots(in))
        k == IF Len(segment.words) < free THEN Len(segment.words) ELSE free
        rest == [words |-> SubSeq(segment.words, k + 1, Len(segment.words)), fds |-> <<>>]
    IN  /\ rxOpen /\ ~ pass
        /\ sock # <<>>
        /\ Pending < RingSize
        /\ Len(segment.fds) <= RingSize - RingLen(fds_in)
        /\ in' = RingFill(in, SubSeq(segment.words, 1, k))
        /\ fds_in' = RingPut(fds_in, segment.fds)
        /\ rxFds' = rxFds \cup ToSet(segment.fds)
        /\ sock' = (IF rest.words = <<>> THEN <<>> ELSE <<rest>>) \o Tail(sock)
        /\ pass' = TRUE
        /\ UNCHANGED <<txVars, rxError, rxOpen, known, history>>

ReadFails ==
    /\ rxOpen /\ ~ pass
    /\ \/ sock = <<>> /\ ~ txOpen
       \/ sock # <<>> /\ Pending >= RingSize
       \/ sock # <<>> /\ Len(Head(sock).fds) > RingSize - RingLen(fds_in)
    /\ RxDestroyed
    /\ UNCHANGED <<txVars, rxError, known, history>>

(* wl_connection_consume().                                                *)
Consume ==
    /\ in' = RingDrop(in, Size)
    /\ read' = read \o RingCopy(in, Size)

(* on_wire_message(): the browser handles the message and 0 is returned.   *)
(* Its descriptors stay where they are until the end of the pass.          *)
BrowserConsumes ==
    /\ pass /\ ~ rxError /\ Complete
    /\ \A kind \in KindAt : ~ kind.native
    /\ KindAt # {}
    /\ Consume
    /\ UNCHANGED <<txVars, sock, fds_in, rxError, rxFds, rxOpen, known, pass, msgs, written, got, lost>>

(* wl_client_connection_data(): the native message is refused before it is *)
(* demarshalled: no such object, no such method, or not of this version.   *)
(* The message stays where it is.                                          *)
Refused == Target \notin known \/ KindAt = {} \/ \E kind \in KindAt : kind.since > Version
Refuse ==
    /\ pass /\ ~ rxError /\ Complete
    /\ \A kind \in KindAt : kind.native
    /\ Refused
    /\ rxError' = TRUE
    /\ UNCHANGED <<txVars, sock, in, fds_in, rxFds, rxOpen, known, pass, history>>

(* The words of the arguments as wl_connection_demarshal() walks through   *)
(* them: position, value and what went wrong.                              *)
Demarshal(kind) ==
    LET words == RingCopy(in, Size)
        fds == Contents(fds_in)
        Arg(a, arg) ==
            IF ~ a.ok THEN a
            ELSE IF arg.type = "h"
            THEN IF a.fds = Len(fds) THEN [a EXCEPT !.ok = FALSE] ELSE [a EXCEPT !.fds = @ + 1]
            ELSE IF a.pos > Size THEN [a EXCEPT !.ok = FALSE]
            ELSE LET value == words[a.pos].val
                     next == a.pos + 1 + (IF arg.type = "s" THEN DivRoundup(value) ELSE 0)
                 IN  [a EXCEPT !.pos = next,
                               !.ids = IF arg.type = "n" THEN @ \cup {value} ELSE @,
                               !.refs = IF arg.type = "o" THEN @ \cup {value} ELSE @,
                               !.ok = /\ next <= Size + 1
                                      /\ arg.type \in {"s", "o", "n"} => value # 0 \/ arg.nullable
                                      /\ arg.type = "n" => value \notin known \cup a.ids]
    IN  FoldLeft(Arg, [ok |-> Size >= 2, pos |-> 3, fds |-> 0, ids |-> {}, refs |-> {}], kind.signature)

(* wl_closure_lookup_objects(): ids that are not 0 name an object.         *)
LookupObjects(closure) == closure.refs \subseteq known \cup closure.ids \cup {0}

(* The descriptors that the closure took, and the rest.                    *)
TakeFds(closure) == fds_in' = RingDrop(fds_in, closure.fds)

(* The message is consumed, and wl_closure_destroy() closes what it took.  *)
DemarshalFails ==
    /\ pass /\ ~ rxError /\ Complete
    /\ ~ Refused
    /\ \E kind \in KindAt :
        LET closure == Demarshal(kind)
        IN  /\ kind.native
            /\ ~ closure.ok \/ ~ LookupObjects(closure)
            /\ TakeFds(closure)
            /\ rxFds' = rxFds \ ToSet(RingCopy(fds_in, closure.fds))
            /\ known' = known \cup closure.ids
    /\ Consume
    /\ rxError' = TRUE
    /\ UNCHANGED <<txVars, sock, rxOpen, pass, msgs, written, got, lost>>

(* Faulty variant: wl_closure_destroy() closes what the handler took.      *)
DispatchClosesFds ==
    /\ pass /\ ~ rxError /\ Complete
    /\ ~ Refused
    /\ \E kind \in KindAt :
        LET closure == Demarshal(kind)
        IN  /\ kind.native
            /\ closure.ok /\ LookupObjects(closure)
            /\ TakeFds(closure)
            /\ rxFds' = rxFds \ ToSet(RingCopy(fds_in, closure.fds))
            /\ known' = known \cup closure.ids
            /\ got' = Append(got, [n |-> Number, fds |-> RingCopy(fds_in, closure.fds)])
    /\ Consume
    /\ UNCHANGED <<txVars, sock, rxError, rxOpen, pass, msgs, written, lost>>

(* wl_closure_invoke() and wl_closure_dispatch(): the handler owns the     *)
(* descriptors, wl_closure_clear_fds() makes the closure forget them.      *)
Dispatch ==
    /\ pass /\ ~ rxError /\ Complete
    /\ ~ Refused
    /\ \E kind \in KindAt :
        LET closure == Demarshal(kind)
        IN  /\ kind.native
            /\ closure.ok /\ LookupObjects(closure)
            /\ TakeFds(closure)
            /\ known' = known \cup closure.ids
            /\ got' = Append(got, [n |-> Number, fds |-> RingCopy(fds_in, closure.fds)])
    /\ Consume
    /\ UNCHANGED <<txVars, sock, rxError, rxFds, rxOpen, pass, msgs, written, lost>>

(* wl_connection_fds_in_size() and wl_connection_copy_fds_in(): every      *)
(* descriptor that is left.                                                *)
CopyFdsIn == RingCopy(fds_in, RingLen(fds_in))

(* The end of wl_client_connection_data(): destroy the client after an     *)
(* error, or on_wire_message_end(), which hands the descriptors that are   *)
(* left to the browser.                                                    *)
PassEnds ==
    /\ pass
    /\ rxError \/ ~ Complete
    /\ \/ /\ rxError
          /\ RxDestroyed
          /\ UNCHANGED <<got, known>>
       \/ /\ ~ rxError
          /\ fds_in' = RingDrop(fds_in, RingLen(fds_in))
          /\ got' = IF CopyFdsIn = <<>> THEN got ELSE Append(got, [n |-> 0, fds |-> CopyFdsIn])
          /\ pass' = FALSE
          /\ UNCHANGED <<sock, in, rxFds, rxOpen, known>>
    /\ UNCHANGED <<txVars, rxError, msgs, written, read, lost>>

(* The hangup and error part of wl_client_connection_data(), destroyClient(). *)
RxDestroy ==
    /\ rxOpen /\ ~ pass
    /\ RxDestroyed
    /\ UNCHANGED <<txVars, rxError, known, history>>

(* External: a client that does not use this code sends a request with a   *)
(* header that does not fit, without its arguments or its descriptors.     *)
RawRequest ==
    \E kind \in Kinds, sender \in Objects \cup NewIds, size \in {1, 2, RingSize + 1} :
        LET n == Len(msgs) + 1
            header == <<sender, SizeAndOpcode(size, kind.opcode)>>
            words == [i \in 1 .. 2 |-> [msg |-> n, val |-> header[i]]]
        IN  /\ txOpen /\ rxOpen
            /\ n <= MaxMsgs /\ Len(sock) < MaxSegs
            /\ RingLen(out) = 0
            /\ sock' = Append(sock, [words |-> words, fds |-> <<>>])
            /\ Sent(kind, <<>>, words)
            /\ lost' = TRUE
            /\ UNCHANGED <<txVars, rxVars, read, got>>

Next ==
    \/ \E kind \in Kinds : PostEvent(kind) \/ QueueEvent(kind) \/ SendEvents(kind)
    \/ MarshalFails
    \/ ClientFlush
    \/ TxDestroy
    \/ ReadConnection
    \/ ReadFails
    \/ BrowserConsumes
    \/ Refuse
    \/ DemarshalFails
    \/ Dispatch
    \/ PassEnds
    \/ RxDestroy
    \/ RawRequest

Spec == Init /\ [][Next]_vars

-----------------------------------------------------------------------------
SockWords == FlattenSeq([i \in DOMAIN sock |-> sock[i].words])
SockFds == FlattenSeq([i \in DOMAIN sock |-> sock[i].fds])
HandedOut == FlattenSeq([i \in DOMAIN got |-> got[i].fds])
SentFds == FlattenSeq([n \in DOMAIN msgs |-> Fds(n, msgs[n].kind)])

(* What was written is what was consumed, then what the buffers on the way *)
(* hold, in order, and the same for descriptors: ring buffers that wrap    *)
(* around and partial sends neither lose, repeat nor reorder anything      *)
(* (ring_buffer_get_iov(), wl_connection_flush(), wl_connection_read()).   *)
StreamConserved ==
    txOpen /\ rxOpen =>
        /\ written = read \o Contents(in) \o SockWords \o Contents(out)
        /\ ~ (lost \/ txError \/ rxError) =>
            SentFds = HandedOut \o Contents(fds_in) \o SockFds \o Contents(fds_out)

(* A complete message never waits for its descriptors: they arrive with    *)
(* its last word or before, although the two travel separately and the     *)
(* socket accepts as little as it likes (wl_connection_put_fd(), which     *)
(* flushes at the limit, and build_cmsg()).                                *)
Arrived(n) ==
    \A i \in DOMAIN written : written[i].msg = n =>
        i <= Len(read) + RingLen(in)
DescriptorsArrive ==
    rxOpen /\ ~ (lost \/ txError \/ rxError) =>
        \A n \in DOMAIN msgs : Arrived(n) => ToSet(Fds(n, msgs[n].kind)) \subseteq rxFds

(* Every open descriptor has exactly one owner: at the sending end the     *)
(* queue, at the receiving end the queue, a handler or the browser. None   *)
(* is leaked, closed while queued, or handed out twice                     *)
(* (wl_closure_clear_fds(), wl_closure_destroy(), close_fds()).            *)
OwnedOnce(fds, open) == ToSet(fds) = open /\ Cardinality(open) = Len(fds)
FdsOwnedOnce ==
    /\ ~ lost => OwnedOnce(Contents(fds_out), txFds)
    /\ OwnedOnce(HandedOut \o Contents(fds_in), rxFds)

(* A request that was sent by this code is accepted: "The server will mmap *)
(* size bytes of the passed file descriptor"                               *)
(* (wayland-server-protocol.h, wl_shm.create_pool).                        *)
RequestsAccepted == rxError => lost
=============================================================================
