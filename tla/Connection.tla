----------------------------- MODULE Connection -----------------------------
(***************************************************************************)
(* The class Connection of common/src/Connection.ts: the message loop that *)
(* both ends of a browser Wayland connection run, the queue of received    *)
(* wire buffers it drains, the queue of marshalled messages it flushes and *)
(* the table of live objects it dispatches to.                             *)
(*                                                                         *)
(* JavaScript runs one synchronous stretch of code at a time: `running` is *)
(* the call of message() that owns the thread, or NoCall between tasks.    *)
(* Listener code and application code are the same to the Connection (both *)
(* call its methods), so they share the actions that start with "Api".     *)
(*                                                                         *)
(* A wire buffer is the number of its messages, and what a message says is *)
(* chosen when the loop looks at it, since nobody looks before. Argument   *)
(* lists are left out: handlers consume the arguments of their message.    *)
(***************************************************************************)
EXTENDS Integers, Sequences

CONSTANTS
    Ids,            \* object ids in use
    DisplayId,      \* the id of the display object, 1 in the protocol
    Calls,          \* calls of message() that may be unfinished at a time
    NoCall,         \* no call owns the thread
    MaxBatch,       \* bound: messages in one received buffer
    MaxWire,        \* bound: buffers received
    MaxSend,        \* bound: messages marshalled
    MaxClose,       \* bound: calls of close() on the stack
    FlushMayThrow   \* whether the onFlush callback may throw

ASSUME ConnectionAssumption ==
    /\ Ids \subseteq Nat
    /\ DisplayId \in Ids
    /\ NoCall \notin Calls
    /\ MaxBatch \in Nat \ {0}
    /\ MaxWire \in Nat
    /\ MaxSend \in Nat
    /\ MaxClose \in Nat
    /\ FlushMayThrow \in BOOLEAN

VARIABLES
    closed,         \* Connection.closed
    wlObjects,      \* ids of the objects in Connection.wlObjects
    closing,        \* the calls of close() on the stack, outermost first:
                    \* the ids of the objects each has still to destroy
    late,           \* ids that destroy listeners of these calls registered
    onFlush,        \* whether Connection.onFlush has been set
    outMessages,    \* Connection._outMessages, messages by number
    sent,           \* messages handed to onFlush so far
    marshalled,     \* how many messages were marshalled
    wire,           \* messages in every buffer received while open
    offset,         \* bufferOffset of every buffer, counted in messages
    inMessages,     \* Connection._inMessages: indexes into wire, oldest first
    pc,             \* where each call of message() is
    messagesToProcess, \* its snapshot of inMessages
    running         \* which call owns the thread

vars == <<closed, wlObjects, closing, late, onFlush, outMessages, sent, marshalled,
          wire, offset, inMessages, pc, messagesToProcess, running>>
closeVars == <<closed, closing, late>>
outVars == <<onFlush, outMessages, sent, marshalled>>
inVars == <<wire, offset, inMessages>>
loopVars == <<pc, messagesToProcess, running>>

(* What the header of a message may look like: a size that exceeds the     *)
(* buffer, an opcode its object does not have, or neither.                 *)
Form == {"wellFormed", "tooLarge", "badOpcode"}
Msg == [id : Ids, form : Form]

PC == {"idle", "top", "dispatch", "handler", "await"}

(* Whether close() is on the stack.                                        *)
inClose == closing # <<>>

ObjectsOK ==
    /\ closed \in BOOLEAN
    /\ wlObjects \subseteq Ids
    /\ closing \in Seq(SUBSET Ids)
    /\ late \subseteq Ids

OutOK ==
    /\ onFlush \in BOOLEAN
    /\ outMessages \in Seq(Nat)
    /\ sent \in Seq(Nat)
    /\ marshalled \in Nat

InOK ==
    /\ wire \in Seq(Nat)
    /\ offset \in Seq(Nat)
    /\ Len(offset) = Len(wire)
    /\ inMessages \subseteq 1 .. Len(wire)

LoopOK ==
    /\ pc \in [Calls -> PC]
    /\ messagesToProcess \in [Calls -> SUBSET (1 .. Len(wire))]
    /\ running \in Calls \cup {NoCall}

TypeOK == ObjectsOK /\ OutOK /\ InOK /\ LoopOK

Init ==
    /\ closed = FALSE
    /\ wlObjects = {DisplayId}
    /\ closing = <<>>
    /\ late = {}
    /\ onFlush = FALSE
    /\ outMessages = <<>>
    /\ sent = <<>>
    /\ marshalled = 0
    /\ wire = <<>>
    /\ offset = <<>>
    /\ inMessages = {}
    /\ pc = [c \in Calls |-> "idle"]
    /\ messagesToProcess = [c \in Calls |-> {}]
    /\ running = NoCall

-----------------------------------------------------------------------------
(* Faulty variant of flush: the queue is not replaced by an empty one.     *)
flushKeepsQueue ==
    /\ sent' = IF ~closed /\ onFlush THEN sent \o outMessages ELSE sent
    /\ UNCHANGED <<outMessages, onFlush, marshalled>>

(* flush(): hand everything queued to onFlush, or drop it when onFlush is  *)
(* not set, and start a new queue.                                         *)
flush ==
    /\ IF closed \/ outMessages = <<>>
       THEN UNCHANGED <<outMessages, sent>>
       ELSE /\ outMessages' = <<>>
            /\ sent' = IF onFlush THEN sent \o outMessages ELSE sent
    /\ UNCHANGED <<onFlush, marshalled>>

(* flush() when onFlush throws: the queue is kept.                         *)
flushThrows ==
    /\ FlushMayThrow
    /\ ~closed
    /\ outMessages # <<>>
    /\ onFlush
    /\ UNCHANGED outVars

(* close(): from here on DestroyNext destroys the objects one by one, each *)
(* of which runs its listeners and unregisters itself; CloseFinish sets    *)
(* closed. Nothing else runs meanwhile but the listeners, which may call   *)
(* close() again, as it is not closed yet.                                 *)
close ==
    IF closed
    THEN UNCHANGED closeVars
    ELSE /\ UNCHANGED late
         /\ \/ /\ wlObjects = {}
               /\ closed' = TRUE
               /\ UNCHANGED closing
            \/ /\ wlObjects # {}
               /\ Len(closing) < MaxClose
               /\ closing' = Append(closing, wlObjects)
               /\ UNCHANGED closed

(* The objects that the innermost close() has still to destroy, and the    *)
(* calls of close() that are left when it ends.                            *)
ToDestroy == closing[Len(closing)]
Returned == SubSeq(closing, 1, Len(closing) - 1)

(* The object it destroys: the one with the smallest id of its snapshot.   *)
NextToDestroy(id) == id \in ToDestroy /\ \A other \in ToDestroy : id <= other

unregisterWlObject(id) ==
    wlObjects' = IF closed THEN wlObjects ELSE wlObjects \ {id}

DestroyNext ==
    /\ inClose
    /\ \E id \in ToDestroy :
        /\ NextToDestroy(id)
        /\ closing' = Append(Returned, ToDestroy \ {id})
        /\ unregisterWlObject(id)
    /\ UNCHANGED <<closed, late, outVars, inVars, loopVars>>

CloseFinish ==
    /\ inClose
    /\ ToDestroy = {}
    /\ closing' = Returned
    /\ closed' = TRUE
    /\ UNCHANGED <<late, wlObjects, outVars, inVars, loopVars>>

(* destroy() runs listeners without try: one that throws, before or after  *)
(* its object is unregistered, ends the innermost close(), which leaves    *)
(* the rest as it is. If close() was called by a listener, that one may    *)
(* catch the exception or throw in turn.                                   *)
ListenerThrows ==
    /\ inClose
    /\ \E id \in ToDestroy :
        /\ NextToDestroy(id)
        /\ unregisterWlObject(id) \/ UNCHANGED wlObjects
    /\ closing' = Returned
    /\ late' = IF Returned = <<>> /\ ~closed THEN {} ELSE late
    /\ UNCHANGED <<closed, outVars, inVars, loopVars>>

-----------------------------------------------------------------------------
(* The name of the next call: which one it is makes no difference.         *)
FreeCall == CHOOSE c \in Calls : pc[c] = "idle"

(* Faulty variant of message(): every call runs a loop of its own.         *)
MessageAlwaysLoops(messages) ==
    /\ running = NoCall
    /\ ~inClose
    /\ ~closed
    /\ Len(wire) < MaxWire
    /\ wire' = Append(wire, messages)
    /\ offset' = Append(offset, 0)
    /\ inMessages' = inMessages \cup {Len(wire) + 1}
    /\ \E c \in Calls :
        /\ c = FreeCall
        /\ pc[c] = "idle"
        /\ pc' = [pc EXCEPT ![c] = "top"]
        /\ running' = c
        /\ UNCHANGED messagesToProcess
    /\ UNCHANGED <<closeVars, wlObjects, outVars>>

(* message(): queue the buffer; only a call that finds the queue empty     *)
(* goes on to run the loop, any other leaves its buffer to the running one.*)
Message(messages) ==
    /\ running = NoCall
    /\ ~inClose
    /\ ~closed
    /\ Len(wire) < MaxWire
    /\ wire' = Append(wire, messages)
    /\ offset' = Append(offset, 0)
    /\ inMessages' = inMessages \cup {Len(wire) + 1}
    /\ \/ /\ inMessages # {}
          /\ UNCHANGED loopVars
       \/ /\ inMessages = {}
          /\ \E c \in Calls :
                /\ c = FreeCall
                /\ pc[c] = "idle"
                /\ pc' = [pc EXCEPT ![c] = "top"]
                /\ running' = c
                /\ UNCHANGED messagesToProcess
    /\ UNCHANGED <<closeVars, wlObjects, outVars>>

Running(c, at) ==
    /\ running = c
    /\ pc[c] = at
    /\ ~inClose

Goto(c, at) ==
    /\ pc' = [pc EXCEPT ![c] = at]
    /\ UNCHANGED <<messagesToProcess, running>>

(* The promise of message() settles.                                       *)
Settle(c) ==
    /\ pc' = [pc EXCEPT ![c] = "idle"]
    /\ messagesToProcess' = [messagesToProcess EXCEPT ![c] = {}]
    /\ running' = NoCall

(* Top of the outer while: flush, then take a snapshot of the queue, or    *)
(* leave the loop when the queue is empty.                                 *)
LoopTop(c) ==
    /\ Running(c, "top")
    /\ \/ /\ flush
          /\ inMessages # {}
          /\ pc' = [pc EXCEPT ![c] = "dispatch"]
          /\ messagesToProcess' = [messagesToProcess EXCEPT ![c] = inMessages]
          /\ UNCHANGED running
       \/ /\ flush
          /\ inMessages = {}
          /\ Settle(c)
       \/ /\ flushThrows
          /\ Settle(c)
    /\ UNCHANGED <<closeVars, wlObjects, inVars>>

(* The buffers of the snapshot that still hold unread messages.            *)
Unread(c) == {b \in messagesToProcess[c] : offset[b] < wire[b]}

(* Faulty variant of the loop over the snapshot: newest buffer first.      *)
NextMessageNewest(c, b) ==
    /\ b \in Unread(c)
    /\ \A d \in Unread(c) : d <= b

(* Buffers are read oldest first, each to its end.                         *)
NextMessage(c, b) ==
    /\ b \in Unread(c)
    /\ \A d \in Unread(c) : b <= d

(* A message that cannot be dispatched closes the connection and rejects   *)
(* the promise of message().                                               *)
RejectMessage(c) ==
    /\ Running(c, "dispatch")
    /\ \E b \in Unread(c), m \in Msg :
        /\ NextMessage(c, b)
        /\ \/ /\ m.form = "tooLarge" \/ m.id \notin wlObjects
              /\ UNCHANGED offset
           \/ /\ m.form = "badOpcode" /\ m.id \in wlObjects
              /\ offset' = [offset EXCEPT ![b] = @ + 1]
    /\ close
    /\ Settle(c)
    /\ UNCHANGED <<wlObjects, outVars, wire, inMessages>>

(* A message that can be dispatched is handed to its object's handler.     *)
CallHandler(c) ==
    /\ Running(c, "dispatch")
    /\ \E b \in Unread(c), m \in Msg :
        /\ NextMessage(c, b)
        /\ m.form = "wellFormed"
        /\ m.id \in wlObjects
        /\ offset' = [offset EXCEPT ![b] = @ + 1]
    /\ Goto(c, "handler")
    /\ UNCHANGED <<closeVars, wlObjects, outVars, wire, inMessages>>

(* Faulty variant of the end of a pass: the whole queue is emptied.        *)
BatchDoneDropsQueue(c) ==
    /\ Running(c, "dispatch")
    /\ Unread(c) = {}
    /\ flush
    /\ inMessages' = {}
    /\ pc' = [pc EXCEPT ![c] = "top"]
    /\ messagesToProcess' = [messagesToProcess EXCEPT ![c] = {}]
    /\ UNCHANGED running
    /\ UNCHANGED <<closeVars, wlObjects, wire, offset>>

(* The snapshot is processed: flush and drop it from the queue, keeping    *)
(* the buffers that arrived meanwhile.                                     *)
BatchDone(c) ==
    /\ Running(c, "dispatch")
    /\ Unread(c) = {}
    /\ \/ /\ flush
          /\ inMessages' = inMessages \ messagesToProcess[c]
          /\ pc' = [pc EXCEPT ![c] = "top"]
          /\ messagesToProcess' = [messagesToProcess EXCEPT ![c] = {}]
          /\ UNCHANGED running
       \/ /\ flushThrows
          /\ UNCHANGED inMessages
          /\ Settle(c)
    /\ UNCHANGED <<closeVars, wlObjects, wire, offset>>

(* The handler is done, at once or after its promise resolved. If it was   *)
(* closed meanwhile, message() returns and leaves the queue as it is.      *)
HandlerReturn(c) ==
    /\ Running(c, "handler")
    /\ IF closed THEN Settle(c) ELSE Goto(c, "dispatch")
    /\ UNCHANGED <<closeVars, wlObjects, outVars, inVars>>

HandlerAwait(c) ==
    /\ Running(c, "handler")
    /\ pc' = [pc EXCEPT ![c] = "await"]
    /\ running' = NoCall
    /\ UNCHANGED <<messagesToProcess, closeVars, wlObjects, outVars, inVars>>

HandlerResume(c) ==
    /\ running = NoCall
    /\ ~inClose
    /\ pc[c] = "await"
    /\ pc' = [pc EXCEPT ![c] = "handler"]
    /\ running' = c
    /\ UNCHANGED <<messagesToProcess, closeVars, wlObjects, outVars, inVars>>

(* Faulty variant of the catch block: rethrow without close().             *)
HandlerThrowKeepsOpen(c) ==
    /\ Running(c, "handler")
    /\ Settle(c)
    /\ UNCHANGED <<closeVars, wlObjects, outVars, inVars>>

(* The handler throws or its promise rejects: close and reject.            *)
HandlerThrow(c) ==
    /\ Running(c, "handler")
    /\ close
    /\ Settle(c)
    /\ UNCHANGED <<wlObjects, outVars, inVars>>

-----------------------------------------------------------------------------
(* Code outside the Connection runs between tasks, in a handler, or in a   *)
(* destroy listener called by close().                                     *)
UserCode ==
    \/ inClose
    \/ running = NoCall
    \/ running # NoCall /\ pc[running] = "handler"

(* marshallMsg() and onSend().                                             *)
ApiSend ==
    /\ UserCode
    /\ ~closed
    /\ marshalled < MaxSend
    /\ marshalled' = marshalled + 1
    /\ outMessages' = Append(outMessages, marshalled + 1)
    /\ UNCHANGED <<closeVars, wlObjects, onFlush, sent, inVars, loopVars>>

ApiFlush ==
    /\ UserCode
    /\ flush
    /\ UNCHANGED <<closeVars, wlObjects, inVars, loopVars>>

ApiSetOnFlush ==
    /\ UserCode
    /\ onFlush' = TRUE
    /\ UNCHANGED <<closeVars, wlObjects, outMessages, sent, marshalled, inVars, loopVars>>

(* Faulty variant of registerWlObject(): it ignores closed.                *)
ApiRegisterWhenClosed(id) ==
    /\ UserCode
    /\ wlObjects' = wlObjects \cup {id}
    /\ late' = IF inClose /\ ~closed THEN late \cup {id} ELSE late
    /\ UNCHANGED <<closed, closing, outVars, inVars, loopVars>>

(* registerWlObject(): an id in use throws in the caller.                  *)
ApiRegister(id) ==
    /\ UserCode
    /\ wlObjects' = IF closed THEN wlObjects ELSE wlObjects \cup {id}
    /\ late' = IF inClose /\ ~closed THEN late \cup {id} ELSE late
    /\ UNCHANGED <<closed, closing, outVars, inVars, loopVars>>

(* unregisterWlObject() by the destroy() of an object, outside of close(). *)
ApiUnregister(id) ==
    /\ UserCode
    /\ unregisterWlObject(id)
    /\ UNCHANGED <<closeVars, outVars, inVars, loopVars>>

(* close() called by the application, by a handler or by a destroy         *)
(* listener.                                                               *)
ApiClose ==
    /\ UserCode
    /\ close
    /\ UNCHANGED <<wlObjects, outVars, inVars, loopVars>>

-----------------------------------------------------------------------------
Loop(c) ==
    \/ LoopTop(c)
    \/ RejectMessage(c)
    \/ CallHandler(c)
    \/ BatchDone(c)

Handler(c) ==
    \/ HandlerReturn(c)
    \/ HandlerAwait(c)
    \/ HandlerResume(c)
    \/ HandlerThrow(c)

Api ==
    \/ ApiSend
    \/ ApiFlush
    \/ ApiSetOnFlush
    \/ \E id \in Ids : ApiRegister(id) \/ ApiUnregister(id)
    \/ ApiClose

Next ==
    \/ \E messages \in 1 .. MaxBatch : Message(messages)
    \/ \E c \in Calls : Loop(c) \/ Handler(c)
    \/ DestroyNext
    \/ CloseFinish
    \/ ListenerThrows
    \/ Api

Spec == Init /\ [][Next]_vars

(* The runtime keeps running the loop, and the promise of every handler    *)
(* settles: an awaiting handler is resumed and does not await for ever,    *)
(* however often other code closes the connection in vain.                 *)
(* Destroy listeners return: every close() gets on with its objects, though *)
(* listeners may call close() in turn, again and again.                    *)
Fairness ==
    /\ WF_vars(\E c \in Calls : Loop(c))
    /\ SF_vars(\E c \in Calls : HandlerResume(c))
    /\ SF_vars(\E c \in Calls : HandlerReturn(c) \/ HandlerThrow(c))
    /\ \A depth \in 1 .. MaxClose :
        SF_vars(Len(closing) = depth /\ (DestroyNext \/ CloseFinish))

FairSpec == Spec /\ Fairness

-----------------------------------------------------------------------------
(* At most one call of message() is past its queueing step, so no two      *)
(* handlers of a connection are ever in progress together (the comment at  *)
(* the early return of message()).                                         *)
OneLoop ==
    \A c, d \in Calls : pc[c] # "idle" /\ pc[d] # "idle" => c = d

(* Messages are dispatched one by one in the order received: a message is  *)
(* taken only on an open connection, when every message before it, in its  *)
(* buffer and in earlier buffers, has been taken and no handler is pending.*)
DispatchStep ==
    \A b \in DOMAIN offset : offset'[b] # offset[b] =>
        /\ ~closed
        /\ offset'[b] = offset[b] + 1
        /\ offset[b] < wire[b]
        /\ \A d \in DOMAIN offset : d < b => offset[d] = wire[d]
        /\ \A c \in Calls : pc[c] \notin {"handler", "await"}
DispatchInOrder == [][DispatchStep]_vars

(* What onFlush received followed by what is still queued is the stream of *)
(* marshalled messages without gap, repetition or reordering, however      *)
(* flushes of the loop, of handlers and of the application interleave.     *)
FlushContiguous ==
    LET stream == sent \o outMessages
    IN  \A i \in DOMAIN stream : stream[i] = marshalled - Len(stream) + i

(* No object outlives close(): neither one that was registered before, nor *)
(* one that a handler registers which was still awaiting, although objects *)
(* destroy each other, throw or close again meanwhile. Only what destroy   *)
(* listeners register while close() runs is in no snapshot of it and is    *)
(* left in the closed connection.                                          *)
NoneOutlivesClose == closed => wlObjects \subseteq late

(* A queued buffer of an open connection is in the care of a call: "more   *)
(* than one message in queue means the message loop is in await"           *)
(* (Connection.ts:538).                                                    *)
QueueHasLoop ==
    inMessages # {} /\ ~closed /\ ~inClose => \E c \in Calls : pc[c] # "idle"

(* Only two things leave a queue without a loop: an exception of onFlush,  *)
(* which is called outside of the try block of message() and then keeps    *)
(* the queue of marshalled messages, and an exception of a destroy         *)
(* listener that ends the outermost close(), which the loop called before  *)
(* it gave up, and leaves the connection open.                             *)
FlushFailed == onFlush /\ outMessages # <<>> /\ outMessages' = outMessages /\ pc' # pc
CloseFailed == inClose /\ ~inClose' /\ ~closed'
LoopKeptStep == QueueHasLoop /\ ~QueueHasLoop' => FlushFailed \/ CloseFailed
LoopKept == [][LoopKeptStep]_vars

(* Every buffer that message() accepts is read to its end, unless the      *)
(* connection closes or one of the two exceptions ended the loop: since    *)
(* MaxWire bounds the arrivals, a moment comes when all are.               *)
AllRead == \A b \in DOMAIN wire : offset[b] = wire[b]
EveryBufferRead == ~AllRead ~> closed \/ ~QueueHasLoop \/ AllRead

-----------------------------------------------------------------------------
(* The strengthening that makes the safety properties inductive.           *)
(* A call owns the thread exactly while it is in synchronous code; one     *)
(* that has taken a snapshot keeps it in the queue, which is why another   *)
(* call finds the queue non-empty; the loop's own code runs only while the *)
(* connection is open.                                                     *)
LoopInv ==
    /\ OneLoop
    /\ running # NoCall => pc[running] \in {"top", "dispatch", "handler"}
    /\ \A c \in Calls :
        /\ pc[c] \in {"top", "dispatch", "handler"} => running = c
        /\ pc[c] \in {"dispatch", "handler", "await"} =>
              messagesToProcess[c] # {} /\ messagesToProcess[c] \subseteq inMessages
        /\ pc[c] \in {"top", "dispatch"} => ~closed /\ ~inClose

(* What left the queue was read to its end, and a snapshot holds the       *)
(* oldest buffers of the queue.                                            *)
OrderInv ==
    /\ \A b \in 1 .. Len(wire) :
        /\ offset[b] <= wire[b]
        /\ b \notin inMessages => offset[b] = wire[b]
    /\ \A c \in Calls : \A b \in messagesToProcess[c] : \A d \in 1 .. Len(wire) :
        d < b => d \in messagesToProcess[c] \/ d \notin inMessages

(* What is registered while close() runs is in the snapshot of each call   *)
(* of it, or is late.                                                      *)
CloseInv ==
    /\ NoneOutlivesClose
    /\ \A depth \in 1 .. Len(closing) : wlObjects \subseteq closing[depth] \cup late

FlushInv ==
    /\ FlushContiguous
    /\ ~onFlush => sent = <<>>

IInv == TypeOK /\ LoopInv /\ OrderInv /\ CloseInv /\ FlushInv
=============================================================================
