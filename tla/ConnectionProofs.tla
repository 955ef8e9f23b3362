-------------------------- MODULE ConnectionProofs --------------------------
(***************************************************************************)
(* Proofs about Connection for any set of ids, any number of calls of      *)
(* message() and any number of buffers and messages.                       *)
(***************************************************************************)
EXTENDS Connection, TLAPS, SequenceTheorems

(* The stack of the calls of close(): its top, and what is left when the   *)
(* innermost call ends.                                                    *)
LEMMA ClosingStack ==
    ObjectsOK /\ inClose =>
        /\ ToDestroy \subseteq Ids
        /\ Returned \in Seq(SUBSET Ids)
        /\ Len(closing) \in Nat \ {0}
        /\ Len(Returned) = Len(closing) - 1
        /\ \A depth \in 1 .. Len(Returned) : Returned[depth] = closing[depth]
<1> SUFFICES ASSUME ObjectsOK, inClose
             PROVE  /\ ToDestroy \subseteq Ids
                    /\ Returned \in Seq(SUBSET Ids)
                    /\ Len(closing) \in Nat \ {0}
                    /\ Len(Returned) = Len(closing) - 1
                    /\ \A depth \in 1 .. Len(Returned) : Returned[depth] = closing[depth]
  OBVIOUS
<1> DEFINE S == SUBSET Ids
<1>1. closing \in Seq(S) /\ closing # <<>>
  BY DEF ObjectsOK, inClose
<1> HIDE DEF S
<1>2. Len(closing) \in Nat \ {0} /\ closing[Len(closing)] \in S
  BY <1>1
<1>3. /\ Returned \in Seq(S)
      /\ Len(Returned) = Len(closing) - 1
      /\ \A depth \in 1 .. Len(Returned) : Returned[depth] = closing[depth]
  <2> DEFINE n == Len(closing) - 1
  <2>1. n \in Nat /\ \A i \in 1 .. n : closing[i] \in S
    BY <1>1, <1>2
  <2>2. /\ Returned \in Seq(S)
        /\ Len(Returned) = IF 1 <= n THEN n - 1 + 1 ELSE 0
        /\ \A i \in 1 .. n - 1 + 1 : Returned[i] = closing[1 + i - 1]
    <3> HIDE DEF n
    <3>1. Returned = SubSeq(closing, 1, n)
      BY DEF Returned, n
    <3>2. 1 \in Int /\ n \in Int
      BY <2>1
    <3>3. QED BY <2>1, <3>1, <3>2, SubSeqProperties, SMTT(30)
  <2> HIDE DEF n
  <2>3. Len(Returned) = n /\ \A i \in 1 .. n : Returned[i] = closing[i]
    BY <2>1, <2>2
  <2>4. QED BY <2>2, <2>3 DEF n
<1> QED BY <1>2, <1>3 DEF S, ToDestroy

(* close() on an open connection closes it at once or is on the stack.     *)
LEMMA CloseBegins == ObjectsOK /\ close => closed' \/ inClose'
<1> SUFFICES ASSUME ObjectsOK, close PROVE closed' \/ inClose'
  OBVIOUS
<1>1. Append(closing, wlObjects) # <<>>
  <2> DEFINE S == SUBSET Ids
  <2>1. closing \in Seq(S) /\ wlObjects \in S
    BY DEF ObjectsOK
  <2> HIDE DEF S
  <2>2. QED BY <2>1, AppendProperties
<1>2. QED BY <1>1 DEF close, closeVars, inClose

(* Object table and close() flags stay well typed.                         *)
LEMMA ObjectsStep == TypeOK /\ [Next]_vars => ObjectsOK'
<1> SUFFICES ASSUME TypeOK, [Next]_vars PROVE ObjectsOK'
  OBVIOUS
<1> USE DEF TypeOK, ObjectsOK, closeVars
<1>1. ASSUME NEW messages \in 1 .. MaxBatch, Message(messages) PROVE ObjectsOK'
  BY <1>1 DEF Message
<1>0. ASSUME close, UNCHANGED wlObjects PROVE ObjectsOK'
  <2>1. \A x \in SUBSET Ids : Append(closing, x) \in Seq(SUBSET Ids)
    OBVIOUS
  <2>2. closing' \in Seq(SUBSET Ids)
    BY <1>0, <2>1 DEF close
  <2>3. closed' \in BOOLEAN /\ UNCHANGED late
    BY <1>0 DEF close
  <2>4. QED BY <1>0, <2>2, <2>3
<1>2. ASSUME NEW c \in Calls, Loop(c) PROVE ObjectsOK'
  BY <1>0, <1>2 DEF Loop, LoopTop, RejectMessage, CallHandler, BatchDone
<1>3. ASSUME NEW c \in Calls, Handler(c) PROVE ObjectsOK'
  BY <1>0, <1>3 DEF Handler, HandlerReturn, HandlerAwait, HandlerResume, HandlerThrow
<1>4. ASSUME DestroyNext \/ CloseFinish \/ ListenerThrows PROVE ObjectsOK'
  <2>1. inClose
    BY <1>4 DEF DestroyNext, CloseFinish, ListenerThrows
  <2>2. \A id \in Ids : Append(Returned, ToDestroy \ {id}) \in Seq(SUBSET Ids)
    BY <2>1, ClosingStack
  <2>3. closing' \in Seq(SUBSET Ids)
    BY <1>4, <2>1, <2>2, ClosingStack DEF DestroyNext, CloseFinish, ListenerThrows
  <2>4. closed' \in BOOLEAN /\ wlObjects' \subseteq Ids /\ late' \subseteq Ids
    BY <1>4 DEF DestroyNext, CloseFinish, ListenerThrows, unregisterWlObject
  <2>5. QED BY <2>3, <2>4
<1>5. ASSUME Api PROVE ObjectsOK'
  BY <1>0, <1>5 DEF Api, ApiSend, ApiFlush, ApiSetOnFlush, ApiRegister, ApiUnregister, ApiClose,
                    unregisterWlObject
<1>6. ASSUME UNCHANGED vars PROVE ObjectsOK'
  BY <1>6 DEF vars
<1> QED BY <1>1, <1>2, <1>3, <1>4, <1>5, <1>6 DEF Next

(* What a flush does to the outgoing queue is well typed.                  *)
LEMMA FlushType == OutOK /\ (flush \/ flushThrows) => OutOK'
<1> SUFFICES ASSUME OutOK, flush \/ flushThrows PROVE OutOK'
  OBVIOUS
<1>1. sent \o outMessages \in Seq(Nat) /\ <<>> \in Seq(Nat)
  BY DEF OutOK
<1>2. CASE flush
  <2>1. sent' \in {sent, sent \o outMessages} /\ outMessages' \in {outMessages, <<>>}
        /\ UNCHANGED <<onFlush, marshalled>>
    BY <1>2 DEF flush
  <2>2. QED BY <1>1, <2>1 DEF OutOK
<1>3. CASE flushThrows
  BY <1>3 DEF OutOK, flushThrows, outVars
<1> QED BY <1>2, <1>3

(* The outgoing queue stays well typed.                                    *)
LEMMA OutStep == TypeOK /\ [Next]_vars => OutOK'
<1> SUFFICES ASSUME TypeOK, [Next]_vars PROVE OutOK'
  OBVIOUS
<1>0. OutOK BY DEF TypeOK
<1>1. ASSUME UNCHANGED outVars PROVE OutOK'
  BY <1>0, <1>1 DEF OutOK, outVars
<1>2. ASSUME NEW messages \in 1 .. MaxBatch, Message(messages) PROVE OutOK'
  BY <1>1, <1>2 DEF Message
<1>3. ASSUME NEW c \in Calls, Loop(c) PROVE OutOK'
  BY <1>0, <1>1, <1>3, FlushType DEF Loop, LoopTop, RejectMessage, CallHandler, BatchDone
<1>4. ASSUME NEW c \in Calls, Handler(c) PROVE OutOK'
  BY <1>1, <1>4 DEF Handler, HandlerReturn, HandlerAwait, HandlerResume, HandlerThrow
<1>5. ASSUME DestroyNext \/ CloseFinish \/ ListenerThrows PROVE OutOK'
  BY <1>1, <1>5 DEF DestroyNext, CloseFinish, ListenerThrows
<1>6. ASSUME ApiSend PROVE OutOK'
  BY <1>0, <1>6 DEF ApiSend, OutOK
<1>7. ASSUME ApiSetOnFlush PROVE OutOK'
  BY <1>0, <1>7 DEF ApiSetOnFlush, OutOK
<1>8. ASSUME ApiFlush PROVE OutOK'
  BY <1>0, <1>8, FlushType DEF ApiFlush
<1>9. ASSUME NEW id \in Ids, ApiRegister(id) \/ ApiUnregister(id) \/ ApiClose PROVE OutOK'
  BY <1>1, <1>9 DEF ApiRegister, ApiUnregister, ApiClose
<1>10. ASSUME ApiClose PROVE OutOK'
  BY <1>1, <1>10 DEF ApiClose
<1>11. ASSUME UNCHANGED vars PROVE OutOK'
  BY <1>1, <1>11 DEF vars, outVars
<1> QED BY <1>2, <1>3, <1>4, <1>5, <1>6, <1>7, <1>8, <1>9, <1>10, <1>11 DEF Next, Api

(* The received buffers and the queue of them stay well typed.             *)
LEMMA InStep == TypeOK /\ [Next]_vars => InOK'
<1> SUFFICES ASSUME TypeOK, [Next]_vars PROVE InOK'
  OBVIOUS
<1>0. InOK BY DEF TypeOK
<1>1. ASSUME UNCHANGED inVars PROVE InOK'
  BY <1>0, <1>1 DEF InOK, inVars
<1>2. ASSUME NEW messages \in 1 .. MaxBatch, Message(messages) PROVE InOK'
  <2>1. wire' = Append(wire, messages) /\ offset' = Append(offset, 0)
        /\ inMessages' = inMessages \cup {Len(wire) + 1} /\ messages \in Nat
    BY <1>2, ConnectionAssumption DEF Message
  <2>2. wire' \in Seq(Nat) /\ Len(wire') = Len(wire) + 1
    BY <1>0, <2>1 DEF InOK
  <2>3. offset' \in Seq(Nat) /\ Len(offset') = Len(offset) + 1
    BY <1>0, <2>1 DEF InOK
  <2>4. inMessages' \subseteq 1 .. Len(wire')
    <3>1. Len(wire) \in Nat /\ inMessages \subseteq 1 .. Len(wire)
      BY <1>0 DEF InOK
    <3>2. Len(wire') = Len(wire) + 1 /\ inMessages' = inMessages \cup {Len(wire) + 1}
      BY <2>1, <2>2
    <3>3. ASSUME NEW n \in Nat PROVE 1 .. n \subseteq 1 .. (n + 1) /\ n + 1 \in 1 .. (n + 1)
      OBVIOUS
    <3>4. QED BY <3>1, <3>2, <3>3
  <2>5. QED BY <1>0, <2>2, <2>3, <2>4 DEF InOK
<1>3. ASSUME NEW b \in 1 .. Len(wire), offset' = [offset EXCEPT ![b] = @ + 1],
             UNCHANGED <<wire, inMessages>>
      PROVE InOK'
  BY <1>0, <1>3 DEF InOK
<1>4. ASSUME NEW c \in Calls, RejectMessage(c) \/ CallHandler(c) PROVE InOK'
  <2>1. UNCHANGED <<wire, inMessages>>
    BY <1>4 DEF RejectMessage, CallHandler
  <2>2. UNCHANGED offset \/ \E b \in Unread(c) : offset' = [offset EXCEPT ![b] = @ + 1]
    BY <1>4 DEF RejectMessage, CallHandler
  <2>3. Unread(c) \subseteq 1 .. Len(wire)
    BY DEF Unread, TypeOK, LoopOK
  <2>4. QED BY <1>1, <1>3, <2>1, <2>2, <2>3 DEF inVars
<1>5. ASSUME NEW c \in Calls, LoopTop(c) PROVE InOK'
  BY <1>1, <1>5 DEF LoopTop
<1>6. ASSUME NEW c \in Calls, BatchDone(c) PROVE InOK'
  <2>1. UNCHANGED <<wire, offset>> /\ inMessages' \subseteq inMessages
    BY <1>6 DEF BatchDone
  <2>2. QED BY <1>0, <2>1 DEF InOK
<1>7. ASSUME NEW c \in Calls, Handler(c) PROVE InOK'
  BY <1>1, <1>7 DEF Handler, HandlerReturn, HandlerAwait, HandlerResume, HandlerThrow
<1>8. ASSUME DestroyNext \/ CloseFinish \/ ListenerThrows PROVE InOK'
  BY <1>1, <1>8 DEF DestroyNext, CloseFinish, ListenerThrows
<1>9. ASSUME Api PROVE InOK'
  BY <1>1, <1>9 DEF Api, ApiSend, ApiFlush, ApiSetOnFlush, ApiRegister, ApiUnregister, ApiClose
<1>10. ASSUME UNCHANGED vars PROVE InOK'
  BY <1>1, <1>10 DEF vars, inVars
<1> QED BY <1>2, <1>4, <1>5, <1>6, <1>7, <1>8, <1>9, <1>10 DEF Next, Loop

(* The calls of message() stay well typed.                                 *)
LEMMA LoopStep == TypeOK /\ [Next]_vars => LoopOK'
<1> SUFFICES ASSUME TypeOK, [Next]_vars PROVE LoopOK'
  OBVIOUS
<1> USE DEF TypeOK, LoopOK, PC
<1>1. ASSUME UNCHANGED <<loopVars, wire>> PROVE LoopOK'
  BY <1>1 DEF loopVars
<1>2. ASSUME NEW messages \in 1 .. MaxBatch, Message(messages) PROVE LoopOK'
  <2>1. Len(wire') = Len(wire) + 1 /\ Len(wire) \in Nat
    BY <1>2 DEF Message, InOK
  <2>2. messagesToProcess' = messagesToProcess /\ pc' \in [Calls -> PC]
        /\ running' \in Calls \cup {NoCall}
    BY <1>2 DEF Message, loopVars
  <2>3. 1 .. Len(wire) \subseteq 1 .. Len(wire')
    BY <2>1
  <2>4. QED BY <2>2, <2>3
<1>3. ASSUME NEW c \in Calls, LoopTop(c) PROVE LoopOK'
  BY <1>3 DEF LoopTop, Settle, InOK, inVars
<1>4. ASSUME NEW c \in Calls, RejectMessage(c) \/ CallHandler(c) PROVE LoopOK'
  BY <1>4 DEF RejectMessage, CallHandler, Settle, Goto
<1>5. ASSUME NEW c \in Calls, BatchDone(c) PROVE LoopOK'
  BY <1>5 DEF BatchDone, Settle
<1>6. ASSUME NEW c \in Calls, Handler(c) PROVE LoopOK'
  BY <1>6 DEF Handler, HandlerReturn, HandlerAwait, HandlerResume, HandlerThrow, Settle, Goto, inVars
<1>7. ASSUME DestroyNext \/ CloseFinish \/ ListenerThrows PROVE LoopOK'
  BY <1>1, <1>7 DEF DestroyNext, CloseFinish, ListenerThrows, inVars
<1>8. ASSUME Api PROVE LoopOK'
  BY <1>1, <1>8 DEF Api, ApiSend, ApiFlush, ApiSetOnFlush, ApiRegister, ApiUnregister, ApiClose, inVars
<1>9. ASSUME UNCHANGED vars PROVE LoopOK'
  BY <1>1, <1>9 DEF vars, loopVars
<1> QED BY <1>2, <1>3, <1>4, <1>5, <1>6, <1>7, <1>8, <1>9 DEF Next, Loop

(* Type correctness of the message loop, its queues and its object table,  *)
(* whatever handlers, application and peer do.                             *)
THEOREM TypeCorrect == Spec => []TypeOK
<1>1. Init => TypeOK
  <2> SUFFICES ASSUME Init PROVE TypeOK
    OBVIOUS
  <2>1. ObjectsOK
    <3>1. <<>> \in Seq(SUBSET Ids) OBVIOUS
    <3>2. QED BY <3>1, ConnectionAssumption DEF Init, ObjectsOK
  <2>2. OutOK
    <3>1. <<>> \in Seq(Nat) OBVIOUS
    <3>2. QED BY <3>1 DEF Init, OutOK
  <2>3. InOK
    <3>1. wire \in Seq(Nat) /\ Len(wire) = 0 BY DEF Init
    <3>2. offset \in Seq(Nat) /\ Len(offset) = 0 BY DEF Init
    <3>3. QED BY <3>1, <3>2 DEF Init, InOK
  <2>4. LoopOK BY DEF Init, LoopOK, PC
  <2>5. QED BY <2>1, <2>2, <2>3, <2>4 DEF TypeOK
<1>2. TypeOK /\ [Next]_vars => TypeOK'
  BY ObjectsStep, OutStep, InStep, LoopStep DEF TypeOK
<1>3. QED BY <1>1, <1>2, PTL DEF Spec

-----------------------------------------------------------------------------
(* The loop discipline is kept by every step: Message starts a loop only   *)
(* when the queue is empty, hence when no call awaits.                     *)
LEMMA LoopInvStep == TypeOK /\ LoopInv /\ [Next]_vars => LoopInv'
<1> SUFFICES ASSUME TypeOK, LoopInv, [Next]_vars PROVE LoopInv'
  OBVIOUS
<1> USE ConnectionAssumption DEF LoopInv, OneLoop, inClose
<1>0. LoopOK /\ ObjectsOK
  BY DEF TypeOK
<1>1. ASSUME NEW messages \in 1 .. MaxBatch, Message(messages) PROVE LoopInv'
  <2>1. CASE inMessages # {}
    BY <1>1, <2>1 DEF Message, closeVars, loopVars
  <2>2. CASE inMessages = {}
    <3>1. PICK c \in Calls : /\ pc[c] = "idle"
                             /\ pc' = [pc EXCEPT ![c] = "top"]
                             /\ running' = c
      BY <1>1, <2>2 DEF Message
    <3>2. \A d \in Calls : pc[d] = "idle"
      BY <1>0, <1>1, <2>2 DEF Message, LoopOK, PC
    <3>3. pc' \in [Calls -> PC] /\ \A d \in Calls : pc'[d] = IF d = c THEN "top" ELSE "idle"
      BY <1>0, <3>1, <3>2 DEF LoopOK, PC
    <3>4. ~closed /\ ~inClose /\ UNCHANGED <<closed, closing>>
      BY <1>1 DEF Message, closeVars
    <3>5. QED BY <3>1, <3>3, <3>4
  <2> QED BY <2>1, <2>2
<1>2. ASSUME NEW c \in Calls, LoopTop(c) PROVE LoopInv'
  BY <1>0, <1>2 DEF LoopTop, Running, Settle, closeVars, inVars, LoopOK
<1>3. ASSUME NEW c \in Calls, RejectMessage(c) PROVE LoopInv'
  BY <1>0, <1>3 DEF RejectMessage, Running, Settle, LoopOK
<1>4. ASSUME NEW c \in Calls, CallHandler(c) PROVE LoopInv'
  BY <1>0, <1>4 DEF CallHandler, Running, Goto, closeVars, LoopOK
<1>5. ASSUME NEW c \in Calls, BatchDone(c) PROVE LoopInv'
  BY <1>0, <1>5 DEF BatchDone, Running, Settle, closeVars, LoopOK
<1>6. ASSUME NEW c \in Calls, HandlerReturn(c) PROVE LoopInv'
  BY <1>0, <1>6 DEF HandlerReturn, Running, Settle, Goto, closeVars, inVars, LoopOK
<1>7. ASSUME NEW c \in Calls, HandlerAwait(c) PROVE LoopInv'
  BY <1>0, <1>7 DEF HandlerAwait, Running, closeVars, inVars, LoopOK
<1>8. ASSUME NEW c \in Calls, HandlerResume(c) PROVE LoopInv'
  BY <1>0, <1>8 DEF HandlerResume, closeVars, inVars, LoopOK, PC
<1>9. ASSUME NEW c \in Calls, HandlerThrow(c) PROVE LoopInv'
  BY <1>0, <1>9 DEF HandlerThrow, Running, Settle, inVars, LoopOK
<1>10. ASSUME DestroyNext \/ CloseFinish \/ ListenerThrows PROVE LoopInv'
  <2>1. inClose /\ UNCHANGED <<inVars, loopVars>>
    BY <1>10 DEF DestroyNext, CloseFinish, ListenerThrows
  <2>2. \A c \in Calls : pc[c] \notin {"top", "dispatch"}
    BY <2>1
  <2>3. QED BY <2>1, <2>2 DEF inVars, loopVars
<1>12. ASSUME UNCHANGED <<closed, closing, inVars, loopVars>> PROVE LoopInv'
  BY <1>12 DEF inVars, loopVars
<1>13. ASSUME ApiSend \/ ApiFlush \/ ApiSetOnFlush PROVE LoopInv'
  BY <1>12, <1>13 DEF ApiSend, ApiFlush, ApiSetOnFlush, closeVars
<1>14. ASSUME NEW id \in Ids, ApiRegister(id) \/ ApiUnregister(id) PROVE LoopInv'
  BY <1>12, <1>14 DEF ApiRegister, ApiUnregister, closeVars
<1>15. ASSUME ApiClose PROVE LoopInv'
  <2>1. \A c \in Calls : pc[c] \notin {"top", "dispatch"}
    BY <1>0, <1>15 DEF ApiClose, UserCode, LoopOK
  <2>2. QED BY <1>15, <2>1 DEF ApiClose, inVars, loopVars
<1>16. ASSUME UNCHANGED vars PROVE LoopInv'
  BY <1>12, <1>16 DEF vars, inVars, loopVars
<1> QED
  BY <1>1, <1>2, <1>3, <1>4, <1>5, <1>6, <1>7, <1>8, <1>9, <1>10, <1>13, <1>14, <1>15, <1>16
     DEF Next, Loop, Handler, Api

(* The reading order is kept: a message is taken from the oldest unread    *)
(* buffer of the snapshot, and only fully read buffers leave the queue.    *)
LEMMA OrderInvStep == TypeOK /\ LoopInv /\ OrderInv /\ [Next]_vars => OrderInv'
<1> SUFFICES ASSUME TypeOK, LoopInv, OrderInv, [Next]_vars PROVE OrderInv'
  OBVIOUS
<1>0. InOK /\ LoopOK
  BY DEF TypeOK
<1>1. ASSUME UNCHANGED <<inVars, messagesToProcess>> PROVE OrderInv'
  BY <1>1 DEF OrderInv, inVars
<1>2. ASSUME UNCHANGED inVars,
             \A c \in Calls : messagesToProcess'[c] \in {messagesToProcess[c], inMessages, {}}
      PROVE OrderInv'
  BY <1>2 DEF OrderInv, inVars
<1>3. ASSUME NEW messages \in 1 .. MaxBatch, Message(messages) PROVE OrderInv'
  <2>1. /\ wire' = Append(wire, messages)
        /\ offset' = Append(offset, 0)
        /\ inMessages' = inMessages \cup {Len(wire) + 1}
        /\ UNCHANGED messagesToProcess
    BY <1>3 DEF Message, loopVars
  <2>2. messages \in Nat
    BY ConnectionAssumption
  <2>3. Len(wire) \in Nat /\ Len(wire') = Len(wire) + 1 /\ Len(offset) = Len(wire)
    BY <1>0, <2>1, <2>2 DEF InOK
  <2>4. \A b \in 1 .. Len(wire) : wire'[b] = wire[b] /\ offset'[b] = offset[b]
    BY <1>0, <2>1, <2>2, <2>3 DEF InOK
  <2>5. wire'[Len(wire) + 1] = messages /\ offset'[Len(wire) + 1] = 0
    BY <1>0, <2>1, <2>2, <2>3 DEF InOK
  <2>6. 0 <= messages
    BY <2>2
  <2>7. \A b \in 1 .. Len(wire') : b \in 1 .. Len(wire) \/ b = Len(wire) + 1
    BY <2>3
  <2>8. \A b \in 1 .. Len(wire') :
            /\ offset'[b] <= wire'[b]
            /\ b \notin inMessages' => offset'[b] = wire'[b]
    BY <2>1, <2>4, <2>5, <2>6, <2>7 DEF OrderInv
  <2>9. ASSUME NEW c \in Calls, NEW b \in messagesToProcess'[c], NEW d \in 1 .. Len(wire'), d < b
        PROVE  d \in messagesToProcess'[c] \/ d \notin inMessages'
    <3>1. b \in messagesToProcess[c] /\ b \in 1 .. Len(wire)
      BY <1>0, <2>1, <2>9 DEF LoopOK
    <3>2. d \in 1 .. Len(wire) /\ d # Len(wire) + 1
      BY <2>3, <2>9, <3>1
    <3>3. QED BY <2>1, <2>9, <3>1, <3>2 DEF OrderInv
  <2>10. QED BY <2>8, <2>9 DEF OrderInv
<1>4. ASSUME NEW c \in Calls, RejectMessage(c) \/ CallHandler(c) PROVE OrderInv'
  <2>1. UNCHANGED <<wire, inMessages>>
    BY <1>4 DEF RejectMessage, CallHandler
  <2>2. \A d \in Calls : messagesToProcess'[d] \in {messagesToProcess[d], {}}
    BY <1>0, <1>4 DEF RejectMessage, CallHandler, Settle, Goto, LoopOK
  <2>3. \/ UNCHANGED offset
        \/ \E b \in Unread(c) : Running(c, "dispatch") /\ offset' = [offset EXCEPT ![b] = @ + 1]
    BY <1>4 DEF RejectMessage, CallHandler
  <2>4. CASE UNCHANGED offset
    BY <1>2, <2>1, <2>2, <2>4 DEF inVars
  <2>5. ASSUME NEW b \in Unread(c), Running(c, "dispatch"), offset' = [offset EXCEPT ![b] = @ + 1]
        PROVE  OrderInv'
    <3>1. b \in 1 .. Len(wire) /\ b \in inMessages /\ offset[b] < wire[b]
      BY <1>0, <2>5 DEF Unread, Running, LoopInv, LoopOK
    <3>2. \A d \in 1 .. Len(wire) : offset'[d] = IF d = b THEN offset[d] + 1 ELSE offset[d]
      BY <1>0, <2>5, <3>1 DEF InOK
    <3>3. offset[b] \in Nat /\ wire[b] \in Nat
      BY <1>0, <3>1 DEF InOK
    <3>4. \A d \in 1 .. Len(wire) :
            /\ offset'[d] <= wire[d]
            /\ d \notin inMessages => offset'[d] = wire[d]
      BY <3>1, <3>2, <3>3 DEF OrderInv
    <3>5. QED BY <2>1, <2>2, <3>4 DEF OrderInv
  <2>6. QED BY <2>3, <2>4, <2>5
<1>5. ASSUME NEW c \in Calls, LoopTop(c) PROVE OrderInv'
  <2>1. \A d \in Calls : messagesToProcess'[d] \in {messagesToProcess[d], inMessages, {}}
    BY <1>0, <1>5 DEF LoopTop, Settle, LoopOK
  <2>2. QED BY <1>2, <1>5, <2>1 DEF LoopTop
<1>6. ASSUME NEW c \in Calls, BatchDone(c) PROVE OrderInv'
  <2>1. UNCHANGED <<wire, offset>>
        /\ inMessages' \in {inMessages, inMessages \ messagesToProcess[c]}
        /\ Unread(c) = {}
    BY <1>6 DEF BatchDone
  <2>2. \A d \in Calls : messagesToProcess'[d] \in {messagesToProcess[d], {}}
    BY <1>0, <1>6 DEF BatchDone, Settle, LoopOK
  <2>3. \A b \in messagesToProcess[c] : b \in 1 .. Len(wire) /\ ~(offset[b] < wire[b])
    BY <1>0, <2>1 DEF Unread, LoopOK
  <2>4. \A b \in 1 .. Len(wire) : offset[b] \in Nat /\ wire[b] \in Nat
    BY <1>0 DEF InOK
  <2>5. \A b \in messagesToProcess[c] : offset[b] = wire[b]
    BY <2>3, <2>4 DEF OrderInv
  <2>6. QED BY <2>1, <2>2, <2>5 DEF OrderInv
<1>7. ASSUME NEW c \in Calls, Handler(c) PROVE OrderInv'
  <2>1. UNCHANGED inVars
    BY <1>7 DEF Handler, HandlerReturn, HandlerAwait, HandlerResume, HandlerThrow
  <2>2. \A d \in Calls : messagesToProcess'[d] \in {messagesToProcess[d], {}}
    BY <1>0, <1>7 DEF Handler, HandlerReturn, HandlerAwait, HandlerResume, HandlerThrow, Settle,
                      Goto, LoopOK
  <2>3. QED BY <1>2, <2>1, <2>2
<1>8. ASSUME DestroyNext \/ CloseFinish \/ ListenerThrows PROVE OrderInv'
  BY <1>1, <1>8 DEF DestroyNext, CloseFinish, ListenerThrows, loopVars
<1>9. ASSUME Api PROVE OrderInv'
  BY <1>1, <1>9 DEF Api, ApiSend, ApiFlush, ApiSetOnFlush, ApiRegister, ApiUnregister, ApiClose,
                    loopVars
<1>10. ASSUME UNCHANGED vars PROVE OrderInv'
  BY <1>1, <1>10 DEF vars, inVars
<1> QED BY <1>3, <1>4, <1>5, <1>6, <1>7, <1>8, <1>9, <1>10 DEF Next, Loop

(* What is registered is in every snapshot of close() or late: destroying  *)
(* removes an id from the table with the snapshot, or finds it closed.     *)
LEMMA CloseInvStep == TypeOK /\ CloseInv /\ [Next]_vars => CloseInv'
<1> SUFFICES ASSUME TypeOK, CloseInv, [Next]_vars PROVE CloseInv'
  OBVIOUS
<1> USE DEF CloseInv, NoneOutlivesClose
<1>0. ObjectsOK
  BY DEF TypeOK
<1>1. ASSUME UNCHANGED <<closed, closing>>, wlObjects' \ wlObjects \subseteq late',
             late \subseteq late'
      PROVE  CloseInv'
  BY <1>1
<1>2. ASSUME close, UNCHANGED wlObjects PROVE CloseInv'
  <2>1. CASE closed \/ wlObjects = {}
    BY <1>2, <2>1 DEF close, closeVars
  <2>2. CASE ~closed /\ wlObjects # {}
    <3>1. closing' = Append(closing, wlObjects) /\ UNCHANGED <<closed, late>>
      BY <1>2, <2>2 DEF close
    <3>2. \A depth \in 1 .. Len(closing') :
              \/ closing'[depth] = wlObjects
              \/ depth \in 1 .. Len(closing) /\ closing'[depth] = closing[depth]
      <4> DEFINE S == SUBSET Ids
      <4>1. closing \in Seq(S) /\ wlObjects \in S
        BY <1>0 DEF ObjectsOK
      <4> HIDE DEF S
      <4>2. QED BY <3>1, <4>1
    <3>3. QED BY <1>2, <2>2, <3>1, <3>2
  <2> QED BY <2>1, <2>2
<1>3. ASSUME NEW messages \in 1 .. MaxBatch, Message(messages) PROVE CloseInv'
  BY <1>1, <1>3 DEF Message, closeVars
<1>4. ASSUME NEW c \in Calls, LoopTop(c) \/ CallHandler(c) \/ BatchDone(c) PROVE CloseInv'
  BY <1>1, <1>4 DEF LoopTop, CallHandler, BatchDone, closeVars
<1>5. ASSUME NEW c \in Calls, RejectMessage(c) \/ HandlerThrow(c) PROVE CloseInv'
  BY <1>2, <1>5 DEF RejectMessage, HandlerThrow
<1>6. ASSUME NEW c \in Calls, HandlerReturn(c) \/ HandlerAwait(c) \/ HandlerResume(c) PROVE CloseInv'
  BY <1>1, <1>6 DEF HandlerReturn, HandlerAwait, HandlerResume, closeVars
<1>7. ASSUME DestroyNext PROVE CloseInv'
  <2>1. PICK id \in ToDestroy : closing' = Append(Returned, ToDestroy \ {id}) /\ unregisterWlObject(id)
    BY <1>7 DEF DestroyNext
  <2>2. inClose /\ UNCHANGED <<closed, late>>
    BY <1>7 DEF DestroyNext
  <2>3. /\ Len(closing') = Len(closing) /\ closing'[Len(closing)] = ToDestroy \ {id}
        /\ \A depth \in 1 .. Len(closing) : depth # Len(closing) => closing'[depth] = closing[depth]
    BY <1>0, <2>1, <2>2, ClosingStack
  <2>4. wlObjects' \subseteq wlObjects /\ (closed \/ id \notin wlObjects')
    BY <2>1 DEF unregisterWlObject
  <2>5. ASSUME NEW depth \in 1 .. Len(closing) PROVE wlObjects' \subseteq closing'[depth] \cup late
    BY <2>2, <2>3, <2>4 DEF ToDestroy
  <2>6. QED BY <2>2, <2>3, <2>4, <2>5
<1>8. ASSUME CloseFinish PROVE CloseInv'
  <2>1. inClose /\ ToDestroy = {} /\ closing' = Returned /\ UNCHANGED <<wlObjects, late>>
    BY <1>8 DEF CloseFinish
  <2>2. wlObjects \subseteq late
    BY <1>0, <2>1, ClosingStack DEF ToDestroy
  <2>3. QED BY <2>1, <2>2
<1>9. ASSUME ListenerThrows PROVE CloseInv'
  <2>1. inClose /\ closing' = Returned /\ wlObjects' \subseteq wlObjects /\ UNCHANGED closed
    BY <1>9 DEF ListenerThrows, unregisterWlObject
  <2>2. UNCHANGED late \/ (Returned = <<>> /\ ~closed)
    BY <1>9 DEF ListenerThrows
  <2>3. CASE UNCHANGED late
    <3>1. \A depth \in 1 .. Len(closing') : depth \in 1 .. Len(closing) /\ closing'[depth] = closing[depth]
      BY <1>0, <2>1, ClosingStack
    <3>2. QED BY <2>1, <2>3, <3>1
  <2>4. CASE Returned = <<>> /\ ~closed
    BY <2>1, <2>4
  <2> QED BY <2>2, <2>3, <2>4
<1>10. ASSUME ApiSend \/ ApiFlush \/ ApiSetOnFlush PROVE CloseInv'
  BY <1>1, <1>10 DEF ApiSend, ApiFlush, ApiSetOnFlush, closeVars
<1>11. ASSUME NEW id \in Ids, ApiRegister(id) PROVE CloseInv'
  <2>1. CASE inClose \/ closed
    BY <1>1, <1>11, <2>1 DEF ApiRegister
  <2>2. CASE ~inClose /\ ~closed
    BY <1>11, <2>2 DEF ApiRegister, inClose
  <2> QED BY <2>1, <2>2
<1>12. ASSUME NEW id \in Ids, ApiUnregister(id) PROVE CloseInv'
  BY <1>1, <1>12 DEF ApiUnregister, unregisterWlObject, closeVars
<1>13. ASSUME ApiClose PROVE CloseInv'
  BY <1>2, <1>13 DEF ApiClose
<1>14. ASSUME UNCHANGED vars PROVE CloseInv'
  BY <1>1, <1>14 DEF vars
<1> QED
  BY <1>3, <1>4, <1>5, <1>6, <1>7, <1>8, <1>9, <1>10, <1>11, <1>12, <1>13, <1>14
     DEF Next, Loop, Handler, Api

(* A flush moves the queued messages behind the sent ones, or drops them   *)
(* while nothing was ever sent: the stream stays contiguous.               *)
LEMMA FlushKeepsStream == OutOK /\ FlushInv /\ (flush \/ flushThrows) => FlushInv'
<1> SUFFICES ASSUME OutOK, FlushInv, flush \/ flushThrows PROVE FlushInv'
  OBVIOUS
<1>1. ASSUME UNCHANGED outVars PROVE FlushInv'
  BY <1>1 DEF FlushInv, FlushContiguous, outVars
<1>2. CASE flushThrows
  BY <1>1, <1>2 DEF flushThrows
<1>3. CASE flush /\ (closed \/ outMessages = <<>>)
  BY <1>1, <1>3 DEF flush, outVars
<1>4. CASE flush /\ ~(closed \/ outMessages = <<>>)
  <2>1. outMessages' = <<>> /\ sent' = (IF onFlush THEN sent \o outMessages ELSE sent)
        /\ UNCHANGED <<onFlush, marshalled>>
    BY <1>4 DEF flush
  <2>2. CASE onFlush
    <3>1. sent' = sent \o outMessages /\ sent \o outMessages \in Seq(Nat)
      BY <2>1, <2>2 DEF OutOK
    <3>2. sent' \o outMessages' = sent \o outMessages
      BY <2>1, <3>1
    <3>3. QED BY <2>1, <2>2, <3>2 DEF FlushInv, FlushContiguous
  <2>3. CASE ~onFlush
    <3>1. sent' = <<>>
      BY <2>1, <2>3 DEF FlushInv
    <3>2. sent' \o outMessages' = <<>>
      <4>1. << >> \in Seq(Nat) /\ outMessages' = <<>> BY <2>1
      <4>2. << >> \o << >> = << >> OBVIOUS
      <4>3. QED BY <3>1, <4>1, <4>2, Zenon
    <3>3. QED BY <2>1, <2>3, <3>1, <3>2 DEF FlushInv, FlushContiguous
  <2> QED BY <2>2, <2>3
<1> QED BY <1>2, <1>3, <1>4

(* The outgoing stream stays contiguous in every step.                     *)
LEMMA FlushInvStep == TypeOK /\ FlushInv /\ [Next]_vars => FlushInv'
<1> SUFFICES ASSUME TypeOK, FlushInv, [Next]_vars PROVE FlushInv'
  OBVIOUS
<1>0. OutOK BY DEF TypeOK
<1>1. ASSUME UNCHANGED outVars PROVE FlushInv'
  BY <1>1 DEF FlushInv, FlushContiguous, outVars
<1>2. ASSUME NEW messages \in 1 .. MaxBatch, Message(messages) PROVE FlushInv'
  BY <1>1, <1>2 DEF Message
<1>3. ASSUME NEW c \in Calls, Loop(c) PROVE FlushInv'
  BY <1>0, <1>1, <1>3, FlushKeepsStream DEF Loop, LoopTop, RejectMessage, CallHandler, BatchDone
<1>4. ASSUME NEW c \in Calls, Handler(c) PROVE FlushInv'
  BY <1>1, <1>4 DEF Handler, HandlerReturn, HandlerAwait, HandlerResume, HandlerThrow
<1>5. ASSUME DestroyNext \/ CloseFinish \/ ListenerThrows PROVE FlushInv'
  BY <1>1, <1>5 DEF DestroyNext, CloseFinish, ListenerThrows
<1>6. ASSUME ApiSend PROVE FlushInv'
  <2> DEFINE stream == sent \o outMessages
             longer == sent \o Append(outMessages, marshalled + 1)
  <2>1. /\ marshalled' = marshalled + 1
        /\ sent' = sent
        /\ onFlush' = onFlush
        /\ outMessages' = Append(outMessages, marshalled + 1)
    BY <1>6 DEF ApiSend
  <2>2. stream \in Seq(Nat) /\ longer \in Seq(Nat) /\ Len(longer) = Len(stream) + 1
        /\ longer[Len(stream) + 1] = marshalled + 1
    BY <1>0 DEF OutOK
  <2>3. \A i \in 1 .. Len(stream) : longer[i] = stream[i]
    BY <1>0 DEF OutOK
  <2>4. \A i \in 1 .. Len(stream) : stream[i] = marshalled - Len(stream) + i
    <3>1. DOMAIN stream = 1 .. Len(stream)
      BY <2>2
    <3>2. \A i \in DOMAIN stream : stream[i] = marshalled - Len(stream) + i
      BY DEF FlushInv, FlushContiguous
    <3> HIDE DEF stream
    <3>3. QED BY <3>1, <3>2
  <2>5. Len(stream) \in Nat /\ marshalled \in Nat
    BY <1>0, <2>2 DEF OutOK
  <2>6. \A i \in 1 .. Len(longer) : longer[i] = (marshalled + 1) - Len(longer) + i
    <3> SUFFICES ASSUME NEW i \in 1 .. Len(longer)
                 PROVE  longer[i] = (marshalled + 1) - Len(longer) + i
      OBVIOUS
    <3> HIDE DEF stream, longer
    <3>1. CASE i \in 1 .. Len(stream)
      BY <2>2, <2>3, <2>4, <2>5, <3>1
    <3>2. CASE i = Len(stream) + 1
      BY <2>2, <2>5, <3>2
    <3> QED BY <2>2, <2>5, <3>1, <3>2
  <2>7. FlushContiguous'
    <3>1. (sent \o outMessages)' = longer /\ DOMAIN longer = 1 .. Len(longer)
      BY <2>1, <2>2
    <3>2. QED BY <2>1, <2>6, <3>1 DEF FlushContiguous
  <2>8. QED BY <2>1, <2>7 DEF FlushInv
<1>7. ASSUME ApiSetOnFlush PROVE FlushInv'
  BY <1>7 DEF ApiSetOnFlush, FlushInv, FlushContiguous
<1>8. ASSUME ApiFlush PROVE FlushInv'
  BY <1>0, <1>8, FlushKeepsStream DEF ApiFlush
<1>9. ASSUME NEW id \in Ids, ApiRegister(id) \/ ApiUnregister(id) PROVE FlushInv'
  BY <1>1, <1>9 DEF ApiRegister, ApiUnregister
<1>10. ASSUME ApiClose PROVE FlushInv'
  BY <1>1, <1>10 DEF ApiClose
<1>11. ASSUME UNCHANGED vars PROVE FlushInv'
  BY <1>1, <1>11 DEF vars, outVars
<1> QED BY <1>2, <1>3, <1>4, <1>5, <1>6, <1>7, <1>8, <1>9, <1>10, <1>11 DEF Next, Api

-----------------------------------------------------------------------------
(* The inductive invariant holds initially and in every step.              *)
THEOREM Inductive == Spec => []IInv
<1>1. Init => LoopInv /\ OrderInv /\ CloseInv /\ FlushInv
  <2> SUFFICES ASSUME Init PROVE LoopInv /\ OrderInv /\ CloseInv /\ FlushInv
    OBVIOUS
  <2>1. LoopInv BY DEF Init, LoopInv, OneLoop
  <2>2. OrderInv
    <3>1. Len(wire) = 0 /\ \A c \in Calls : messagesToProcess[c] = {} BY DEF Init
    <3>2. QED BY <3>1 DEF OrderInv
  <2>3. CloseInv BY DEF Init, CloseInv, NoneOutlivesClose
  <2>4. FlushInv
    <3>1. sent \o outMessages = <<>> BY DEF Init
    <3>2. QED BY <3>1 DEF Init, FlushInv, FlushContiguous
  <2>5. QED BY <2>1, <2>2, <2>3, <2>4
<1>2. TypeOK /\ LoopInv /\ OrderInv /\ CloseInv /\ FlushInv /\ [Next]_vars
      => (LoopInv /\ OrderInv /\ CloseInv /\ FlushInv)'
  BY LoopInvStep, OrderInvStep, CloseInvStep, FlushInvStep
<1>3. QED BY <1>1, <1>2, TypeCorrect, PTL DEF Spec, IInv

(* No two calls of message() run the loop of one connection at a time, so  *)
(* handlers never overlap.                                                 *)
THEOREM LoopsNeverOverlap == Spec => []OneLoop
<1>1. IInv => OneLoop
  BY DEF IInv, LoopInv
<1>2. QED BY <1>1, Inductive, PTL

(* A closed connection keeps no object but what destroy listeners          *)
(* registered while close() ran, however calls of close() nest or fail.    *)
THEOREM NothingOutlivesClose == Spec => []NoneOutlivesClose
<1>1. IInv => NoneOutlivesClose
  BY DEF IInv, CloseInv
<1>2. QED BY <1>1, Inductive, PTL

(* Marshalled messages reach onFlush in order, without gap or repetition.  *)
THEOREM StreamContiguous == Spec => []FlushContiguous
<1>1. IInv => FlushContiguous
  BY DEF IInv, FlushInv
<1>2. QED BY <1>1, Inductive, PTL

(* Messages are dispatched one at a time, in order of arrival, and only on *)
(* an open connection.                                                     *)
THEOREM DispatchedInOrder == Spec => DispatchInOrder
<1>1. IInv /\ [Next]_vars => [DispatchStep]_vars
  <2> SUFFICES ASSUME IInv, [Next]_vars PROVE DispatchStep \/ UNCHANGED vars
    OBVIOUS
  <2>0. InOK /\ LoopOK /\ LoopInv /\ OrderInv
    BY DEF IInv, TypeOK
  <2>1. ASSUME UNCHANGED offset PROVE DispatchStep
    BY <2>1 DEF DispatchStep
  <2>2. ASSUME NEW messages \in 1 .. MaxBatch, Message(messages) PROVE DispatchStep
    <3>1. offset' = Append(offset, 0)
      BY <2>2 DEF Message
    <3>2. \A b \in DOMAIN offset : offset'[b] = offset[b]
      BY <2>0, <3>1 DEF InOK
    <3>3. QED BY <3>2 DEF DispatchStep
  <2>3. ASSUME NEW c \in Calls, RejectMessage(c) \/ CallHandler(c) PROVE DispatchStep
    <3>1. \/ UNCHANGED offset
          \/ \E b \in Unread(c) : NextMessage(c, b) /\ offset' = [offset EXCEPT ![b] = @ + 1]
      BY <2>3 DEF RejectMessage, CallHandler
    <3>2. Running(c, "dispatch")
      BY <2>3 DEF RejectMessage, CallHandler
    <3>3. ASSUME NEW b \in Unread(c), NextMessage(c, b), offset' = [offset EXCEPT ![b] = @ + 1]
          PROVE  DispatchStep
      <4>1. b \in 1 .. Len(wire) /\ b \in messagesToProcess[c] /\ offset[b] < wire[b]
        BY <2>0, <3>3 DEF Unread, LoopOK
      <4>2. DOMAIN offset = 1 .. Len(wire)
        BY <2>0 DEF InOK
      <4>3. \A d \in 1 .. Len(wire) : offset'[d] = IF d = b THEN offset[d] + 1 ELSE offset[d]
        BY <2>0, <3>3, <4>1, <4>2 DEF InOK
      <4>4. ~closed
        BY <2>0, <3>2 DEF Running, LoopInv
      <4>5. \A e \in Calls : pc[e] \notin {"handler", "await"}
        BY <2>0, <3>2 DEF Running, LoopInv, OneLoop
      <4>6. \A d \in 1 .. Len(wire) : offset[d] \in Nat /\ wire[d] \in Nat
        BY <2>0 DEF InOK
      <4>7. ASSUME NEW d \in 1 .. Len(wire), d < b PROVE offset[d] = wire[d]
        <5>1. CASE d \notin inMessages
          BY <2>0, <5>1 DEF OrderInv
        <5>2. CASE d \in messagesToProcess[c]
          <6>1. b \in Nat /\ d \in Nat
            BY <4>1
          <6>2. d \notin Unread(c)
            BY <3>3, <4>7, <6>1 DEF NextMessage
          <6>3. ~(offset[d] < wire[d]) /\ offset[d] <= wire[d]
            BY <2>0, <5>2, <6>2 DEF Unread, OrderInv
          <6>4. QED BY <4>6, <6>3
        <5> QED BY <2>0, <4>1, <4>7, <5>1, <5>2 DEF OrderInv
      <4>8. QED BY <4>1, <4>2, <4>3, <4>4, <4>5, <4>7 DEF DispatchStep
    <3> QED BY <2>1, <3>1, <3>3
  <2>4. ASSUME NEW c \in Calls, LoopTop(c) \/ BatchDone(c) PROVE DispatchStep
    BY <2>1, <2>4 DEF LoopTop, BatchDone, inVars
  <2>5. ASSUME NEW c \in Calls, Handler(c) PROVE DispatchStep
    BY <2>1, <2>5 DEF Handler, HandlerReturn, HandlerAwait, HandlerResume, HandlerThrow, inVars
  <2>6. ASSUME DestroyNext \/ CloseFinish \/ ListenerThrows PROVE DispatchStep
    BY <2>1, <2>6 DEF DestroyNext, CloseFinish, ListenerThrows, inVars
  <2>7. ASSUME Api PROVE DispatchStep
    BY <2>1, <2>7 DEF Api, ApiSend, ApiFlush, ApiSetOnFlush, ApiRegister, ApiUnregister, ApiClose,
                      inVars
  <2> QED BY <2>2, <2>3, <2>4, <2>5, <2>6, <2>7 DEF Next, Loop
<1>2. QED BY <1>1, Inductive, PTL DEF Spec, DispatchInOrder

(* Only an exception of onFlush, or one of a destroy listener that ends    *)
(* close() early, leaves a queue of an open connection without a call that *)
(* reads it.                                                               *)
THEOREM LoopsKept == Spec => LoopKept
<1>1. IInv /\ [Next]_vars => [LoopKeptStep]_vars
  <2> SUFFICES ASSUME IInv, [Next]_vars, QueueHasLoop PROVE LoopKeptStep \/ UNCHANGED vars
    BY DEF LoopKeptStep
  <2>0. ObjectsOK /\ LoopOK /\ LoopInv
    BY DEF IInv, TypeOK
  <2>1. ASSUME QueueHasLoop' PROVE LoopKeptStep
    BY <2>1 DEF LoopKeptStep
  <2>2. ASSUME flushThrows, pc' # pc PROVE LoopKeptStep
    BY <2>2 DEF LoopKeptStep, FlushFailed, flushThrows, outVars
  <2>3. ASSUME NEW c \in Calls, pc'[c] # "idle" PROVE LoopKeptStep
    BY <2>1, <2>3 DEF QueueHasLoop
  <2>4. ASSUME closed' \/ inClose' \/ inMessages' = {} PROVE LoopKeptStep
    BY <2>1, <2>4 DEF QueueHasLoop
  <2>5. ASSUME UNCHANGED <<inMessages, pc>>, UNCHANGED <<closed, closing>> \/ close
        PROVE  LoopKeptStep
    <3>1. CASE UNCHANGED <<closed, closing>>
      BY <2>1, <2>5, <3>1 DEF QueueHasLoop, inClose
    <3>2. CASE close
      BY <2>0, <2>4, <3>2, CloseBegins
    <3>3. QED BY <2>5, <3>1, <3>2
  <2>6. ASSUME NEW messages \in 1 .. MaxBatch, Message(messages) PROVE LoopKeptStep
    <3>1. CASE inMessages # {} /\ UNCHANGED loopVars
      BY <2>1, <2>6, <3>1 DEF Message, QueueHasLoop, loopVars, closeVars, inClose
    <3>2. ASSUME NEW c \in Calls, pc' = [pc EXCEPT ![c] = "top"] PROVE LoopKeptStep
      BY <2>0, <2>3, <3>2 DEF LoopOK
    <3>3. QED BY <2>6, <3>1, <3>2 DEF Message
  <2>7. ASSUME NEW c \in Calls, LoopTop(c) PROVE LoopKeptStep
    <3>1. CASE pc' = [pc EXCEPT ![c] = "dispatch"]
      BY <2>0, <2>3, <3>1 DEF LoopOK
    <3>2. CASE inMessages = {}
      BY <2>4, <2>7, <3>2 DEF LoopTop, inVars
    <3>3. CASE flushThrows /\ Settle(c)
      <4>1. pc[c] = "top" /\ pc'[c] = "idle"
        BY <2>0, <2>7, <3>3 DEF LoopTop, Running, Settle, LoopOK
      <4>2. QED BY <2>2, <3>3, <4>1
    <3>4. QED BY <2>7, <3>1, <3>2, <3>3 DEF LoopTop
  <2>8. ASSUME NEW c \in Calls, RejectMessage(c) PROVE LoopKeptStep
    BY <2>0, <2>4, <2>8, CloseBegins DEF RejectMessage
  <2>9. ASSUME NEW c \in Calls, CallHandler(c) PROVE LoopKeptStep
    <3>1. pc'[c] = "handler"
      BY <2>0, <2>9 DEF CallHandler, Goto, LoopOK
    <3>2. QED BY <2>3, <3>1
  <2>10. ASSUME NEW c \in Calls, BatchDone(c) PROVE LoopKeptStep
    <3>1. CASE pc' = [pc EXCEPT ![c] = "top"]
      BY <2>0, <2>3, <3>1 DEF LoopOK
    <3>2. CASE flushThrows /\ Settle(c)
      <4>1. pc[c] = "dispatch" /\ pc'[c] = "idle"
        BY <2>0, <2>10, <3>2 DEF BatchDone, Running, Settle, LoopOK
      <4>2. QED BY <2>2, <3>2, <4>1
    <3>3. QED BY <2>10, <3>1, <3>2 DEF BatchDone
  <2>11. ASSUME NEW c \in Calls, HandlerReturn(c) PROVE LoopKeptStep
    <3>1. CASE closed
      BY <2>4, <2>11, <3>1 DEF HandlerReturn, closeVars
    <3>2. CASE ~closed
      <4>1. pc'[c] = "dispatch"
        BY <2>0, <2>11, <3>2 DEF HandlerReturn, Goto, LoopOK
      <4>2. QED BY <2>3, <4>1
    <3>3. QED BY <3>1, <3>2
  <2>12. ASSUME NEW c \in Calls, HandlerAwait(c) \/ HandlerResume(c) PROVE LoopKeptStep
    <3>1. pc'[c] \in {"await", "handler"}
      BY <2>0, <2>12 DEF HandlerAwait, HandlerResume, LoopOK
    <3>2. QED BY <2>3, <3>1
  <2>13. ASSUME NEW c \in Calls, HandlerThrow(c) PROVE LoopKeptStep
    BY <2>0, <2>4, <2>13, CloseBegins DEF HandlerThrow
  <2>14. ASSUME DestroyNext \/ CloseFinish \/ ListenerThrows PROVE LoopKeptStep
    <3>1. inClose /\ UNCHANGED <<inMessages, pc>>
      BY <2>14 DEF DestroyNext, CloseFinish, ListenerThrows, inVars, loopVars
    <3>2. QED BY <2>4, <3>1 DEF LoopKeptStep, CloseFailed
  <2>15. ASSUME Api PROVE LoopKeptStep
    <3>1. UNCHANGED <<inMessages, pc>> /\ (UNCHANGED <<closed, closing>> \/ close)
      BY <2>15 DEF Api, ApiSend, ApiFlush, ApiSetOnFlush, ApiRegister, ApiUnregister, ApiClose,
         closeVars, inVars, loopVars
    <3>2. QED BY <2>5, <3>1
  <2>16. QED BY <2>6, <2>7, <2>8, <2>9, <2>10, <2>11, <2>12, <2>13, <2>14, <2>15
         DEF Next, Loop, Handler
<1>2. QED BY <1>1, Inductive, PTL DEF Spec, LoopKept
=============================================================================
