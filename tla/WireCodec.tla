----------------------------- MODULE WireCodec ------------------------------
(***************************************************************************)
(* How arguments travel in wire messages: the marshalling half of          *)
(* common/src/Connection.ts, the onFlush of the client runtime that joins  *)
(* the messages of a flush into one buffer, the unmarshalling functions    *)
(* the handlers of the other end call one after the other, and the second  *)
(* unmarshaller of the native proxy.                                       *)
(*                                                                         *)
(* A buffer is a sequence of 32-bit words: <<n>> is a number and           *)
(* <<a, b, c, d>> four bytes of the payload of an argument. The reader's   *)
(* bufferOffset counts words from 0. What a reader that is out of step     *)
(* makes of the words it meets depends on the data, so the model stops     *)
(* there.                                                                  *)
(*                                                                         *)
(* Texts are the code units of a JavaScript string. The marshaller keeps   *)
(* the low byte of each, the readers decode the bytes as UTF-8. Low bytes  *)
(* are left out that begin a sequence with rules of its own for the second *)
(* byte, a byte-order mark or a sequence of four bytes.                    *)
(***************************************************************************)
EXTENDS Integers, Sequences, SequencesExt

CONSTANTS
    Arguments,      \* arguments that messages carry
    None,           \* the value of an optional argument that is undefined
    WordModulus,    \* 2^32
    SizeModulus,    \* 2^16: the size field of a header
    KnownIds,       \* ids registered at the receiver
    MaxMessages,    \* bound: messages in a flush
    MaxArgs         \* bound: arguments of a message

(* u stands for n too, and i for f. The value of s and ?s is the length of *)
(* the text, that of a and ?a the byteLength of the view, that of h a      *)
(* descriptor. The content is the text, or the whole ArrayBuffer that the  *)
(* view shows from its byteOffset on.                                      *)
Types == {"u", "i", "h", "o", "?o", "s", "?s", "a", "?a"}

ASSUME WireCodecAssumption ==
    /\ \A arg \in Arguments :
        /\ DOMAIN arg = {"type", "value", "content", "offset"}
        /\ arg.type \in Types /\ arg.value \in Int /\ arg.offset \in Nat
        /\ \A j \in DOMAIN arg.content :
            IF arg.type \in {"a", "?a"} THEN arg.content[j] \in 0 .. 255
            ELSE arg.content[j] \in 0 .. 65535 /\ arg.content[j] % 256 \notin {224, 237} \cup 239 .. 247
    /\ None \in Int
    /\ WordModulus \in Nat \ {0, 1}
    /\ SizeModulus \in Nat \ {0}
    /\ KnownIds \subseteq Nat \ {0}
    /\ MaxMessages \in Nat
    /\ MaxArgs \in Nat

VARIABLES
    sent,           \* the messages of the flush, each a sequence of arguments
    buffer,         \* the words of the flush
    fds,            \* descriptors of the flush not yet taken by the receiver
    posted,         \* whether the buffer was posted
    bufferOffset,   \* WlMessage.bufferOffset
    consumed,       \* WlMessage.consumed
    size,           \* WlMessage.size
    reading,        \* the message and the argument to read next, argument 0: its header
    decoded,        \* what the handlers got, message by message
    unheard,        \* messages whose object had no listener
    closed          \* whether the receiver closed the connection

vars == <<sent, buffer, fds, posted, bufferOffset, consumed, size, reading, decoded, unheard, closed>>
reader == <<bufferOffset, consumed, size, reading, unheard, closed>>

Number(n) == <<n>>
Header(m, bytes) == <<Number(m), Number(bytes)>>
Words == Seq(Int)

(* What a handler gets for an argument: a number, undefined or the length  *)
(* of the payload, and the payload.                                        *)
Decoded == [value : Int, payload : Seq(Int)]

TypeOK ==
    /\ sent \in Seq(Seq(Arguments)) /\ Len(sent) <= MaxMessages
    /\ buffer \in Seq(Words)
    /\ fds \in Seq(Int)
    /\ posted \in BOOLEAN
    /\ bufferOffset \in Nat
    /\ consumed \in Nat
    /\ size \in 0 .. SizeModulus - 1
    /\ reading \in (1 .. Len(sent) + 1) \X (0 .. MaxArgs)
    /\ decoded \in Seq(Seq(Decoded)) /\ Len(decoded) = Len(sent)
    /\ unheard \subseteq 1 .. Len(sent)
    /\ closed \in BOOLEAN

Init ==
    /\ sent = <<>>
    /\ buffer = <<>>
    /\ fds = <<>>
    /\ posted = FALSE
    /\ bufferOffset = 0
    /\ consumed = 0
    /\ size = 0
    /\ reading = <<1, 0>>
    /\ decoded = <<>>
    /\ unheard = {}
    /\ closed = FALSE

-----------------------------------------------------------------------------
Align(n) == ((n + 3) \div 4) * 4

(* The size of an argument. Strings count their null byte.                 *)
ArgSize(arg) ==
    CASE arg.type = "h" -> 0
      [] arg.type \in {"u", "i", "o", "?o"} -> 4
      [] arg.type \in {"?s", "?a"} /\ arg.value = None -> 4
      [] arg.type \in {"s", "?s"} /\ arg.value # None -> 4 + Align(arg.value + 1)
      [] arg.type \in {"a", "?a"} /\ arg.value # None -> 4 + Align(arg.value)

(* The bytes written behind the length. stringOptional() takes the empty   *)
(* string for undefined here, but not in its size.                         *)
PayloadSize(arg) ==
    CASE arg.value = None \/ (arg.type = "?s" /\ arg.value = 0) -> 0
      [] arg.type = "s" \/ (arg.type = "?s" /\ arg.value > 0) -> arg.value + 1
      [] arg.type \in {"a", "?a"} /\ arg.value # None -> arg.value

(* The bytes themselves: charCodeAt() into a Uint8Array and the null byte; *)
(* of an array the first bytes of its buffer, whatever the byteOffset of   *)
(* the view.                                                               *)
PayloadBytes(arg) ==
    [j \in 1 .. PayloadSize(arg) |->
        IF arg.type \in {"a", "?a"} THEN arg.content[j]
        ELSE IF j <= arg.value THEN arg.content[j] % 256 ELSE 0]

(* What _marshallArg() writes; the buffer was all zero before.             *)
MarshallArg(arg) ==
    CASE arg.type = "h" -> <<>>
      [] arg.type \in {"u", "i"} -> <<Number(arg.value % WordModulus)>>
      [] arg.type \in {"o", "?o"} -> <<Number(IF arg.value = None THEN 0 ELSE arg.value)>>
      [] arg.type \in {"s", "?s", "a", "?a"} ->
            <<Number(PayloadSize(arg))>> \o
            [w \in 1 .. ArgSize(arg) \div 4 - 1 |->
                [b \in 1 .. 4 |-> IF 4 * (w - 1) + b <= PayloadSize(arg)
                                  THEN PayloadBytes(arg)[4 * (w - 1) + b] ELSE 0]]

MarshallArgs(args) == FlattenSeq([k \in 1 .. Len(args) |-> MarshallArg(args[k])])

(* marshall(): the size of a message with its header.                      *)
MessageSize(args) == FoldLeft(LAMBDA total, arg : total + ArgSize(arg), 8, args)

FileDescriptors(args) ==
    LET hs == SelectSeq(args, LAMBDA arg : arg.type = "h")
    IN  [n \in 1 .. Len(hs) |-> hs[n].value]

(* marshallMsg() queues a message, and onFlush lays the queued messages    *)
(* and their descriptors end to end. The size field of the header has 16   *)
(* bits.                                                                   *)
MarshallMsg(args) ==
    /\ ~posted
    /\ Len(sent) < MaxMessages
    /\ sent' = Append(sent, args)
    /\ decoded' = Append(decoded, <<>>)
    /\ buffer' = buffer \o Header(Len(sent'), MessageSize(args) % SizeModulus) \o MarshallArgs(args)
    /\ fds' = fds \o FileDescriptors(args)
    /\ UNCHANGED <<posted, reader>>

(* The flush: the joined buffer is posted with all its descriptors.        *)
Post ==
    /\ ~posted
    /\ sent # <<>>
    /\ posted' = TRUE
    /\ UNCHANGED <<sent, buffer, fds, decoded, reader>>

-----------------------------------------------------------------------------
(* Where a message and an argument of it begin, and whether the reader is  *)
(* there.                                                                  *)
MessageStart(m) ==
    FoldLeft(LAMBDA total, args : total + 2 + Len(MarshallArgs(args)), 0, SubSeq(sent, 1, m - 1))

ArgStart(m, k) == MessageStart(m) + 2 + Len(MarshallArgs(SubSeq(sent[m], 1, k - 1)))

Message == reading[1]
Arg == sent[reading[1]][reading[2]]

InStepNow ==
    bufferOffset = IF reading[2] = 0 THEN MessageStart(Message) ELSE ArgStart(Message, reading[2])

AtHeader == posted /\ ~closed /\ InStepNow /\ reading[2] = 0 /\ bufferOffset < Len(buffer)
AtArg == posted /\ ~closed /\ InStepNow /\ reading[2] > 0

(* What is read after argument k of message m.                             *)
After(m, k) == IF k < Len(sent[m]) THEN <<m, k + 1>> ELSE <<m + 1, 0>>

(* The head of the message loop. It compares the size with the whole       *)
(* buffer, and a size larger than that closes the connection.              *)
ReadHeader ==
    LET bytes == buffer[bufferOffset + 2][1]
    IN  /\ AtHeader
        /\ size' = bytes
        /\ closed' = (bytes > 4 * Len(buffer))
        /\ IF closed'
           THEN UNCHANGED <<bufferOffset, consumed, reading>>
           ELSE /\ bufferOffset' = bufferOffset + 2
                /\ consumed' = 8
                /\ reading' = After(Message, 0)
        /\ UNCHANGED <<sent, buffer, fds, posted, decoded, unheard>>

(* listener?.event(...) of a proxy without a listener does not evaluate    *)
(* the arguments.                                                          *)
NoListener ==
    /\ AtArg
    /\ reading[2] = 1
    /\ unheard' = unheard \union {Message}
    /\ reading' = <<Message + 1, 0>>
    /\ UNCHANGED <<sent, buffer, fds, posted, bufferOffset, consumed, size, decoded, closed>>

-----------------------------------------------------------------------------
(* textDecoder: a byte that is no character and takes part in none becomes *)
(* the replacement character.                                              *)
Replacement == 65533
Flushed(state) == IF state.need = 0 THEN state.text ELSE Append(state.text, Replacement)
DecodeByte(state, byte) ==
    LET Char(text, code) == [text |-> Append(text, code), need |-> 0, code |-> 0]
        code == state.code * 64 + (byte % 64)
    IN  CASE state.need = 1 /\ byte \in 128 .. 191 -> Char(state.text, code)
          [] state.need = 2 /\ byte \in 128 .. 191 -> [state EXCEPT !.need = 1, !.code = code]
          [] byte < 128 -> Char(Flushed(state), byte)
          [] byte \in 194 .. 223 -> [text |-> Flushed(state), need |-> 1, code |-> byte % 32]
          [] byte \in 224 .. 239 -> [text |-> Flushed(state), need |-> 2, code |-> byte % 16]
          [] OTHER -> Char(Flushed(state), Replacement)
Decode(bytes) == Flushed(FoldLeft(DecodeByte, [text |-> <<>>, need |-> 0, code |-> 0], bytes))

(* The readers: the value and payload they return, the bytes they ask      *)
(* checkMessageSize() for and the words they move bufferOffset by.         *)
Word == buffer[bufferOffset + 1][1]
Bytes(words, first, length) == SubSeq(FlattenSeq(SubSeq(words, first, first + Align(length) \div 4 - 1)), 1, length)
Payload(length) == Bytes(buffer, bufferOffset + 2, length)

u == [value |-> Word, payload |-> <<>>, bytes |-> 4, words |-> 1]
undefined == [u EXCEPT !.value = None]

i == [u EXCEPT !.value = IF 2 * Word < WordModulus THEN Word ELSE Word - WordModulus]

oOptional == IF Word = 0 THEN undefined ELSE u

Text(bytes) == LET text == Decode(bytes) IN [value |-> Len(text), payload |-> text]

(* Faulty variant: bufferOffset moves by whole words of the string only.   *)
sUnpadded == Text(Payload(Word - 1)) @@ [bytes |-> 4 + Align(Word), words |-> 1 + Word \div 4]
s == Text(Payload(Word - 1)) @@ [bytes |-> 4 + Align(Word), words |-> 1 + Align(Word) \div 4]
sOptional == IF Word = 0 THEN undefined ELSE s

(* bufferOffset counts words, and moves by the bytes of the array.         *)
a == [value |-> Word, payload |-> Payload(Word), bytes |-> 4 + Align(Word), words |-> 1 + Align(Word)]
aOptional == IF Word = 0 THEN undefined ELSE a

Read ==
    CASE Arg.type \in {"u", "o"} -> u
      [] Arg.type = "i" -> i
      [] Arg.type = "?o" -> oOptional
      [] Arg.type = "s" -> s
      [] Arg.type = "?s" -> sOptional
      [] Arg.type = "a" -> a
      [] Arg.type = "?a" -> aOptional

(* checkMessageSize() and the lookup of objects throw.                     *)
TooShort == consumed + Read.bytes > size
UnknownObject == Arg.type \in {"o", "?o"} /\ Read.value # None /\ Read.value \notin KnownIds

ReadArg ==
    /\ AtArg
    /\ Arg.type # "h"
    /\ ~TooShort
    /\ ~UnknownObject
    /\ decoded' = [decoded EXCEPT ![Message] =
                        Append(@, [value |-> Read.value, payload |-> Read.payload])]
    /\ consumed' = consumed + Read.bytes
    /\ bufferOffset' = bufferOffset + Read.words
    /\ reading' = After(Message, reading[2])
    /\ UNCHANGED <<sent, buffer, fds, posted, size, unheard, closed>>

ReadFd ==
    /\ AtArg
    /\ Arg.type = "h"
    /\ fds # <<>>
    /\ decoded' = [decoded EXCEPT ![Message] = Append(@, [value |-> Head(fds), payload |-> <<>>])]
    /\ fds' = Tail(fds)
    /\ reading' = After(Message, reading[2])
    /\ UNCHANGED <<sent, buffer, posted, bufferOffset, consumed, size, unheard, closed>>

(* The message loop catches what a reader throws and closes.               *)
ReadThrows ==
    /\ AtArg
    /\ IF Arg.type = "h" THEN fds = <<>> ELSE TooShort \/ UnknownObject
    /\ closed' = TRUE
    /\ UNCHANGED <<sent, buffer, fds, posted, bufferOffset, consumed, size, reading, decoded, unheard>>

Next ==
    \/ \E args \in BoundedSeq(Arguments, MaxArgs) : MarshallMsg(args)
    \/ Post
    \/ ReadHeader
    \/ NoListener
    \/ ReadArg
    \/ ReadFd
    \/ ReadThrows

Spec == Init /\ [][Next]_vars

-----------------------------------------------------------------------------
(* unmarshallArgs() of the proxy, on a message of its own: got is the      *)
(* WireMessage with the arguments so far, its bufferOffset counts bytes.   *)
ProxyWord(words, got) == words[got.bufferOffset \div 4 + 1][1]
ProxyBytes(words, got, length) == Bytes(words, got.bufferOffset \div 4 + 2, length)
Plain(value) == [value |-> value, payload |-> <<>>]

(* A reader of four bytes and a payload; checkMessageSize() throws.        *)
ProxyTake(got, arg, bytes) ==
    IF got.consumed + 4 + bytes > got.size
    THEN [got EXCEPT !.threw = TRUE]
    ELSE [got EXCEPT !.bufferOffset = @ + 4 + bytes,
                     !.consumed = @ + 4 + bytes,
                     !.args = Append(@, arg)]

ProxyTakeFd(got) ==
    IF got.fds = <<>>
    THEN [got EXCEPT !.threw = TRUE]
    ELSE [got EXCEPT !.fds = Tail(@), !.args = Append(@, Plain(Head(got.fds)))]

ProxySigned(word) == IF 2 * word < WordModulus THEN word ELSE word - WordModulus

(* Faulty variant: the payload of an optional argument is not skipped.     *)
ProxyReadKeepsPayload(words, got, type) ==
    LET word == ProxyWord(words, got)
    IN  CASE type = "h" -> ProxyTakeFd(got)
          [] type = "i" -> ProxyTake(got, Plain(ProxySigned(word)), 0)
          [] type = "s" -> ProxyTake(got, Text(ProxyBytes(words, got, word - 1)), Align(word))
          [] type = "a" -> ProxyTake(got, [value |-> word, payload |-> ProxyBytes(words, got, word)], Align(word))
          [] type \in {"?s", "?a"} -> ProxyTake(got, Plain(IF word = 0 THEN None ELSE word), 0)
          [] OTHER -> ProxyTake(got, Plain(word), 0)

(* signatureUnmarshalling: o ignores that it is optional, s and a do not.  *)
ProxyRead(words, got, type) ==
    LET word == ProxyWord(words, got)
    IN  CASE type = "h" -> ProxyTakeFd(got)
          [] type = "i" -> ProxyTake(got, Plain(ProxySigned(word)), 0)
          [] type \in {"?s", "?a"} /\ word = 0 -> ProxyTake(got, Plain(None), 0)
          [] type = "s" \/ (type = "?s" /\ word > 0) ->
                ProxyTake(got, Text(ProxyBytes(words, got, word - 1)), Align(word))
          [] type = "a" \/ (type = "?a" /\ word > 0) ->
                ProxyTake(got, [value |-> word, payload |-> ProxyBytes(words, got, word)], Align(word))
          [] type \in {"u", "o", "?o"} -> ProxyTake(got, Plain(word), 0)

(* The first reader that throws ends the interception.                     *)
UnmarshallArgs(args, m) ==
    LET words == Header(m, MessageSize(args)) \o MarshallArgs(args)
    IN  FoldLeft(LAMBDA got, arg : IF got.threw THEN got ELSE ProxyRead(words, got, arg.type),
                 [bufferOffset |-> 8, consumed |-> 8, size |-> MessageSize(args),
                  fds |-> FileDescriptors(args), args |-> <<>>, threw |-> FALSE],
                 args)

-----------------------------------------------------------------------------
(* What the code does not carry over as it is: text that is not ASCII, and *)
(* a view that does not begin where its buffer does.                       *)
Altered(arg) ==
    \/ arg.type \in {"s", "?s"} /\ \E j \in DOMAIN arg.content : arg.content[j] > 127
    \/ arg.type \in {"a", "?a"} /\ arg.offset > 0

(* Three ways to lose the step are known (README): after an array that is  *)
(* not empty, after an optional string that is, and after arguments nobody *)
(* read; a message of 2^16 bytes is refused.                               *)
LosesStep(arg) == (arg.type \in {"a", "?a"} /\ arg.value > 0) \/ (arg.type = "?s" /\ arg.value = 0)
Sound ==
    /\ unheard = {}
    /\ \A m \in 1 .. Len(sent) :
        /\ MessageSize(sent[m]) < SizeModulus
        /\ \A k \in 1 .. Len(decoded[m]) : ~LosesStep(sent[m][k])

(* What was sent: the number, or the text or the bytes of the view.        *)
(* Undefined and empty are one for optional arrays and strings.            *)
Expected(arg) ==
    IF arg.type \in {"?s", "?a"} /\ arg.value \in {None, 0} THEN Plain(None)
    ELSE [value |-> arg.value,
          payload |-> IF arg.type \in {"s", "?s", "a", "?a"}
                      THEN SubSeq(arg.content, arg.offset + 1, arg.offset + arg.value) ELSE <<>>]

(* Handlers get the arguments that were sent, in order: integers with      *)
(* their sign, ASCII texts and whole buffers byte for byte, and each       *)
(* descriptor at the message it was sent with although a flush joins those *)
(* of all its messages, unless a message before it was not read. Up to the *)
(* first argument that loses the step, the reader is always at the         *)
(* beginning of the next argument or message, padding included and         *)
(* whatever the texts, and refuses nothing but an object it does not know: *)
(* checkMessageSize() counts what the size functions of the sender         *)
(* counted, and there is a descriptor for every h.                         *)
DecodedExact ==
    /\ \A m \in 1 .. Len(sent) : \A k \in 1 .. Len(decoded[m]) :
        \/ Altered(sent[m][k])
        \/ sent[m][k].type = "h" /\ \E n \in unheard : n < m
        \/ decoded[m][k] = Expected(sent[m][k])
    /\ Sound => InStepNow
    /\ Sound /\ closed => reading[2] > 0 /\ Arg.type \in {"o", "?o"} /\ Arg.value \notin KnownIds

(* The proxy's unmarshaller agrees with the marshaller of the runtimes: it *)
(* reads every message to its end, also behind arrays and text that is not *)
(* ASCII, and gets what was sent unless the marshaller altered it; an      *)
(* object argument stays the id it is on the wire. Only an empty optional  *)
(* string puts it out of step.                                             *)
ProxyExact ==
    AtHeader =>
        LET args == sent[Message]
            got == UnmarshallArgs(args, Message)
        IN  (\A k \in 1 .. Len(args) : args[k].type # "?s" \/ args[k].value # 0) =>
                /\ ~got.threw
                /\ got.bufferOffset = MessageSize(args)
                /\ got.fds = <<>>
                /\ Len(got.args) = Len(args)
                /\ \A k \in 1 .. Len(args) :
                    \/ Altered(args[k])
                    \/ got.args[k] = IF args[k].type = "?o" /\ args[k].value = None THEN Plain(0)
                                     ELSE Expected(args[k])
=============================================================================
