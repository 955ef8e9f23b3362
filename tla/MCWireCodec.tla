---------------------------- MODULE MCWireCodec -----------------------------
(* Instances of WireCodec for TLC: every type of argument, integers at the *)
(* ends of their range, payloads that are empty, that end inside a word    *)
(* and that fill it, text that is not ASCII, a view that begins inside its *)
(* buffer, and an object the receiver does not know.                       *)
EXTENDS WireCodec

Undefined == -1

Arg1(type, values) == {[type |-> type, value |-> v, content |-> <<>>, offset |-> 0] : v \in values}
Texts(type, texts) == {[type |-> type, value |-> Len(t), content |-> t, offset |-> 0] : t \in texts}
View(type, buffered, first) ==
    {[type |-> type, value |-> Len(buffered) - first, content |-> buffered, offset |-> first]}

(* "abc", "abcd"; e with an accent and the euro sign, which become bytes   *)
(* that are no UTF-8, and two characters whose bytes are one in UTF-8.     *)
AllArguments ==
    UNION {Arg1("u", {15}), Arg1("i", {-8, 7}), Arg1("h", {1, 2}),
           Arg1("o", {1, 2}), Arg1("?o", {Undefined, 1}),
           Texts("s", {<<>>, <<97, 98, 99>>, <<97, 98, 99, 100>>, <<233, 8364>>}),
           Arg1("?s", {Undefined}), Texts("?s", {<<>>, <<97, 98, 99, 100>>, <<195, 169>>}),
           View("a", <<>>, 0), View("a", <<255, 0, 128, 1>>, 0), View("?a", <<7>>, 0),
           View("a", <<1, 2, 3>>, 2), Arg1("?a", {Undefined})}
=============================================================================
