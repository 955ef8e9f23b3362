------------------------- MODULE MCNativeConnection -------------------------
(* NativeConnection on a small instance: messages with one descriptor, with *)
(* two, with a text, with an object and a new id, one of a later version,  *)
(* and one with a descriptor that the browser handles. Two words and two   *)
(* texts fill the ring buffers, three descriptors exceed a control message. *)
EXTENDS NativeConnection

Arg(type, nullable) == [type |-> type, nullable |-> nullable]
Kind(opcode, signature, since, native) ==
    [opcode |-> opcode, signature |-> signature, since |-> since, native |-> native]

MCNativeKinds ==
    {Kind(0, <<Arg("h", FALSE)>>, 1, TRUE),
     Kind(1, <<Arg("h", FALSE), Arg("h", FALSE)>>, 1, TRUE),
     Kind(2, <<Arg("s", TRUE)>>, 1, TRUE),
     Kind(3, <<Arg("o", FALSE), Arg("n", FALSE)>>, 1, TRUE),
     Kind(4, <<>>, 2, TRUE),
     Kind(5, <<Arg("h", FALSE)>>, 1, FALSE)}

(* One message with a descriptor, nothing else.                            *)
MCCreatePool == {Kind(0, <<Arg("h", FALSE)>>, 1, TRUE)}
=============================================================================
