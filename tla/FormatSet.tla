----------------------------- MODULE FormatSet ------------------------------
(***************************************************************************)
(* struct drm_format_set of drm_format_set.c: an array of formats, each    *)
(* with an array of modifiers, that both grow by doubling. Every function  *)
(* is an operator; the allocations that may fail are their callers' cases. *)
(***************************************************************************)
EXTENDS Integers, Sequences, SequencesExt

CONSTANT MinCapacity    \* slots of a first allocation, 4 in the code

ASSUME FormatSetAssumption == MinCapacity \in Nat \ {0}

EmptySet == [formats |-> <<>>, capacity |-> 0]

(* drm_format_create()                                                     *)
FormatCreate(format) ==
    [format |-> format, modifiers |-> <<>>, capacity |-> MinCapacity]

(* drm_format_has()                                                        *)
FormatHas(fmt, modifier) == Contains(fmt.modifiers, modifier)

(* The capacity of a full array when one element more is to be stored.     *)
Grown(capacity, len) ==
    IF len < capacity THEN capacity ELSE IF capacity = 0 THEN MinCapacity ELSE 2 * capacity

(* Mutant: a modifier is stored as often as it is added.                   *)
StoreAgain(fmt, modifier) ==
    [fmt EXCEPT !.capacity = Grown(@, Len(fmt.modifiers)),
                !.modifiers = Append(@, modifier)]

(* drm_format_add(): a modifier is stored once.                            *)
FormatAdd(fmt, modifier) ==
    IF FormatHas(fmt, modifier) THEN fmt
    ELSE [fmt EXCEPT !.capacity = Grown(@, Len(fmt.modifiers)),
                     !.modifiers = Append(@, modifier)]

(* format_set_get_ref(): where a format is, 0 for nowhere.                 *)
GetRef(set, format) ==
    SelectInSeq(set.formats, LAMBDA fmt : fmt.format = format)

(* drm_format_set_get() and drm_format_set_has()                           *)
SetHas(set, format, modifier) ==
    LET at == GetRef(set, format)
    IN  at # 0 /\ FormatHas(set.formats[at], modifier)

(* drm_format_set_add()                                                    *)
SetAdd(set, format, modifier) ==
    LET at == GetRef(set, format)
    IN  IF at # 0 THEN [set EXCEPT !.formats[at] = FormatAdd(@, modifier)]
        ELSE [formats |-> Append(set.formats, FormatAdd(FormatCreate(format), modifier)),
              capacity |-> Grown(set.capacity, Len(set.formats))]

(* drm_format_set_copy() with drm_format_dup(): the same formats in an     *)
(* array without room for more.                                            *)
SetCopy(set) == [set EXCEPT !.capacity = Len(set.formats)]

(* All pairs of a set in the order of the arrays, the format table of      *)
(* feedback_compile().                                                     *)
Pairs(set) ==
    FlattenSeq([i \in DOMAIN set.formats |->
        [k \in DOMAIN set.formats[i].modifiers |->
            <<set.formats[i].format, set.formats[i].modifiers[k]>>]])

(* What the arrays hold fits in them and nothing is stored twice.          *)
SetOK(set) ==
    /\ Len(set.formats) <= set.capacity
    /\ IsInjective([i \in DOMAIN set.formats |-> set.formats[i].format])
    /\ \A i \in DOMAIN set.formats :
        /\ Len(set.formats[i].modifiers) <= set.formats[i].capacity
        /\ IsInjective(set.formats[i].modifiers)
=============================================================================
