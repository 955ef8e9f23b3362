---------------------------- MODULE ObjectTable -----------------------------
(***************************************************************************)
(* What the object table of a native client promises to the holders of     *)
(* server ids: an id is handed out to one holder at a time, the holder     *)
(* alone changes what is stored under it, and nothing else does.           *)
(***************************************************************************)
CONSTANTS
    Ids,            \* server ids
    Resources,      \* resources that can be stored
    NULL            \* no resource

VARIABLES
    owned,          \* ids handed out
    at              \* what is stored under each of them

vars == <<owned, at>>

TypeOK ==
    /\ owned \subseteq Ids
    /\ at \in [owned -> Resources \cup {NULL}]

Init ==
    /\ owned = {}
    /\ at = [id \in {} |-> NULL]

Allocate(id, r) ==
    /\ id \notin owned
    /\ owned' = owned \cup {id}
    /\ at' = [i \in owned \cup {id} |-> IF i = id THEN r ELSE at[i]]

Store(id, r) ==
    /\ id \in owned
    /\ at' = [at EXCEPT ![id] = r]
    /\ UNCHANGED owned

Release(id) ==
    /\ id \in owned
    /\ owned' = owned \ {id}
    /\ at' = [i \in owned \ {id} |-> at[i]]

Next ==
    \E id \in Ids :
        \/ \E r \in Resources \cup {NULL} : Allocate(id, r) \/ Store(id, r)
        \/ Release(id)

Spec == Init /\ [][Next]_vars
=============================================================================
