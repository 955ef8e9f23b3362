--------------------------- MODULE ClientObjects ----------------------------
(***************************************************************************)
(* The table of a native client's objects: struct wl_map of wayland-util.c *)
(* on the server side, and the operations of wayland-server.c that use it. *)
(*                                                                         *)
(* An entry of the table is one machine word. It is 0 (NULL), a pointer to *)
(* a resource, or, with its lowest bit set, the index of the next entry of *)
(* the free list; the last entry of that list is 0 again, which is also    *)
(* what an id without a resource looks like. Here a word is NULL, a member *)
(* of Resources, or a number, the position of the next free entry.         *)
(* Positions count from 1: position k of server_entries is the id          *)
(* WL_SERVER_ID_START + k - 1, position k of client_entries the id k - 1.  *)
(*                                                                         *)
(* The flag bit of an entry only marks resources of the deprecated         *)
(* wl_client_add_resource() and is left out.                               *)
(***************************************************************************)
EXTENDS Integers, Sequences

CONSTANTS
    Resources,      \* resources, each allocated once
    NULL,           \* the null pointer
    MaxEntries      \* bound: entries of either array

ASSUME ClientObjectsAssumption ==
    /\ NULL \notin Resources
    /\ NULL \notin Nat
    /\ Resources \cap Nat = {}
    /\ MaxEntries \in Nat

VARIABLES
    client_entries, \* wl_map.client_entries
    server_entries, \* wl_map.server_entries
    free_list,      \* wl_map.free_list
    owned,          \* server ids in the hands of the browser compositor
    freeIds,        \* auxiliary: the free list in order, which the program keeps as links only
    created,        \* resources created so far
    freed,          \* resources destroyed so far
    orphaned,       \* resources whose entry another one was written over
    destroying,     \* whether wl_client_destroy() is walking the table
    clientVisited,  \* how many client entries the walk has visited
    serverVisited   \* how many server entries the walk has visited

vars == <<client_entries, server_entries, free_list, owned, freeIds, created, freed,
          orphaned, destroying, clientVisited, serverVisited>>
tableVars == <<client_entries, server_entries, free_list>>
walkVars == <<destroying, clientVisited, serverVisited>>

Pointers == Resources \cup {NULL}
Words == Pointers \cup Nat

ClientOK == client_entries \in Seq(Pointers)

ServerOK ==
    /\ server_entries \in Seq(Words)
    /\ Len(server_entries) <= MaxEntries
    /\ free_list \in Nat \cup {NULL}
    /\ owned \subseteq 1 .. Len(server_entries)
    /\ freeIds \in Seq(Nat)

LifeOK ==
    /\ created \subseteq Resources
    /\ freed \subseteq created
    /\ orphaned \subseteq created
    /\ destroying \in BOOLEAN
    /\ clientVisited \in Nat
    /\ serverVisited \in Nat

TypeOK == ClientOK /\ ServerOK /\ LifeOK

(* wl_client_create(): an empty map, then NULL at id 0.                    *)
Init ==
    /\ client_entries = <<NULL>>
    /\ server_entries = <<>>
    /\ free_list = NULL
    /\ owned = {}
    /\ freeIds = <<>>
    /\ created = {}
    /\ freed = {}
    /\ orphaned = {}
    /\ destroying = FALSE
    /\ clientVisited = 0
    /\ serverVisited = 0

-----------------------------------------------------------------------------
(* map_entry_is_free(), and wl_map_lookup() for either kind of id.         *)
IsFree(word) == word \in Nat
wl_map_lookup(entries, id) ==
    IF id \in 1 .. Len(entries) /\ ~IsFree(entries[id]) THEN entries[id] ELSE NULL

(* wl_map_insert_new(): the head of the free list, or a new entry.         *)
wl_map_insert_new(id) ==
    \/ /\ free_list # NULL
       /\ id = free_list
       /\ free_list' = server_entries[id]
       /\ server_entries' = [server_entries EXCEPT ![id] = NULL]
       /\ freeIds' = Tail(freeIds)
    \/ /\ free_list = NULL
       /\ Len(server_entries) < MaxEntries
       /\ id = Len(server_entries) + 1
       /\ server_entries' = Append(server_entries, NULL)
       /\ UNCHANGED <<free_list, freeIds>>

(* wl_map_insert_at(): the array after storing a word, which may be the    *)
(* entry just past its end. Ids further out are refused with an error.     *)
wl_map_insert_at(entries, id, word) ==
    IF id = Len(entries) + 1 THEN Append(entries, word) ELSE [entries EXCEPT ![id] = word]

(* Faulty variant of wl_map_remove(): the entry does not link to the list. *)
RemoveLosesList(id) ==
    /\ server_entries' = [server_entries EXCEPT ![id] = NULL]
    /\ free_list' = id
    /\ freeIds' = <<id>> \o freeIds

(* wl_map_remove(): the entry becomes the head of the free list.           *)
wl_map_remove(id) ==
    /\ server_entries' = [server_entries EXCEPT ![id] = free_list]
    /\ free_list' = id
    /\ freeIds' = <<id>> \o freeIds

-----------------------------------------------------------------------------
(* wl_get_server_object_ids_batch(), one id of the batch at a time: the    *)
(* browser compositor receives an id it may use for its own objects.       *)
GetServerObjectId ==
    /\ ~destroying
    /\ \E id \in 1 .. MaxEntries :
        /\ wl_map_insert_new(id)
        /\ owned' = owned \cup {id}
    /\ UNCHANGED <<client_entries, created, freed, orphaned, walkVars>>

(* What loses its entry when a word is stored under an id: neither         *)
(* wl_resource_create() nor wl_map_insert_at() looks at what is there.     *)
Orphan(entries, id) == {wl_map_lookup(entries, id)} \ {NULL}

(* wl_resource_create() with a server id, called through createWlResource()*)
(* when the browser compositor makes an object: the id is one it owns, or  *)
(* the next one, "exactly in sync with the server side ids in the browser".*)
CreateAtServerId(id, r) ==
    /\ ~destroying
    /\ r \notin created
    /\ id \in owned \/ (id = Len(server_entries) + 1 /\ id <= MaxEntries)
    /\ server_entries' = wl_map_insert_at(server_entries, id, r)
    /\ orphaned' = orphaned \cup Orphan(server_entries, id)
    /\ owned' = owned \cup {id}
    /\ created' = created \cup {r}
    /\ UNCHANGED <<client_entries, free_list, freeIds, freed, walkVars>>

(* wl_map_reserve_new(), for a new id in a request handled natively; an id *)
(* further out or in use is refused and ends the client.                   *)
ReserveNew(id) ==
    /\ ~destroying
    /\ id = Len(client_entries) + 1
    /\ id <= MaxEntries
    /\ client_entries' = Append(client_entries, NULL)
    /\ UNCHANGED <<server_entries, free_list, owned, freeIds, created, freed, orphaned, walkVars>>

(* wl_resource_create() with a client id: reserved before by a native      *)
(* request, straight from a request the browser intercepts, or 0 from      *)
(* create of zwp_linux_buffer_params_v1. The id may be taken: by an object *)
(* of which the browser sent delete_id before it destroyed the resource,   *)
(* or by an earlier buffer at 0.                                           *)
CreateAtClientId(id, r) ==
    /\ ~destroying
    /\ r \notin created
    /\ id \in 1 .. Len(client_entries) + 1
    /\ id <= MaxEntries
    /\ client_entries' = wl_map_insert_at(client_entries, id, r)
    /\ orphaned' = orphaned \cup Orphan(client_entries, id)
    /\ created' = created \cup {r}
    /\ UNCHANGED <<server_entries, free_list, owned, freeIds, freed, walkVars>>

(* Whether code that was told of every destruction may still use r.        *)
Alive(r) == r \in created \ freed

(* Faulty variant of wl_resource_destroy(): the client id keeps its entry. *)
DestroyKeepsEntry(r) ==
    /\ Alive(r)
    /\ freed' = freed \cup {r}
    /\ UNCHANGED <<tableVars, owned, freeIds, created, orphaned, walkVars>>

(* wl_resource_destroy(), by a request handler or by a destroy callback of *)
(* another resource, also while wl_client_destroy() walks the table: a     *)
(* client id becomes NULL, a server id goes to the free list. Callers have *)
(* the resource from a lookup, so that it is never an orphan.              *)
wl_resource_destroy(r) ==
    /\ Alive(r)
    /\ \/ \E id \in 1 .. Len(client_entries) :
            /\ client_entries[id] = r
            /\ client_entries' = wl_map_insert_at(client_entries, id, NULL)
            /\ UNCHANGED <<server_entries, free_list, owned, freeIds>>
       \/ \E id \in 1 .. Len(server_entries) :
            /\ server_entries[id] = r
            /\ wl_map_remove(id)
            /\ owned' = owned \ {id}
            /\ UNCHANGED client_entries
    /\ freed' = freed \cup {r}
    /\ UNCHANGED <<created, orphaned, walkVars>>

(* Faulty variant of wl_resource_destroy_silently(): a server id goes to   *)
(* the free list although the browser recycles it.                         *)
DestroySilentlyRemoves(id) ==
    /\ ~destroying
    /\ wl_map_lookup(server_entries, id) # NULL
    /\ wl_map_remove(id)
    /\ freed' = freed \cup {server_entries[id]}
    /\ UNCHANGED <<client_entries, owned, created, orphaned, walkVars>>

(* wl_resource_destroy_silently() of the resource found under an id, which *)
(* the browser compositor recycles itself: the entry becomes NULL.         *)
wl_resource_destroy_silently(id) ==
    /\ ~destroying
    /\ \/ /\ wl_map_lookup(client_entries, id) # NULL
          /\ freed' = freed \cup {client_entries[id]}
          /\ client_entries' = wl_map_insert_at(client_entries, id, NULL)
          /\ UNCHANGED server_entries
       \/ /\ wl_map_lookup(server_entries, id) # NULL
          /\ freed' = freed \cup {server_entries[id]}
          /\ server_entries' = wl_map_insert_at(server_entries, id, NULL)
          /\ UNCHANGED client_entries
    /\ UNCHANGED <<free_list, owned, freeIds, created, orphaned, walkVars>>

(* wl_client_destroy(): wl_map_for_each() walks the client entries, then   *)
(* the server entries, and destroys what it finds without touching the     *)
(* entries.                                                                *)
ClientDestroyBegins ==
    /\ ~destroying
    /\ destroying' = TRUE
    /\ UNCHANGED <<tableVars, owned, freeIds, created, freed, orphaned, clientVisited, serverVisited>>

Free(word) == IF word \in Resources THEN freed \cup {word} ELSE freed

VisitClientEntry ==
    /\ destroying
    /\ clientVisited < Len(client_entries)
    /\ clientVisited' = clientVisited + 1
    /\ freed' = Free(client_entries[clientVisited + 1])
    /\ UNCHANGED <<tableVars, owned, freeIds, created, orphaned, destroying, serverVisited>>

VisitServerEntry ==
    /\ destroying
    /\ clientVisited = Len(client_entries)
    /\ serverVisited < Len(server_entries)
    /\ serverVisited' = serverVisited + 1
    /\ freed' = Free(server_entries[serverVisited + 1])
    /\ UNCHANGED <<tableVars, owned, freeIds, created, orphaned, destroying, clientVisited>>

Next ==
    \/ GetServerObjectId
    \/ \E id \in 1 .. MaxEntries :
        \/ ReserveNew(id)
        \/ wl_resource_destroy_silently(id)
        \/ \E r \in Resources : CreateAtServerId(id, r) \/ CreateAtClientId(id, r)
    \/ \E r \in Resources : wl_resource_destroy(r)
    \/ ClientDestroyBegins
    \/ VisitClientEntry
    \/ VisitServerEntry

Spec == Init /\ [][Next]_vars

-----------------------------------------------------------------------------
(* The free list, followed from free_list through the entries, visits      *)
(* exactly the server ids nobody owns, each once, and ends: an id that is  *)
(* removed is never lost and never on the list while its holder uses it.   *)
FreeListOK ==
    /\ free_list = IF freeIds = <<>> THEN NULL ELSE freeIds[1]
    /\ \A k \in 1 .. Len(freeIds) :
        /\ freeIds[k] \in (1 .. Len(server_entries)) \ owned
        /\ server_entries[freeIds[k]] = IF k = Len(freeIds) THEN NULL ELSE freeIds[k + 1]
    /\ \A j, k \in 1 .. Len(freeIds) : freeIds[j] = freeIds[k] => j = k
    /\ \A id \in (1 .. Len(server_entries)) \ owned : \E k \in 1 .. Len(freeIds) : freeIds[k] = id

(* What lookups return is alive while the client is: no entry points to a  *)
(* resource that was destroyed, and no free id resolves to a resource.     *)
LookupAlive ==
    ~destroying =>
        /\ \A id \in 1 .. Len(client_entries) : wl_map_lookup(client_entries, id) \notin freed
        /\ \A id \in 1 .. Len(server_entries) :
            /\ wl_map_lookup(server_entries, id) \notin freed
            /\ id \notin owned => wl_map_lookup(server_entries, id) = NULL

(* Every live resource is in the table until the walk of                   *)
(* wl_client_destroy() reaches it, so that none is leaked, and what the    *)
(* walk has still to visit is not freed, so that none is freed twice,      *)
(* whatever the destroy callbacks destroy meanwhile. Only resources whose  *)
(* entry wl_resource_create() wrote another one over are out of reach of   *)
(* the walk, and leaked.                                                   *)
FreedOnce ==
    /\ \A r \in created \ (freed \cup orphaned) :
        \/ \E k \in 1 .. Len(client_entries) : k > clientVisited /\ client_entries[k] = r
        \/ \E k \in 1 .. Len(server_entries) : k > serverVisited /\ server_entries[k] = r
    /\ \A k \in 1 .. Len(client_entries) : k > clientVisited => client_entries[k] \notin freed
    /\ \A k \in 1 .. Len(server_entries) : k > serverVisited => server_entries[k] \notin freed

(* The table implements ObjectTable for the holders of server ids.         *)
Table == INSTANCE ObjectTable
    WITH Ids <- 1 .. MaxEntries, at <- [id \in owned |-> server_entries[id]]
ImplementsTable == Table!Spec

-----------------------------------------------------------------------------
(* The strengthening that makes these properties inductive: an id in       *)
(* somebody's hands holds a pointer, never a link; a resource is in at     *)
(* most one entry; the walk has visited nothing before it begins.          *)
OwnedHoldPointers == \A id \in owned : server_entries[id] \in Pointers

StoredOnce ==
    /\ \A k \in 1 .. Len(client_entries) : client_entries[k] \in created \cup {NULL}
    /\ \A k \in 1 .. Len(server_entries) : server_entries[k] \in created \cup {NULL} \cup Nat
    /\ \A j, k \in 1 .. Len(client_entries) :
        client_entries[j] = client_entries[k] /\ client_entries[j] # NULL => j = k
    /\ \A j, k \in 1 .. Len(server_entries) :
        server_entries[j] = server_entries[k] /\ server_entries[j] \in Resources => j = k
    /\ \A j \in 1 .. Len(client_entries) : \A k \in 1 .. Len(server_entries) :
        client_entries[j] = server_entries[k] => client_entries[j] = NULL

WalkInv == ~destroying => clientVisited = 0 /\ serverVisited = 0

IInv == TypeOK /\ FreeListOK /\ OwnedHoldPointers /\ StoredOnce /\ FreedOnce /\ WalkInv
=============================================================================
