------------------------------ MODULE ShmPool -------------------------------
(***************************************************************************)
(* One wl_shm_pool of wayland-shm.c: the memory a client shares with the   *)
(* compositor, the buffers cut out of it, and the references the           *)
(* compositor takes while it reads, which outlive the client's requests    *)
(* to resize or destroy the pool.                                          *)
(*                                                                         *)
(* An address is a member of 1 .. MaxMappings, the start of one mapping.   *)
(* mremap() moves the mapping of the pool, or, with a reference held,      *)
(* makes a second one and leaves the first in place. Holders read in       *)
(* threads of their own, and a read beyond the end of the client's file    *)
(* raises SIGBUS there.                                                    *)
(***************************************************************************)
EXTENDS Integers, FiniteSets

CONSTANTS
    Buffers,        \* wl_buffer resources
    Holders,        \* references taken with wl_shm_buffer_ref_pool()
    IntMax,         \* INT32_MAX, the largest int
    MaxMappings,    \* bound: mappings of the process
    MaxNesting      \* bound: nested accesses of a thread

ASSUME ShmPoolAssumption ==
    /\ IsFiniteSet(Buffers)
    /\ IsFiniteSet(Holders)
    /\ IntMax \in Nat \ {0}
    /\ MaxMappings \in Nat \ {0}
    /\ MaxNesting \in Nat

VARIABLES
    resource,       \* whether the wl_shm_pool resource exists
    error,          \* the error posted to the client, which is then to be destroyed
    internal_refcount, \* wl_shm_pool.internal_refcount
    external_refcount, \* wl_shm_pool.external_refcount
    data,           \* wl_shm_pool.data
    size,           \* wl_shm_pool.size
    new_size,       \* wl_shm_pool.new_size
    mappings,       \* addresses in wl_shm_pool.mappings
    mapped,         \* addresses of existing mappings
    buffers,        \* region of every live buffer
    held,           \* addresses each holder got since it took its reference
    short,          \* whether the client's file is shorter than the pool
    sealed,         \* whether the file cannot shrink, F_SEAL_SHRINK
    sigbus_is_impossible, \* wl_shm_pool.sigbus_is_impossible
    grown,          \* the pool was resized
    access_count,   \* wl_shm_sigbus_data.access_count of each thread
    fallback_mapping_used, \* wl_shm_sigbus_data.fallback_mapping_used
    replaced,       \* mappings that were replaced by a fallback mapping
    killed          \* what killed the process, "no" for nothing

clientVars == <<resource, error, buffers>>
memoryVars == <<data, size, new_size, mappings, mapped>>
fileVars == <<short, sealed, sigbus_is_impossible>>
sigbusVars == <<access_count, fallback_mapping_used, replaced, killed>>
vars == <<clientVars, internal_refcount, external_refcount, memoryVars, held,
          fileVars, grown, sigbusVars>>

Addresses == 1 .. MaxMappings
Regions == [offset : 0 .. IntMax, bytes : Int]
NoHold == {}

(* A holder without a reference has nothing; one with a reference has at   *)
(* least the address it took the reference for.                            *)
Holding == {h \in Holders : held[h] # NoHold}

TypeOK ==
    /\ resource \in BOOLEAN
    /\ error \in {"none", "refused", "mremap", "access"}
    /\ internal_refcount \in Nat
    /\ external_refcount \in Nat
    /\ data \in Addresses
    /\ size \in 1 .. IntMax
    /\ new_size \in 1 .. IntMax
    /\ mappings \subseteq Addresses
    /\ mapped \subseteq Addresses
    /\ DOMAIN buffers \subseteq Buffers
    /\ \A b \in DOMAIN buffers : buffers[b] \in Regions
    /\ held \in [Holders -> SUBSET Addresses]
    /\ short \in BOOLEAN
    /\ sealed \in BOOLEAN
    /\ sigbus_is_impossible \in BOOLEAN
    /\ grown \in BOOLEAN
    /\ access_count \in [Holders -> 0 .. MaxNesting]
    /\ fallback_mapping_used \in [Holders -> BOOLEAN]
    /\ replaced \subseteq Addresses
    /\ killed \in {"no", "mmap", "sigbus"}

(* shm_create_pool(), after its checks: a pool with one reference, the one *)
(* of its resource. A file that holds the pool and cannot shrink makes     *)
(* SIGBUS impossible, for the size of the time.                            *)
Init ==
    /\ resource = TRUE
    /\ error = "none"
    /\ internal_refcount = 1
    /\ external_refcount = 0
    /\ data = 1
    /\ size \in 1 .. IntMax
    /\ new_size = size
    /\ mappings = {}
    /\ mapped = {data}
    /\ buffers = [b \in {} |-> [offset |-> 0, bytes |-> 0]]
    /\ held = [h \in Holders |-> NoHold]
    /\ short \in BOOLEAN
    /\ sealed \in BOOLEAN
    /\ sigbus_is_impossible = (sealed /\ ~short)
    /\ grown = FALSE
    /\ access_count = [h \in Holders |-> 0]
    /\ fallback_mapping_used = [h \in Holders |-> FALSE]
    /\ replaced = {}
    /\ killed = "no"

-----------------------------------------------------------------------------
(* The value of a product in an int, and shm_pool_create_buffer()'s checks *)
(* on it.                                                                  *)
ToInt(n) == ((n + IntMax + 1) % (2 * (IntMax + 1))) - (IntMax + 1)

(* Faulty variant of the checks: the product may overflow.                 *)
RegionFitsUnlessOverflow(offset, width, height, stride) ==
    /\ width <= stride
    /\ offset <= size - ToInt(stride * height)

RegionFits(offset, width, height, stride) ==
    /\ width <= stride
    /\ height <= IntMax \div stride
    /\ offset <= size - ToInt(stride * height)

(* format_is_supported(): two formats, and those that initShm() adds.      *)
AdditionalFormats == {"yuv420", "nv12", "yuv444", "nv21"}
FormatIsSupported(format) == format \in {"argb", "xrgb"} \cup AdditionalFormats

(* shm_pool_create_buffer(): a buffer and a reference, or an error, also   *)
(* when there is no memory.                                                *)
CreateBuffer(b) ==
    /\ resource /\ error = "none"
    /\ b \notin DOMAIN buffers
    /\ \E offset \in 0 .. IntMax, width, height, stride \in 1 .. IntMax,
          format \in {"nv12", "other"} :
        \/ /\ FormatIsSupported(format)
           /\ RegionFits(offset, width, height, stride)
           /\ buffers' = [c \in DOMAIN buffers \cup {b} |->
                            IF c = b THEN [offset |-> offset, bytes |-> stride * height]
                                     ELSE buffers[c]]
           /\ internal_refcount' = internal_refcount + 1
           /\ UNCHANGED error
        \/ /\ error' = "refused"
           /\ UNCHANGED <<buffers, internal_refcount>>
    /\ UNCHANGED <<resource, external_refcount, memoryVars, held, fileVars, grown, sigbusVars>>

(* shm_pool_resize(): shrinking is an error, and growing has to map the    *)
(* pool anew.                                                              *)
ResizeRefused(n) ==
    /\ n < size
    /\ error' = "refused"
    /\ UNCHANGED memoryVars

ResizeToSame(n) ==
    /\ n = size
    /\ new_size' = n
    /\ UNCHANGED <<error, data, size, mappings, mapped>>

(* Where mremap() puts a mapping: unused addresses are interchangeable.    *)
Fresh == {a \in Addresses \ mapped : \A b \in Addresses \ mapped : a <= b}

(* Faulty variant of growing: the old mapping is given up although the     *)
(* compositor still holds a reference.                                     *)
ResizeMoves(n) ==
    /\ n > size
    /\ new_size' = n
    /\ \E address \in Fresh :
        /\ data' = address
        /\ mapped' = (mapped \ {data}) \cup {address}
    /\ size' = n
    /\ UNCHANGED <<error, mappings>>

(* The mapping is moved, or grows in place; or, for the holders of a       *)
(* reference, stays and is recorded to be unmapped later.                  *)
ResizeGrows(n) ==
    /\ n > size
    /\ new_size' = n
    /\ \/ /\ external_refcount = 0
          /\ \E address \in Fresh \cup {data} :
                /\ data' = address
                /\ mapped' = (mapped \ {data}) \cup {address}
          /\ UNCHANGED mappings
       \/ /\ external_refcount > 0
          /\ \E address \in Fresh :
                /\ data' = address
                /\ mapped' = mapped \cup {address}
          /\ mappings' = mappings \cup {data}
    /\ size' = n
    /\ UNCHANGED error

(* mremap() fails: MAP_FAILED differs from the pool's address too, so with *)
(* a reference held the current mapping is recorded as a previous one.     *)
ResizeFails(n) ==
    /\ n > size
    /\ new_size' = n
    /\ mappings' = IF external_refcount > 0 THEN mappings \cup {data} ELSE mappings
    /\ error' = "mremap"
    /\ UNCHANGED <<data, size, mapped>>

Resize(n) ==
    /\ resource /\ error = "none"
    /\ ResizeRefused(n) \/ ResizeToSame(n) \/ ResizeGrows(n) \/ ResizeFails(n)
    /\ grown' = (grown \/ size' # size)
    /\ short' \in IF size' = size THEN {short} ELSE {short, TRUE}
    /\ UNCHANGED <<resource, internal_refcount, external_refcount, buffers, held, sealed,
                   sigbus_is_impossible, sigbusVars>>

-----------------------------------------------------------------------------
(* shm_pool_unref(): the last external reference unmaps the previous       *)
(* mappings, the last of all the pool.                                     *)
InternalUnref ==
    /\ internal_refcount' = internal_refcount - 1
    /\ mapped' = IF internal_refcount - 1 + external_refcount > 0 THEN mapped ELSE mapped \ {data}
    /\ UNCHANGED <<external_refcount, data, size, new_size, mappings>>

(* Faulty variant of the external case: previous mappings are forgotten.   *)
ExternalUnrefForgets ==
    /\ external_refcount' = external_refcount - 1
    /\ mappings' = IF external_refcount - 1 = 0 THEN {} ELSE mappings
    /\ mapped' = IF internal_refcount + external_refcount - 1 > 0 THEN mapped ELSE mapped \ {data}
    /\ UNCHANGED <<internal_refcount, data, size, new_size>>

ExternalUnref ==
    LET left == external_refcount - 1
        previous == IF left = 0 THEN mappings ELSE {}
    IN  /\ external_refcount' = left
        /\ mappings' = mappings \ previous
        /\ mapped' = (mapped \ previous) \ (IF internal_refcount + left > 0 THEN {} ELSE {data})
        /\ UNCHANGED <<internal_refcount, data, size, new_size>>

(* Faulty variant of destroy_buffer(): its reference is not dropped.       *)
DestroyBufferKeepsRef(b) ==
    /\ b \in DOMAIN buffers
    /\ buffers' = [c \in DOMAIN buffers \ {b} |-> buffers[c]]
    /\ UNCHANGED <<internal_refcount, external_refcount, memoryVars, resource, error, held, fileVars, grown, sigbusVars>>

(* destroy_buffer() and destroy_pool(), at the client's request or when    *)
(* the client is destroyed.                                                *)
DestroyBuffer(b) ==
    /\ b \in DOMAIN buffers
    /\ buffers' = [c \in DOMAIN buffers \ {b} |-> buffers[c]]
    /\ InternalUnref
    /\ UNCHANGED <<resource, error, held, fileVars, grown, sigbusVars>>

DestroyPool ==
    /\ resource
    /\ resource' = FALSE
    /\ InternalUnref
    /\ UNCHANGED <<error, buffers, held, fileVars, grown, sigbusVars>>

(* wl_shm_buffer_ref_pool() and wl_shm_buffer_get_data() by the            *)
(* compositor, for a live buffer of a client that is not on its way out.   *)
RefPool(h) ==
    /\ error = "none"
    /\ h \notin Holding
    /\ DOMAIN buffers # {}
    /\ external_refcount' = external_refcount + 1
    /\ held' = [held EXCEPT ![h] = {data}]
    /\ UNCHANGED <<internal_refcount, clientVars, memoryVars, fileVars, grown, sigbusVars>>

GetData(h) ==
    /\ error = "none"
    /\ h \in Holding
    /\ DOMAIN buffers # {}
    /\ held' = [held EXCEPT ![h] = @ \cup {data}]
    /\ UNCHANGED <<internal_refcount, external_refcount, clientVars, memoryVars, fileVars, grown, sigbusVars>>

(* wl_shm_pool_unref(), at any time after, also when the client is gone.   *)
UnrefPool(h) ==
    /\ h \in Holding
    /\ access_count[h] = 0
    /\ held' = [held EXCEPT ![h] = NoHold]
    /\ ExternalUnref
    /\ UNCHANGED <<clientVars, fileVars, grown, sigbusVars>>

-----------------------------------------------------------------------------
(* The client cuts or extends its file, across the size of the pool.       *)
FileResized ==
    /\ sealed => short
    /\ short' = ~short
    /\ UNCHANGED <<clientVars, internal_refcount, external_refcount, memoryVars, held,
                   sealed, sigbus_is_impossible, grown, sigbusVars>>

(* wl_shm_buffer_begin_access(): it has an effect only if SIGBUS is not    *)
(* impossible.                                                             *)
BeginAccess(h) ==
    /\ h \in Holding
    /\ DOMAIN buffers # {}
    /\ ~sigbus_is_impossible
    /\ access_count[h] < MaxNesting
    /\ access_count' = [access_count EXCEPT ![h] = @ + 1]
    /\ UNCHANGED <<clientVars, internal_refcount, external_refcount, memoryVars, held,
                   fileVars, grown, fallback_mapping_used, replaced, killed>>

(* sigbus_handler(): a read beyond the end of the file, in an access, at   *)
(* one of the addresses the thread has. The mapping of the pool is         *)
(* replaced by memory; any other address kills the process, and so does    *)
(* every one when SIGBUS was thought impossible.                           *)
Recognised(h, address) == access_count[h] > 0 /\ address = data
Sigbus(h, address) ==
    /\ access_count[h] > 0 \/ sigbus_is_impossible
    /\ address \in held[h] \ replaced
    /\ short
    /\ \/ /\ Recognised(h, address)
          /\ fallback_mapping_used' = [fallback_mapping_used EXCEPT ![h] = TRUE]
          /\ replaced' = replaced \cup {address}
          /\ UNCHANGED killed
       \/ /\ killed' = IF Recognised(h, address) THEN "mmap" ELSE "sigbus"
          /\ UNCHANGED <<fallback_mapping_used, replaced>>
    /\ UNCHANGED <<clientVars, internal_refcount, external_refcount, memoryVars, held,
                   fileVars, grown, access_count>>

(* Faulty variant: the fallback mapping is forgotten.                      *)
NeverReported(h) == FALSE

(* wl_shm_buffer_end_access(), for a buffer that still exists: the last    *)
(* one of nested accesses posts the error.                                 *)
Reported(h) == access_count[h] = 1 /\ fallback_mapping_used[h]
EndAccess(h) ==
    /\ access_count[h] > 0
    /\ DOMAIN buffers # {}
    /\ access_count' = [access_count EXCEPT ![h] = @ - 1]
    /\ fallback_mapping_used' = [fallback_mapping_used EXCEPT ![h] = @ /\ access_count[h] > 1]
    /\ error' = IF Reported(h) /\ error = "none" THEN "access" ELSE error
    /\ UNCHANGED <<resource, buffers, internal_refcount, external_refcount, memoryVars, held,
                   fileVars, grown, replaced, killed>>

Step ==
    \/ \E b \in Buffers : CreateBuffer(b) \/ DestroyBuffer(b)
    \/ \E n \in 1 .. IntMax : Resize(n)
    \/ DestroyPool
    \/ \E h \in Holders :
        \/ RefPool(h) \/ GetData(h) \/ UnrefPool(h) \/ BeginAccess(h) \/ EndAccess(h)
        \/ \E address \in Addresses : Sigbus(h, address)
    \/ FileResized

Next == killed = "no" /\ Step

Spec == Init /\ [][Next]_vars

-----------------------------------------------------------------------------
(* The pool exists while somebody has a reference to it.                   *)
Live == internal_refcount + external_refcount > 0

(* What the compositor reads stays mapped until it drops its reference,    *)
(* whatever the client resizes or destroys meanwhile.                      *)
HeldStaysMapped == \A h \in Holders : held[h] \subseteq mapped

(* Every buffer lies inside the pool, also after any number of resizes and *)
(* however large the numbers of the request were.                          *)
BuffersInBounds ==
    \A b \in DOMAIN buffers :
        /\ buffers[b].bytes > 0
        /\ buffers[b].offset + buffers[b].bytes <= size

(* The counters are the references: the pool is neither freed under a      *)
(* buffer or a holder, nor kept without one.                               *)
RefsExact ==
    /\ internal_refcount = Cardinality(DOMAIN buffers) + (IF resource THEN 1 ELSE 0)
    /\ external_refcount = Cardinality(Holding)

(* Unless an mremap() failed, the mappings that exist are the pool's and   *)
(* the recorded previous ones, which a reference still needs; none is left *)
(* when the pool is freed.                                                 *)
NothingLeaked ==
    error # "mremap" =>
        /\ mapped = IF Live THEN mappings \cup {data} ELSE {}
        /\ external_refcount = 0 => mappings = {}

(* Reads of a client's memory survive whatever the client does to its      *)
(* file: where the content was replaced the client gets an error, when the *)
(* last of nested accesses ends, in every thread; and a fault can kill the *)
(* process only after the pool was resized, since neither the promise of a *)
(* sealed file is renewed nor a previous mapping recognised                *)
(* (shm_create_pool(), sigbus_handler(), wl_shm_buffer_end_access()).      *)
SigbusContained ==
    /\ replaced # {} => error # "none" \/ \E h \in Holders : fallback_mapping_used[h]
    /\ \A h \in Holders : fallback_mapping_used[h] => access_count[h] > 0
    /\ sigbus_is_impossible /\ ~grown => ~short
    /\ killed = "sigbus" => grown
=============================================================================
