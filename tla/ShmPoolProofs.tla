--------------------------- MODULE ShmPoolProofs ----------------------------
(***************************************************************************)
(* Proofs about ShmPool for any finite sets of buffers and holders, any    *)
(* width of int and any number of mappings and nested accesses.            *)
(***************************************************************************)
EXTENDS ShmPool, FiniteSetTheorems, TLAPS

-----------------------------------------------------------------------------
(* The inductive invariant: the properties themselves, and the three facts *)
(* they lean on. The current mapping is not among the recorded previous    *)
(* ones; only a file that cannot shrink makes SIGBUS impossible; and until *)
(* the pool is resized there is only one address to read.                  *)
PromiseSealed == sigbus_is_impossible => sealed
CurrentNotPrevious == error # "mremap" => data \notin mappings
OneAddress == ~grown => \A h \in Holders : held[h] \subseteq {data}

PoolInv ==
    /\ TypeOK
    /\ RefsExact
    /\ HeldStaysMapped
    /\ NothingLeaked
    /\ CurrentNotPrevious
    /\ BuffersInBounds
    /\ SigbusContained
    /\ PromiseSealed
    /\ OneAddress

-----------------------------------------------------------------------------
(* A product that the division of shm_pool_create_buffer() lets through    *)
(* fits an int, and converting it changes nothing.                         *)
LEMMA ProductFits ==
  ASSUME NEW stride \in 1 .. IntMax, NEW height \in 1 .. IntMax,
         height <= IntMax \div stride
  PROVE  /\ stride * height \in 1 .. IntMax
         /\ ToInt(stride * height) = stride * height
<1>1. IntMax \in Nat
  BY ShmPoolAssumption
<1> DEFINE q == IntMax \div stride
<1>2. q \in Nat /\ stride * q <= IntMax
  BY <1>1
<1> HIDE DEF q
<1>3. stride * height <= stride * q /\ stride * height >= 1 /\ stride * height \in Int
  <2>1. height <= q BY DEF q
  <2> QED BY <1>2, <2>1
<1> DEFINE p == stride * height
<1>4. p \in 1 .. IntMax
  BY <1>1, <1>2, <1>3
<1> HIDE DEF p
<1>5. ToInt(p) = p
  BY <1>1, <1>4 DEF ToInt
<1> QED BY <1>4, <1>5 DEF p

-----------------------------------------------------------------------------
(* The pool that shm_create_pool() makes.                                  *)
LEMMA InitInv == Init => PoolInv
<1> SUFFICES ASSUME Init PROVE PoolInv
  OBVIOUS
<1>1. Holding = {} /\ Cardinality({}) = 0 /\ DOMAIN buffers = {}
  BY FS_EmptySet DEF Init, Holding
<1>2. TypeOK
  <2>1. sigbus_is_impossible \in BOOLEAN
    BY Zenon DEF Init
  <2>2. /\ held \in [Holders -> SUBSET Addresses]
        /\ access_count \in [Holders -> 0 .. MaxNesting]
        /\ fallback_mapping_used \in [Holders -> BOOLEAN]
    BY ShmPoolAssumption DEF Init, NoHold
  <2>3. data \in Addresses /\ size \in 1 .. IntMax /\ new_size \in 1 .. IntMax
    BY ShmPoolAssumption DEF Init, Addresses
  <2> QED BY <1>1, <2>1, <2>2, <2>3 DEF Init, TypeOK
<1>3. RefsExact
  BY <1>1 DEF Init, RefsExact
<1>4. HeldStaysMapped /\ NothingLeaked /\ CurrentNotPrevious
  BY DEF Init, HeldStaysMapped, NothingLeaked, CurrentNotPrevious, NoHold, Live
<1>5. BuffersInBounds
  BY <1>1 DEF BuffersInBounds
<1>6. SigbusContained /\ PromiseSealed /\ OneAddress
  BY DEF Init, SigbusContained, PromiseSealed, OneAddress, NoHold
<1> QED BY <1>2, <1>3, <1>4, <1>5, <1>6 DEF PoolInv

(* The finite sets that the counters count.                                *)
LEMMA CountedFinite ==
  TypeOK => /\ IsFiniteSet(DOMAIN buffers) /\ Cardinality(DOMAIN buffers) \in Nat
            /\ IsFiniteSet(Holding) /\ Cardinality(Holding) \in Nat
<1> SUFFICES ASSUME TypeOK PROVE /\ IsFiniteSet(DOMAIN buffers) /\ IsFiniteSet(Holding)
  BY FS_CardinalityType
<1>1. IsFiniteSet(DOMAIN buffers)
  BY FS_Subset, ShmPoolAssumption DEF TypeOK
<1>2. Holding \subseteq Holders /\ IsFiniteSet(Holders)
  BY ShmPoolAssumption DEF Holding
<1> QED BY <1>1, <1>2, FS_Subset

(* Without an external reference nobody holds an address.                  *)
LEMMA NobodyHolds ==
  ASSUME PoolInv, external_refcount = 0
  PROVE  \A h \in Holders : held[h] = {}
<1>1. Holding = {}
  BY CountedFinite, FS_EmptySet DEF PoolInv, RefsExact
<1> QED BY <1>1 DEF Holding, NoHold

(* While a buffer exists the pool does too, so unless an mremap() failed   *)
(* its mapping is there.                                                   *)
LEMMA BufferKeepsPool ==
  ASSUME PoolInv, DOMAIN buffers # {}
  PROVE  Live /\ internal_refcount > 0 /\ (error # "mremap" => data \in mapped)
<1>1. Cardinality(DOMAIN buffers) > 0
  BY CountedFinite, FS_EmptySet DEF PoolInv
<1>2. internal_refcount > 0 /\ Live
  BY <1>1, CountedFinite DEF PoolInv, RefsExact, TypeOK, Live
<1> QED BY <1>2 DEF PoolInv, NothingLeaked

-----------------------------------------------------------------------------
(* shm_pool_create_buffer(): the checks keep the region inside the pool,   *)
(* and the buffer's reference is counted.                                  *)
LEMMA CreateBufferStep ==
  ASSUME PoolInv, NEW b \in Buffers, CreateBuffer(b)
  PROVE  PoolInv'
<1>1. PICK offset \in 0 .. IntMax, width \in 1 .. IntMax, height \in 1 .. IntMax, stride \in 1 .. IntMax :
        \/ /\ RegionFits(offset, width, height, stride)
           /\ buffers' = [c \in DOMAIN buffers \cup {b} |->
                            IF c = b THEN [offset |-> offset, bytes |-> stride * height]
                                     ELSE buffers[c]]
           /\ internal_refcount' = internal_refcount + 1
           /\ UNCHANGED error
        \/ /\ error' = "refused"
           /\ UNCHANGED <<buffers, internal_refcount>>
  BY DEF CreateBuffer
<1>2. /\ UNCHANGED <<resource, external_refcount, memoryVars, held, fileVars, grown, sigbusVars>>
      /\ error = "none" /\ b \notin DOMAIN buffers
  BY DEF CreateBuffer
<1> USE <1>2 DEF memoryVars, fileVars, sigbusVars
<1>3. TypeOK' /\ RefsExact' /\ BuffersInBounds'
  <2>1. CASE error' = "refused" /\ UNCHANGED <<buffers, internal_refcount>>
    <3>1. Holding' = Holding BY DEF Holding
    <3>2. TypeOK' BY <2>1 DEF PoolInv, TypeOK
    <3>3. RefsExact' BY <2>1, <3>1 DEF PoolInv, RefsExact
    <3>4. BuffersInBounds' BY <2>1 DEF PoolInv, BuffersInBounds
    <3> QED BY <3>2, <3>3, <3>4
  <2>2. CASE /\ RegionFits(offset, width, height, stride)
             /\ buffers' = [c \in DOMAIN buffers \cup {b} |->
                            IF c = b THEN [offset |-> offset, bytes |-> stride * height]
                                     ELSE buffers[c]]
             /\ internal_refcount' = internal_refcount + 1
             /\ UNCHANGED error
    <3>1. stride * height \in 1 .. IntMax /\ offset <= size - stride * height
      BY <2>2, ProductFits DEF RegionFits
    <3> DEFINE region == [offset |-> offset, bytes |-> stride * height]
    <3>2. region \in Regions /\ region.bytes > 0 /\ region.offset + region.bytes <= size
      BY <3>1, ShmPoolAssumption DEF Regions, PoolInv, TypeOK
    <3> HIDE DEF region
    <3>3. /\ DOMAIN buffers' = DOMAIN buffers \cup {b} /\ buffers'[b] = region
          /\ \A c \in DOMAIN buffers : buffers'[c] = buffers[c]
      BY <2>2 DEF region
    <3>4. TypeOK'
      BY <2>2, <3>2, <3>3 DEF PoolInv, TypeOK
    <3>5. BuffersInBounds'
      BY <3>2, <3>3 DEF PoolInv, BuffersInBounds
    <3>6. Cardinality(DOMAIN buffers') = Cardinality(DOMAIN buffers) + 1
      BY <3>3, CountedFinite, FS_AddElement DEF PoolInv
    <3>7. Holding' = Holding BY DEF Holding
    <3>8. RefsExact'
      BY <2>2, <3>6, <3>7, CountedFinite DEF PoolInv, RefsExact
    <3> QED BY <3>4, <3>5, <3>8
  <2> QED BY <1>1, <2>1, <2>2
<1>4. error' # "mremap" /\ error' \in {"none", "refused"}
  BY <1>1
<1>5. HeldStaysMapped' /\ CurrentNotPrevious' /\ PromiseSealed' /\ OneAddress' /\ SigbusContained'
  BY <1>4 DEF PoolInv, HeldStaysMapped, CurrentNotPrevious, PromiseSealed, OneAddress, SigbusContained
<1>6. NothingLeaked'
  <2>1. Live
    BY CountedFinite DEF PoolInv, RefsExact, TypeOK, Live, CreateBuffer
  <2>2. Live'
    BY <1>1, <2>1 DEF Live, PoolInv, TypeOK
  <2> QED BY <2>1, <2>2 DEF PoolInv, NothingLeaked
<1> QED BY <1>3, <1>5, <1>6 DEF PoolInv

(* shm_pool_resize(): what holders read stays, and what they may read next *)
(* is a mapping of its own.                                                *)
LEMMA ResizeStep ==
  ASSUME PoolInv, NEW n \in 1 .. IntMax, Resize(n)
  PROVE  PoolInv'
<1>1. /\ resource /\ error = "none"
      /\ grown' = (grown \/ size' # size)
      /\ short' \in IF size' = size THEN {short} ELSE {short, TRUE}
      /\ UNCHANGED <<resource, internal_refcount, external_refcount, buffers, held, sealed,
                   sigbus_is_impossible, sigbusVars>>
  BY DEF Resize
<1>2. Live /\ Live'
  BY <1>1, CountedFinite DEF PoolInv, RefsExact, TypeOK, Live
<1>3. mapped = mappings \cup {data} /\ (external_refcount = 0 => mappings = {}) /\ data \notin mappings
  BY <1>1, <1>2 DEF PoolInv, NothingLeaked, CurrentNotPrevious
<1>4. size' >= size /\ size' \in 1 .. IntMax /\ new_size' \in 1 .. IntMax /\ data' \in Addresses
      /\ mapped' \subseteq Addresses /\ mappings' \subseteq Addresses
      /\ error' \in {"none", "refused", "mremap"}
      /\ (size' = size => data' = data)
  BY <1>1 DEF Resize, ResizeRefused, ResizeToSame, ResizeGrows, ResizeFails, memoryVars, PoolInv, TypeOK, Fresh
<1>5. TypeOK'
  <2>1. short' \in BOOLEAN /\ grown' \in BOOLEAN
    BY <1>1 DEF PoolInv, TypeOK
  <2> QED BY <1>1, <1>4, <2>1 DEF PoolInv, TypeOK, sigbusVars
<1>6. RefsExact'
  <2>1. Holding' = Holding BY <1>1 DEF Holding
  <2> QED BY <1>1, <2>1 DEF PoolInv, RefsExact
<1>7. BuffersInBounds'
  BY <1>1, <1>4 DEF PoolInv, BuffersInBounds, TypeOK, Regions
<1>8. HeldStaysMapped'
  <2>1. CASE external_refcount = 0
    BY <1>1, <2>1, NobodyHolds DEF HeldStaysMapped
  <2>2. CASE external_refcount # 0
    <3>1. mapped \subseteq mapped'
      BY <2>2 DEF Resize, ResizeRefused, ResizeToSame, ResizeGrows, ResizeFails, memoryVars
    <3> QED BY <1>1, <3>1 DEF PoolInv, HeldStaysMapped
  <2> QED BY <2>1, <2>2
<1>9. NothingLeaked' /\ CurrentNotPrevious'
  <2>1. CASE ResizeGrows(n)
    <3>1. external_refcount \in Nat BY DEF PoolInv, TypeOK
    <3>2. CASE external_refcount = 0
      <4>1. mapped' = {data'} /\ mappings' = {}
        BY <1>3, <2>1, <3>2 DEF ResizeGrows
      <4> QED BY <1>1, <1>2, <4>1 DEF NothingLeaked, CurrentNotPrevious
    <3>3. CASE external_refcount > 0
      <4>1. mapped' = mapped \cup {data'} /\ mappings' = mappings \cup {data} /\ data' \notin mapped
        BY <2>1, <3>3 DEF ResizeGrows, Fresh
      <4> QED BY <1>1, <1>2, <1>3, <3>3, <4>1 DEF NothingLeaked, CurrentNotPrevious
    <3> QED BY <3>1, <3>2, <3>3
  <2>2. CASE ResizeFails(n)
    BY <2>2 DEF ResizeFails, NothingLeaked, CurrentNotPrevious
  <2>3. CASE ResizeRefused(n) \/ ResizeToSame(n)
    BY <1>1, <1>2, <1>3, <2>3 DEF ResizeRefused, ResizeToSame, memoryVars, NothingLeaked, CurrentNotPrevious
  <2> QED BY <2>1, <2>2, <2>3 DEF Resize
<1>10. SigbusContained' /\ PromiseSealed' /\ OneAddress'
  <2>1. OneAddress' /\ PromiseSealed'
    BY <1>1, <1>4 DEF PoolInv, OneAddress, PromiseSealed
  <2>2. SigbusContained'
    BY <1>1, <1>4 DEF PoolInv, SigbusContained, sigbusVars
  <2> QED BY <2>1, <2>2
<1> QED BY <1>5, <1>6, <1>7, <1>8, <1>9, <1>10 DEF PoolInv

-----------------------------------------------------------------------------
(* destroy_buffer() and destroy_pool() drop one internal reference; the    *)
(* mapping goes with the last reference of all.                            *)
LEMMA InternalUnrefStep ==
  ASSUME PoolInv, InternalUnref, internal_refcount > 0, UNCHANGED <<held, error>>
  PROVE  HeldStaysMapped' /\ NothingLeaked' /\ CurrentNotPrevious'
<1>1. internal_refcount \in Nat /\ external_refcount \in Nat
  BY DEF PoolInv, TypeOK
<1>2. Live
  BY <1>1 DEF Live
<1>3. /\ internal_refcount' = internal_refcount - 1
      /\ UNCHANGED <<external_refcount, data, mappings>>
  BY DEF InternalUnref
<1>4. CASE Live'
  <2>1. mapped' = mapped
    BY <1>4 DEF Live, InternalUnref
  <2> QED BY <1>2, <1>3, <1>4, <2>1 DEF PoolInv, HeldStaysMapped, NothingLeaked, CurrentNotPrevious
<1>5. CASE ~Live'
  <2>1. external_refcount = 0 /\ mapped' = mapped \ {data}
    BY <1>1, <1>3, <1>5 DEF Live, InternalUnref
  <2>2. HeldStaysMapped'
    BY <2>1, NobodyHolds DEF HeldStaysMapped
  <2>3. NothingLeaked' /\ CurrentNotPrevious'
    BY <1>2, <1>3, <1>5, <2>1 DEF PoolInv, NothingLeaked, CurrentNotPrevious
  <2> QED BY <2>2, <2>3
<1> QED BY <1>4, <1>5

(* destroy_buffer(): its region and its reference go together.             *)
LEMMA DestroyBufferStep ==
  ASSUME PoolInv, NEW b \in Buffers, DestroyBuffer(b)
  PROVE  PoolInv'
<1>1. /\ b \in DOMAIN buffers
      /\ buffers' = [c \in DOMAIN buffers \ {b} |-> buffers[c]]
      /\ InternalUnref
      /\ UNCHANGED <<resource, error, held, fileVars, grown, sigbusVars>>
  BY DEF DestroyBuffer
<1>2. internal_refcount > 0
  BY <1>1, BufferKeepsPool
<1>3. /\ internal_refcount' = internal_refcount - 1
      /\ UNCHANGED <<external_refcount, data, size, new_size, mappings>>
      /\ mapped' \subseteq mapped
  BY <1>1 DEF InternalUnref
<1>4. DOMAIN buffers' = DOMAIN buffers \ {b} /\ \A c \in DOMAIN buffers' : buffers'[c] = buffers[c]
  BY <1>1
<1>5. TypeOK'
  BY <1>1, <1>2, <1>3, <1>4 DEF PoolInv, TypeOK, fileVars, sigbusVars
<1>6. RefsExact'
  <2>1. Cardinality(DOMAIN buffers') = Cardinality(DOMAIN buffers) - 1
    BY <1>1, <1>4, CountedFinite, FS_RemoveElement DEF PoolInv
  <2>2. Holding' = Holding BY <1>1 DEF Holding
  <2> QED BY <1>1, <1>3, <2>1, <2>2, CountedFinite DEF PoolInv, RefsExact
<1>7. HeldStaysMapped' /\ NothingLeaked' /\ CurrentNotPrevious'
  BY <1>1, <1>2, InternalUnrefStep
<1>8. BuffersInBounds'
  BY <1>3, <1>4 DEF PoolInv, BuffersInBounds
<1>9. SigbusContained' /\ PromiseSealed' /\ OneAddress'
  BY <1>1, <1>3 DEF PoolInv, SigbusContained, PromiseSealed, OneAddress, fileVars, sigbusVars
<1> QED BY <1>5, <1>6, <1>7, <1>8, <1>9 DEF PoolInv

(* destroy_pool(): the resource's own reference.                           *)
LEMMA DestroyPoolStep ==
  ASSUME PoolInv, DestroyPool
  PROVE  PoolInv'
<1>1. /\ resource /\ resource' = FALSE
      /\ InternalUnref
      /\ UNCHANGED <<error, buffers, held, fileVars, grown, sigbusVars>>
  BY DEF DestroyPool
<1>2. internal_refcount > 0
  BY <1>1, CountedFinite DEF PoolInv, RefsExact
<1>3. /\ internal_refcount' = internal_refcount - 1
      /\ UNCHANGED <<external_refcount, data, size, new_size, mappings>>
      /\ mapped' \subseteq mapped
  BY <1>1 DEF InternalUnref
<1>4. TypeOK'
  <2>1. resource' \in BOOLEAN
    BY <1>1, Zenon
  <2>2. UNCHANGED <<error, buffers, held, fileVars, grown, sigbusVars>>
    BY <1>1
  <2>3. internal_refcount' \in Nat
    BY <1>2, <1>3 DEF PoolInv, TypeOK
  <2> QED BY <1>3, <2>1, <2>2, <2>3 DEF PoolInv, TypeOK, fileVars, sigbusVars
<1>5. RefsExact'
  <2>1. Holding' = Holding BY <1>1 DEF Holding
  <2> QED BY <1>1, <1>3, <2>1, CountedFinite DEF PoolInv, RefsExact
<1>6. HeldStaysMapped' /\ NothingLeaked' /\ CurrentNotPrevious'
  BY <1>1, <1>2, InternalUnrefStep
<1>7. BuffersInBounds'
  BY <1>1, <1>3 DEF PoolInv, BuffersInBounds
<1>8. SigbusContained'
  BY <1>1 DEF PoolInv, SigbusContained, fileVars, sigbusVars
<1>9. PromiseSealed' /\ OneAddress'
  BY <1>1, <1>3 DEF PoolInv, PromiseSealed, OneAddress, fileVars
<1> QED BY <1>4, <1>5, <1>6, <1>7, <1>8, <1>9 DEF PoolInv

-----------------------------------------------------------------------------
(* wl_shm_buffer_ref_pool(): one more holder, of the current mapping.      *)
LEMMA RefPoolStep ==
  ASSUME PoolInv, NEW h \in Holders, RefPool(h)
  PROVE  PoolInv'
<1>1. /\ error = "none" /\ h \notin Holding /\ DOMAIN buffers # {}
      /\ external_refcount' = external_refcount + 1
      /\ held' = [held EXCEPT ![h] = {data}]
      /\ UNCHANGED <<internal_refcount, clientVars, memoryVars, fileVars, grown, sigbusVars>>
  BY DEF RefPool
<1> USE <1>1 DEF clientVars, memoryVars, fileVars, sigbusVars
<1>2. held \in [Holders -> SUBSET Addresses] /\ data \in Addresses /\ external_refcount \in Nat
      /\ internal_refcount \in Nat
  BY DEF PoolInv, TypeOK
<1>3. Live /\ Live' /\ data \in mapped
  BY <1>2, BufferKeepsPool DEF Live
<1>4. TypeOK'
  BY <1>2 DEF PoolInv, TypeOK
<1>5. RefsExact'
  <2>1. Holding' = Holding \cup {h}
    BY <1>2 DEF Holding, NoHold
  <2>2. Cardinality(Holding') = Cardinality(Holding) + 1
    BY <2>1, CountedFinite, FS_AddElement DEF PoolInv
  <2> QED BY <2>2, CountedFinite DEF PoolInv, RefsExact
<1>6. HeldStaysMapped' /\ OneAddress'
  BY <1>2, <1>3 DEF PoolInv, HeldStaysMapped, OneAddress
<1>7. NothingLeaked' /\ CurrentNotPrevious'
  BY <1>2, <1>3 DEF PoolInv, NothingLeaked, CurrentNotPrevious
<1>8. BuffersInBounds' /\ SigbusContained' /\ PromiseSealed'
  BY DEF PoolInv, BuffersInBounds, SigbusContained, PromiseSealed
<1> QED BY <1>4, <1>5, <1>6, <1>7, <1>8 DEF PoolInv

(* wl_shm_buffer_get_data(): a holder reads at the current mapping too.    *)
LEMMA GetDataStep ==
  ASSUME PoolInv, NEW h \in Holders, GetData(h)
  PROVE  PoolInv'
<1>1. /\ error = "none" /\ h \in Holding /\ DOMAIN buffers # {}
      /\ held' = [held EXCEPT ![h] = @ \cup {data}]
      /\ UNCHANGED <<internal_refcount, external_refcount, clientVars, memoryVars, fileVars, grown, sigbusVars>>
  BY DEF GetData
<1> USE <1>1 DEF clientVars, memoryVars, fileVars, sigbusVars
<1>2. held \in [Holders -> SUBSET Addresses] /\ data \in Addresses
  BY DEF PoolInv, TypeOK
<1>3. data \in mapped
  BY BufferKeepsPool
<1>4. TypeOK'
  BY <1>2 DEF PoolInv, TypeOK
<1>5. RefsExact'
  <2>1. Holding' = Holding
    BY <1>2 DEF Holding, NoHold
  <2> QED BY <2>1 DEF PoolInv, RefsExact
<1>6. HeldStaysMapped' /\ OneAddress'
  BY <1>2, <1>3 DEF PoolInv, HeldStaysMapped, OneAddress
<1>7. NothingLeaked' /\ CurrentNotPrevious'
  BY DEF PoolInv, NothingLeaked, CurrentNotPrevious, Live
<1>8. BuffersInBounds' /\ SigbusContained' /\ PromiseSealed'
  BY DEF PoolInv, BuffersInBounds, SigbusContained, PromiseSealed
<1> QED BY <1>4, <1>5, <1>6, <1>7, <1>8 DEF PoolInv

(* wl_shm_pool_unref(): the last holder takes the previous mappings along, *)
(* and the pool if the client has no reference either.                     *)
LEMMA UnrefPoolStep ==
  ASSUME PoolInv, NEW h \in Holders, UnrefPool(h)
  PROVE  PoolInv'
<1>1. /\ h \in Holding /\ access_count[h] = 0
      /\ held' = [held EXCEPT ![h] = NoHold]
      /\ ExternalUnref
      /\ UNCHANGED <<clientVars, fileVars, grown, sigbusVars>>
  BY DEF UnrefPool
<1> USE DEF clientVars, fileVars, sigbusVars
<1>2. held \in [Holders -> SUBSET Addresses] /\ external_refcount \in Nat /\ internal_refcount \in Nat
  BY DEF PoolInv, TypeOK
<1>3. Holding' = Holding \ {h}
  BY <1>1, <1>2 DEF Holding, NoHold
<1>4. Cardinality(Holding') = Cardinality(Holding) - 1 /\ external_refcount > 0
  <2>1. Cardinality(Holding) > 0
    BY <1>1, CountedFinite, FS_EmptySet DEF PoolInv
  <2> QED BY <1>1, <1>3, <2>1, CountedFinite, FS_RemoveElement DEF PoolInv, RefsExact
<1>5. /\ external_refcount' = external_refcount - 1
      /\ UNCHANGED <<internal_refcount, data, size, new_size>>
      /\ mappings' = IF external_refcount - 1 = 0 THEN {} ELSE mappings
      /\ mapped' = (mapped \ (IF external_refcount - 1 = 0 THEN mappings ELSE {}))
                   \ (IF internal_refcount + (external_refcount - 1) > 0 THEN {} ELSE {data})
  BY <1>1 DEF ExternalUnref
<1>6. TypeOK'
  <2>1. external_refcount' \in Nat /\ mappings' \subseteq Addresses /\ mapped' \subseteq Addresses
    BY <1>2, <1>4, <1>5 DEF PoolInv, TypeOK
  <2>2. held' \in [Holders -> SUBSET Addresses]
    BY <1>1, <1>2 DEF NoHold
  <2> QED BY <1>1, <1>5, <2>1, <2>2 DEF PoolInv, TypeOK
<1>7. RefsExact'
  BY <1>1, <1>4, <1>5, CountedFinite DEF PoolInv, RefsExact
<1>8. HeldStaysMapped'
  <2>1. CASE external_refcount' = 0
    <3>1. Holding' = {}
      <4>1. IsFiniteSet(Holding') /\ Cardinality(Holding') = 0
        BY <1>3, <1>7, <2>1, CountedFinite, FS_Subset DEF PoolInv, RefsExact
      <4> QED BY <4>1, FS_EmptySet
    <3> QED BY <3>1 DEF Holding, HeldStaysMapped, NoHold
  <2>2. CASE external_refcount' # 0
    <3>1. mapped' = mapped
      BY <1>2, <1>4, <1>5, <2>2
    <3> QED BY <1>1, <1>2, <3>1 DEF PoolInv, HeldStaysMapped, NoHold
  <2> QED BY <2>1, <2>2
<1>9. NothingLeaked' /\ CurrentNotPrevious'
  <2> SUFFICES ASSUME error # "mremap" PROVE NothingLeaked' /\ CurrentNotPrevious'
    BY <1>1 DEF NothingLeaked, CurrentNotPrevious
  <2>1. Live /\ mapped = mappings \cup {data} /\ data \notin mappings
    BY <1>2, <1>4 DEF PoolInv, NothingLeaked, CurrentNotPrevious, Live
  <2>2. Live' <=> internal_refcount + (external_refcount - 1) > 0
    BY <1>5 DEF Live
  <2>3. CASE external_refcount - 1 = 0
    BY <1>5, <2>1, <2>2, <2>3 DEF NothingLeaked, CurrentNotPrevious
  <2>4. CASE external_refcount - 1 # 0
    <3>1. Live' /\ mapped' = mapped /\ mappings' = mappings /\ external_refcount' # 0
      BY <1>2, <1>4, <1>5, <2>2, <2>4
    <3> QED BY <1>5, <2>1, <3>1 DEF NothingLeaked, CurrentNotPrevious
  <2> QED BY <2>3, <2>4
<1>10. OneAddress'
  BY <1>1, <1>2, <1>5 DEF PoolInv, OneAddress, NoHold
<1>11. BuffersInBounds' /\ SigbusContained' /\ PromiseSealed'
  BY <1>1, <1>5 DEF PoolInv, BuffersInBounds, SigbusContained, PromiseSealed
<1> QED BY <1>6, <1>7, <1>8, <1>9, <1>10, <1>11 DEF PoolInv

-----------------------------------------------------------------------------
(* What neither touches references nor mappings keeps their invariants.    *)
LEMMA ReferencesKept ==
  ASSUME PoolInv,
         UNCHANGED <<resource, buffers, internal_refcount, external_refcount, memoryVars, held, grown>>,
         error' = "mremap" <=> error = "mremap"
  PROVE  /\ RefsExact' /\ HeldStaysMapped' /\ NothingLeaked' /\ CurrentNotPrevious'
         /\ BuffersInBounds' /\ OneAddress'
<1>1. Holding' = Holding
  BY DEF Holding
<1>2. RefsExact'
  BY <1>1 DEF PoolInv, RefsExact
<1>3. HeldStaysMapped' /\ NothingLeaked' /\ CurrentNotPrevious' /\ BuffersInBounds' /\ OneAddress'
  BY DEF PoolInv, HeldStaysMapped, NothingLeaked, CurrentNotPrevious, BuffersInBounds, OneAddress,
         memoryVars, Live
<1> QED BY <1>2, <1>3

(* The client cuts its file, which it cannot do once it is sealed whole.   *)
LEMMA FileResizedStep ==
  ASSUME PoolInv, FileResized
  PROVE  PoolInv'
<1>1. /\ UNCHANGED <<clientVars, internal_refcount, external_refcount, memoryVars, held,
                   sealed, sigbus_is_impossible, grown, sigbusVars>>
      /\ sealed => short
  BY DEF FileResized
<1>2. short' \in BOOLEAN
  BY Zenon DEF FileResized
<1>3. TypeOK'
  BY <1>1, <1>2 DEF PoolInv, TypeOK, clientVars, memoryVars, sigbusVars
<1>4. /\ RefsExact' /\ HeldStaysMapped' /\ NothingLeaked' /\ CurrentNotPrevious'
      /\ BuffersInBounds' /\ OneAddress'
  BY <1>1, ReferencesKept DEF clientVars
<1>5. PromiseSealed'
  BY <1>1 DEF PoolInv, PromiseSealed
<1>6. SigbusContained'
  BY <1>1 DEF PoolInv, SigbusContained, PromiseSealed, clientVars, sigbusVars
<1> QED BY <1>3, <1>4, <1>5, <1>6 DEF PoolInv

(* wl_shm_buffer_begin_access().                                           *)
LEMMA BeginAccessStep ==
  ASSUME PoolInv, NEW h \in Holders, BeginAccess(h)
  PROVE  PoolInv'
<1>1. /\ UNCHANGED <<clientVars, internal_refcount, external_refcount, memoryVars, held,
                   fileVars, grown, fallback_mapping_used, replaced, killed>>
      /\ access_count' = [access_count EXCEPT ![h] = @ + 1]
      /\ access_count[h] < MaxNesting
  BY DEF BeginAccess
<1>2. access_count' \in [Holders -> 0 .. MaxNesting] /\ \A g \in Holders : access_count'[g] >= access_count[g]
  BY <1>1, ShmPoolAssumption DEF PoolInv, TypeOK
<1>3. TypeOK'
  BY <1>1, <1>2 DEF PoolInv, TypeOK, clientVars, memoryVars, fileVars
<1>4. /\ RefsExact' /\ HeldStaysMapped' /\ NothingLeaked' /\ CurrentNotPrevious'
      /\ BuffersInBounds' /\ OneAddress'
  BY <1>1, ReferencesKept DEF clientVars
<1>5. PromiseSealed'
  BY <1>1 DEF PoolInv, PromiseSealed, fileVars
<1>6. SigbusContained'
  <2>1. \A g \in Holders : access_count[g] > 0 => access_count'[g] > 0
    BY <1>2 DEF PoolInv, TypeOK
  <2> QED BY <1>1, <2>1 DEF PoolInv, SigbusContained, clientVars, fileVars
<1> QED BY <1>3, <1>4, <1>5, <1>6 DEF PoolInv

(* sigbus_handler(): before any resize the only address is the pool's and  *)
(* a file that was promised not to shrink did not.                         *)
LEMMA SigbusStep ==
  ASSUME PoolInv, NEW h \in Holders, NEW address \in Addresses, Sigbus(h, address)
  PROVE  PoolInv'
<1>1. /\ access_count[h] > 0 \/ sigbus_is_impossible
      /\ address \in held[h] /\ short
      /\ \/ /\ Recognised(h, address)
            /\ fallback_mapping_used' = [fallback_mapping_used EXCEPT ![h] = TRUE]
            /\ replaced' = replaced \cup {address}
            /\ UNCHANGED killed
         \/ /\ killed' = IF Recognised(h, address) THEN "mmap" ELSE "sigbus"
            /\ UNCHANGED <<fallback_mapping_used, replaced>>
      /\ UNCHANGED <<clientVars, internal_refcount, external_refcount, memoryVars, held,
                   fileVars, grown, access_count>>
  BY DEF Sigbus
<1>2. fallback_mapping_used' \in [Holders -> BOOLEAN] /\ replaced' \subseteq Addresses
      /\ killed' \in {"no", "mmap", "sigbus"}
  BY <1>1 DEF PoolInv, TypeOK
<1>3. TypeOK'
  <2>1. UNCHANGED <<clientVars, internal_refcount, external_refcount, memoryVars, held,
                   fileVars, grown, access_count>>
    BY <1>1
  <2> QED BY <1>2, <2>1 DEF PoolInv, TypeOK, clientVars, memoryVars, fileVars
<1>4. /\ RefsExact' /\ HeldStaysMapped' /\ NothingLeaked' /\ CurrentNotPrevious'
      /\ BuffersInBounds' /\ OneAddress'
  BY <1>1, ReferencesKept DEF clientVars
<1>5. PromiseSealed'
  BY <1>1 DEF PoolInv, PromiseSealed, fileVars
<1>6. SigbusContained'
  <2>1. CASE /\ Recognised(h, address)
             /\ fallback_mapping_used' = [fallback_mapping_used EXCEPT ![h] = TRUE]
             /\ UNCHANGED killed
    <3>1. fallback_mapping_used'[h] /\ access_count[h] > 0
      BY <2>1 DEF PoolInv, TypeOK, Recognised
    <3>2. \A g \in Holders : g # h => fallback_mapping_used'[g] = fallback_mapping_used[g]
      BY <2>1 DEF PoolInv, TypeOK
    <3> QED BY <1>1, <2>1, <3>1, <3>2 DEF PoolInv, SigbusContained, clientVars, fileVars
  <2>2. CASE /\ killed' = IF Recognised(h, address) THEN "mmap" ELSE "sigbus"
             /\ UNCHANGED <<fallback_mapping_used, replaced>>
    <3>1. ~Recognised(h, address) => grown
      BY <1>1 DEF PoolInv, SigbusContained, OneAddress, Recognised
    <3> QED BY <1>1, <2>2, <3>1 DEF PoolInv, SigbusContained, clientVars, fileVars
  <2> QED BY <1>1, <2>1, <2>2
<1> QED BY <1>3, <1>4, <1>5, <1>6 DEF PoolInv

(* wl_shm_buffer_end_access(): the flag goes with the last access, and     *)
(* the error takes its place.                                              *)
LEMMA EndAccessStep ==
  ASSUME PoolInv, NEW h \in Holders, EndAccess(h)
  PROVE  PoolInv'
<1>1. /\ access_count[h] > 0
      /\ access_count' = [access_count EXCEPT ![h] = @ - 1]
      /\ fallback_mapping_used' = [fallback_mapping_used EXCEPT ![h] = @ /\ access_count[h] > 1]
      /\ error' = IF Reported(h) /\ error = "none" THEN "access" ELSE error
      /\ UNCHANGED <<resource, buffers, internal_refcount, external_refcount, memoryVars, held,
                   fileVars, grown, replaced, killed>>
  BY DEF EndAccess
<1>2. access_count \in [Holders -> 0 .. MaxNesting] /\ fallback_mapping_used \in [Holders -> BOOLEAN]
      /\ error \in {"none", "refused", "mremap", "access"} /\ MaxNesting \in Nat
  BY ShmPoolAssumption DEF PoolInv, TypeOK
<1>3. /\ access_count' \in [Holders -> 0 .. MaxNesting]
      /\ error' \in {"none", "refused", "mremap", "access"}
      /\ error' = "mremap" <=> error = "mremap"
      /\ error # "none" => error' # "none"
  BY <1>1, <1>2
<1>4. fallback_mapping_used' \in [Holders -> BOOLEAN]
  <2>1. (fallback_mapping_used[h] /\ access_count[h] > 1) \in BOOLEAN
    OBVIOUS
  <2> QED BY <1>1, <1>2, <2>1
<1>5. TypeOK'
  BY <1>1, <1>3, <1>4 DEF PoolInv, TypeOK, memoryVars, fileVars
<1>6. /\ RefsExact' /\ HeldStaysMapped' /\ NothingLeaked' /\ CurrentNotPrevious'
      /\ BuffersInBounds' /\ OneAddress'
  BY <1>1, <1>3, ReferencesKept
<1>7. PromiseSealed'
  BY <1>1 DEF PoolInv, PromiseSealed, fileVars
<1>8. SigbusContained'
  <2>1. /\ fallback_mapping_used'[h] <=> (fallback_mapping_used[h] /\ access_count[h] > 1)
        /\ access_count'[h] = access_count[h] - 1
        /\ \A g \in Holders : g # h => /\ fallback_mapping_used'[g] = fallback_mapping_used[g]
                                       /\ access_count'[g] = access_count[g]
    BY <1>1, <1>2
  <2>2. \A g \in Holders : fallback_mapping_used'[g] => access_count'[g] > 0
    BY <1>2, <2>1 DEF PoolInv, SigbusContained
  <2>3. ASSUME replaced' # {}, error' = "none" PROVE \E g \in Holders : fallback_mapping_used'[g]
    <3>1. error = "none" /\ ~Reported(h)
      BY <1>1, <1>3, <2>3
    <3>2. PICK g \in Holders : fallback_mapping_used[g]
      BY <1>1, <2>3, <3>1 DEF PoolInv, SigbusContained
    <3>3. CASE g = h
      <4>1. access_count[h] > 1
        BY <1>1, <1>2, <3>1, <3>2, <3>3 DEF Reported
      <4> QED BY <2>1, <3>2, <3>3, <4>1
    <3>4. CASE g # h
      BY <2>1, <3>2, <3>4
    <3> QED BY <3>3, <3>4
  <2> QED BY <1>1, <2>2, <2>3 DEF PoolInv, SigbusContained, fileVars
<1> QED BY <1>5, <1>6, <1>7, <1>8 DEF PoolInv

-----------------------------------------------------------------------------
(* Every step of the client, of the compositor and of its threads.         *)
LEMMA NextInv == PoolInv /\ [Next]_vars => PoolInv'
<1> SUFFICES ASSUME PoolInv, [Next]_vars PROVE PoolInv'
  OBVIOUS
<1>1. CASE UNCHANGED vars
  <2>1. Holding' = Holding
    BY <1>1 DEF vars, Holding
  <2> QED BY <1>1, <2>1
       DEF vars, clientVars, memoryVars, fileVars, sigbusVars, PoolInv, TypeOK, RefsExact,
           HeldStaysMapped, NothingLeaked, CurrentNotPrevious, BuffersInBounds, SigbusContained,
           PromiseSealed, OneAddress, Live
<1>2. CASE Step
  BY <1>2, CreateBufferStep, DestroyBufferStep, ResizeStep, DestroyPoolStep, RefPoolStep,
     GetDataStep, UnrefPoolStep, BeginAccessStep, EndAccessStep, SigbusStep, FileResizedStep
     DEF Step
<1> QED BY <1>1, <1>2 DEF Next

(* The invariant of a pool, its buffers and their readers.                 *)
THEOREM PoolInvariant == Spec => []PoolInv
  BY InitInv, NextInv, PTL DEF Spec

(* What the compositor reads stays mapped until it drops its reference:    *)
(* shm_pool_resize() keeps the mappings of holders and shm_pool_unref()    *)
(* unmaps them only for the last one.                                      *)
THEOREM ReadersKeepTheirMappings == Spec => []HeldStaysMapped
<1>1. PoolInv => HeldStaysMapped
  BY DEF PoolInv
<1> QED BY <1>1, PoolInvariant, PTL

(* Every buffer lies inside the pool, whatever the numbers in the requests *)
(* of the client and whatever the width of an int: the division in         *)
(* shm_pool_create_buffer() leaves no product that overflows.              *)
THEOREM BuffersStayInBounds == Spec => []BuffersInBounds
<1>1. PoolInv => BuffersInBounds
  BY DEF PoolInv
<1> QED BY <1>1, PoolInvariant, PTL

(* The two counters of wl_shm_pool count exactly its references.           *)
THEOREM CountersExact == Spec => []RefsExact
<1>1. PoolInv => RefsExact
  BY DEF PoolInv
<1> QED BY <1>1, PoolInvariant, PTL

(* No mapping is leaked or unmapped early, unless an mremap() failed.      *)
THEOREM MappingsExact == Spec => []NothingLeaked
<1>1. PoolInv => NothingLeaked
  BY DEF PoolInv
<1> QED BY <1>1, PoolInvariant, PTL

(* A fault in the client's memory is reported to the client, and kills the *)
(* process only after a resize.                                            *)
THEOREM FaultsContained == Spec => []SigbusContained
<1>1. PoolInv => SigbusContained
  BY DEF PoolInv
<1> QED BY <1>1, PoolInvariant, PTL
=============================================================================
