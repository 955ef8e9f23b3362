------------------------ MODULE ClientObjectsProofs -------------------------
(***************************************************************************)
(* Proofs about what a wl_client consists of. ClientObjects, its table of  *)
(* objects: every change of an array is first reduced to Stored, which     *)
(* says what the array holds afterwards entry by entry; the invariants are *)
(* then proved from that alone. RingBuffer, in the last part, the queues   *)
(* of its connection: what is put is what is read, in order.               *)
(***************************************************************************)
EXTENDS ClientObjects, RingBuffer, TLAPS

(* t is s after word w was stored at id, possibly just past the end.       *)
Stored(s, t, id, w) ==
    /\ id \in 1 .. Len(t)
    /\ Len(t) = Len(s) \/ (Len(t) = Len(s) + 1 /\ id = Len(t))
    /\ t[id] = w
    /\ \A k \in 1 .. Len(t) : k # id => k \in 1 .. Len(s) /\ t[k] = s[k]

(* Overwriting an entry.                                                   *)
LEMMA Overwrite ==
  ASSUME NEW S, NEW s \in Seq(S), NEW id \in 1 .. Len(s), NEW w \in S
  PROVE  /\ [s EXCEPT ![id] = w] \in Seq(S)
         /\ Len([s EXCEPT ![id] = w]) = Len(s)
         /\ Stored(s, [s EXCEPT ![id] = w], id, w)
<1>1. [s EXCEPT ![id] = w] \in Seq(S) /\ Len([s EXCEPT ![id] = w]) = Len(s)
  OBVIOUS
<1>2. \A k \in 1 .. Len(s) : [s EXCEPT ![id] = w][k] = IF k = id THEN w ELSE s[k]
  OBVIOUS
<1> QED BY ZenonT(60), <1>1, <1>2 DEF Stored

(* The same for the words of the table.                                    *)
LEMMA OverwriteWord ==
  \A s \in Seq(Words) : \A id \in 1 .. Len(s) : \A w \in Words :
    /\ [s EXCEPT ![id] = w] \in Seq(Words)
    /\ Len([s EXCEPT ![id] = w]) = Len(s)
    /\ Stored(s, [s EXCEPT ![id] = w], id, w)
<1>1. TAKE s \in Seq(Words)
<1>2. TAKE id \in 1 .. Len(s)
<1>3. TAKE w \in Words
<1> QED BY Overwrite

(* Adding an entry at the end.                                             *)
LEMMA Extend ==
  ASSUME NEW S, NEW s \in Seq(S), NEW w \in S
  PROVE  /\ Append(s, w) \in Seq(S)
         /\ Len(Append(s, w)) = Len(s) + 1
         /\ Stored(s, Append(s, w), Len(s) + 1, w)
<1>1. Append(s, w) \in Seq(S) /\ Len(Append(s, w)) = Len(s) + 1 /\ Len(s) \in Nat
  OBVIOUS
<1>2. \A k \in 1 .. Len(s) : Append(s, w)[k] = s[k]
  OBVIOUS
<1>3. Append(s, w)[Len(s) + 1] = w
  OBVIOUS
<1> QED BY <1>1, <1>2, <1>3 DEF Stored

(* wl_map_insert_at() stores the word it is given.                         *)
LEMMA InsertAt ==
  ASSUME NEW S, NEW s \in Seq(S), NEW id \in 1 .. Len(s) + 1, NEW w \in S
  PROVE  /\ wl_map_insert_at(s, id, w) \in Seq(S)
         /\ Stored(s, wl_map_insert_at(s, id, w), id, w)
<1>1. CASE id = Len(s) + 1
  BY <1>1, Extend DEF wl_map_insert_at
<1>2. CASE id # Len(s) + 1
  <2>1. id \in 1 .. Len(s) BY <1>2
  <2>2. QED BY <1>2, <2>1, Overwrite DEF wl_map_insert_at
<1> QED BY <1>1, <1>2

(* A list with a new head.                                                 *)
LEMMA Cons ==
  ASSUME NEW S, NEW s \in Seq(S), NEW x \in S
  PROVE  /\ <<x>> \o s \in Seq(S)
         /\ Len(<<x>> \o s) = Len(s) + 1
         /\ (<<x>> \o s)[1] = x
         /\ \A k \in 2 .. Len(s) + 1 : (<<x>> \o s)[k] = s[k - 1]
<1>1. <<x>> \in Seq(S) /\ Len(<<x>>) = 1 /\ <<x>>[1] = x
  OBVIOUS
<1> QED BY <1>1

(* A list without its head.                                                *)
LEMMA Rest ==
  ASSUME NEW S, NEW s \in Seq(S), s # <<>>
  PROVE  /\ Tail(s) \in Seq(S)
         /\ Len(s) >= 1
         /\ Len(Tail(s)) = Len(s) - 1
         /\ \A k \in 1 .. Len(s) - 1 : Tail(s)[k] = s[k + 1]
  OBVIOUS

-----------------------------------------------------------------------------
ServerInv == ServerOK /\ FreeListOK /\ OwnedHoldPointers

(* A pointer stored under an id its holder owns, or in a new entry that is *)
(* then owned, leaves the free list alone.                                 *)
LEMMA PointerStored ==
  ASSUME ServerInv,
         NEW id \in Nat, NEW w \in Pointers,
         server_entries' \in Seq(Words),
         Stored(server_entries, server_entries', id, w),
         id \in owned \/ (id = Len(server_entries) + 1 /\ id <= MaxEntries),
         owned' = owned \cup {id},
         UNCHANGED <<free_list, freeIds>>
  PROVE  ServerInv'
<1> USE DEF ServerInv
<1>0. server_entries \in Seq(Words) /\ freeIds \in Seq(Nat)
  BY DEF ServerOK
<1>1. Len(server_entries) \in Nat /\ Len(server_entries') \in Nat /\ Len(freeIds) \in Nat
  BY <1>0
<1>2. 1 .. Len(server_entries) \subseteq 1 .. Len(server_entries') /\ id \in 1 .. Len(server_entries')
  BY <1>1 DEF Stored
<1>3. ServerOK'
  BY <1>1, <1>2 DEF ServerOK, Stored
<1>4. OwnedHoldPointers'
  BY <1>2 DEF OwnedHoldPointers, Stored, ServerOK
<1>5. FreeListOK'
  <2>1. ASSUME NEW k \in 1 .. Len(freeIds)
        PROVE  /\ freeIds[k] \in (1 .. Len(server_entries')) \ owned'
               /\ server_entries'[freeIds[k]] = server_entries[freeIds[k]]
    <3>1. freeIds[k] \in (1 .. Len(server_entries)) \ owned
      BY <2>1 DEF FreeListOK
    <3>2. freeIds[k] # id
      BY <3>1, <1>1
    <3>3. QED BY <3>1, <3>2, <1>2 DEF Stored
  <2>2. ASSUME NEW i \in (1 .. Len(server_entries')) \ owned'
        PROVE  i \in (1 .. Len(server_entries)) \ owned
    BY <2>2 DEF Stored
  <2>3. QED BY <2>1, <2>2 DEF FreeListOK
<1> QED BY <1>3, <1>4, <1>5

(* wl_map_insert_new() hands out an id that nobody holds.                  *)
LEMMA InsertNew ==
  ASSUME ServerInv,
         NEW id \in Nat, wl_map_insert_new(id),
         owned' = owned \cup {id}
  PROVE  /\ ServerInv'
         /\ id \notin owned
         /\ Stored(server_entries, server_entries', id, NULL)
         /\ id \in 1 .. Len(server_entries) => server_entries[id] \notin Resources
<1> USE DEF ServerInv
<1>0. server_entries \in Seq(Words) /\ freeIds \in Seq(Nat) /\ owned \subseteq 1 .. Len(server_entries)
  BY DEF ServerOK
<1>1. Len(server_entries) \in Nat /\ Len(freeIds) \in Nat /\ NULL \in Words /\ NULL \in Pointers
  BY <1>0 DEF Words, Pointers
<1>2. CASE free_list = NULL
  <2>1. /\ id = Len(server_entries) + 1
        /\ id <= MaxEntries
        /\ server_entries' = Append(server_entries, NULL)
        /\ UNCHANGED <<free_list, freeIds>>
    BY <1>1, <1>2, ClientObjectsAssumption DEF wl_map_insert_new
  <2>2. /\ server_entries' \in Seq(Words)
        /\ Stored(server_entries, server_entries', id, NULL)
    BY <2>1, <1>0, <1>1, Extend
  <2>3. ServerInv'
    BY <2>1, <2>2, <1>1, PointerStored
  <2>4. QED BY <2>1, <2>2, <2>3, <1>0, <1>1
<1>3. CASE free_list # NULL
  <2>1. /\ id = free_list
        /\ free_list' = server_entries[id]
        /\ server_entries' = [server_entries EXCEPT ![id] = NULL]
        /\ freeIds' = Tail(freeIds)
    BY <1>3 DEF wl_map_insert_new
  <2>2. freeIds # <<>> /\ id = freeIds[1] /\ Len(freeIds) >= 1
    BY <1>3, <2>1, <1>0 DEF FreeListOK
  <2>3. /\ id \in (1 .. Len(server_entries)) \ owned
        /\ server_entries[id] = IF 1 = Len(freeIds) THEN NULL ELSE freeIds[2]
    <3>1. 1 \in 1 .. Len(freeIds) /\ 1 + 1 = 2 BY <2>2, <1>1
    <3>2. /\ freeIds[1] \in (1 .. Len(server_entries)) \ owned
          /\ server_entries[freeIds[1]] = IF 1 = Len(freeIds) THEN NULL ELSE freeIds[1 + 1]
      BY <3>1 DEF FreeListOK
    <3>3. QED BY <3>1, <3>2, <2>2
  <2>4. /\ server_entries' \in Seq(Words)
        /\ Len(server_entries') = Len(server_entries)
        /\ Stored(server_entries, server_entries', id, NULL)
    <3>1. id \in 1 .. Len(server_entries) BY <2>3
    <3>2. QED BY <3>1, <2>1, <1>0, <1>1, OverwriteWord
  <2>5. /\ freeIds' \in Seq(Nat)
        /\ Len(freeIds') = Len(freeIds) - 1
        /\ \A k \in 1 .. Len(freeIds) - 1 : freeIds'[k] = freeIds[k + 1]
    BY <2>1, <2>2, <1>0, Rest
  <2>6. server_entries[id] \in Nat \cup {NULL}
    <3>1. CASE Len(freeIds) = 1
      BY <3>1, <2>3
    <3>2. CASE Len(freeIds) # 1
      <4> DEFINE n == Len(freeIds)
      <4>1. n \in Nat /\ n >= 1 /\ n # 1 BY <3>2, <2>2, <1>1
      <4> HIDE DEF n
      <4>2. 2 \in 1 .. n BY <4>1
      <4>3. 2 \in 1 .. Len(freeIds) BY <4>2 DEF n
      <4>4. \A k \in 1 .. Len(freeIds) : freeIds[k] \in Nat BY <1>0
      <4>5. QED BY <3>2, <4>3, <4>4, <2>3
    <3>3. QED BY <3>1, <3>2
  <2>7. ServerOK'
    BY <2>1, <2>3, <2>4, <2>5, <2>6, <1>0 DEF ServerOK
  <2>8. OwnedHoldPointers'
    BY <2>3, <2>4, <1>0, <1>1 DEF OwnedHoldPointers, Stored
  <2>9. FreeListOK'
    <3>1. free_list' = IF freeIds' = <<>> THEN NULL ELSE freeIds'[1]
      <4>1. CASE Len(freeIds) = 1
        <5>1. freeIds' = <<>> BY <4>1, <2>5
        <5>2. QED BY <5>1, <4>1, <2>1, <2>3
      <4>2. CASE Len(freeIds) # 1
        <5>1. freeIds' # <<>> /\ freeIds'[1] = freeIds[2] BY <4>2, <2>2, <2>5, <1>1
        <5>2. QED BY <5>1, <4>2, <2>1, <2>3
      <4>3. QED BY <4>1, <4>2
    <3>2. ASSUME NEW k \in 1 .. Len(freeIds')
          PROVE  /\ freeIds'[k] \in (1 .. Len(server_entries')) \ owned'
                 /\ server_entries'[freeIds'[k]] = IF k = Len(freeIds') THEN NULL ELSE freeIds'[k + 1]
      <4>1. k + 1 \in 1 .. Len(freeIds) /\ freeIds'[k] = freeIds[k + 1] /\ k \in Nat
        BY SMTT(40), <2>5, <1>1
      <4>2. freeIds[k + 1] # id
        <5>1. 1 \in 1 .. Len(freeIds) /\ k + 1 # 1 BY <2>2, <4>1, <1>1
        <5>2. QED BY <5>1, <4>1, <2>2 DEF FreeListOK
      <4>3. /\ freeIds[k + 1] \in (1 .. Len(server_entries)) \ owned
            /\ server_entries[freeIds[k + 1]] = IF k + 1 = Len(freeIds) THEN NULL ELSE freeIds[k + 1 + 1]
        BY <4>1 DEF FreeListOK
      <4>4. server_entries'[freeIds[k + 1]] = server_entries[freeIds[k + 1]]
        BY <4>2, <4>3, <2>4 DEF Stored
      <4>5. k # Len(freeIds') => freeIds'[k + 1] = freeIds[k + 1 + 1]
        <5>1. SUFFICES ASSUME k # Len(freeIds') PROVE k + 1 \in 1 .. Len(freeIds) - 1
          BY <2>5
        <5>2. QED BY <5>1, <4>1, <2>5, <1>1
      <4>6. k + 1 = Len(freeIds) <=> k = Len(freeIds')
        BY <4>1, <2>5, <1>1
      <4>7. QED BY <4>1, <4>2, <4>3, <4>4, <4>5, <4>6, <2>4
    <3>3. ASSUME NEW j \in 1 .. Len(freeIds'), NEW k \in 1 .. Len(freeIds'), freeIds'[j] = freeIds'[k]
          PROVE  j = k
      <4>1. j + 1 \in 1 .. Len(freeIds) /\ k + 1 \in 1 .. Len(freeIds)
            /\ freeIds'[j] = freeIds[j + 1] /\ freeIds'[k] = freeIds[k + 1] /\ j \in Nat /\ k \in Nat
        BY <2>5, <1>1
      <4>2. j + 1 = k + 1 BY <4>1, <3>3 DEF FreeListOK
      <4>3. QED BY <4>1, <4>2
    <3>4. ASSUME NEW i \in (1 .. Len(server_entries')) \ owned'
          PROVE  \E k \in 1 .. Len(freeIds') : freeIds'[k] = i
      <4>1. i # id /\ i \in (1 .. Len(server_entries)) \ owned
        BY <2>4
      <4>2. PICK k \in 1 .. Len(freeIds) : freeIds[k] = i
        BY <4>1 DEF FreeListOK
      <4>3. k # 1 BY <4>1, <4>2, <2>2
      <4>4. k - 1 \in 1 .. Len(freeIds) - 1 BY <4>3, <1>1
      <4>5. freeIds'[k - 1] = freeIds[k - 1 + 1] BY <4>4, <2>5
      <4>6. k - 1 + 1 = k BY <1>1
      <4>7. QED BY <4>2, <4>4, <4>5, <4>6, <2>5
    <3>5. QED BY <3>1, <3>2, <3>3, <3>4 DEF FreeListOK
  <2>10. server_entries[id] \notin Resources
    BY <2>6, ClientObjectsAssumption
  <2>11. QED BY <2>3, <2>4, <2>7, <2>8, <2>9, <2>10
<1> QED BY <1>2, <1>3

(* wl_map_remove() of an id its holder owns puts it on the free list.      *)
LEMMA Remove ==
  ASSUME ServerInv,
         NEW id \in owned, wl_map_remove(id),
         owned' = owned \ {id}
  PROVE  /\ ServerInv'
         /\ Stored(server_entries, server_entries', id, free_list)
<1> USE DEF ServerInv
<1>0. server_entries \in Seq(Words) /\ freeIds \in Seq(Nat) /\ owned \subseteq 1 .. Len(server_entries)
  BY DEF ServerOK
<1>1. Len(server_entries) \in Nat /\ Len(freeIds) \in Nat /\ id \in 1 .. Len(server_entries) /\ id \in Nat
  BY <1>0
<1>2. free_list \in Words /\ free_list \in Nat \cup {NULL}
  BY DEF ServerOK, Words, Pointers
<1>3. /\ server_entries' = [server_entries EXCEPT ![id] = free_list]
      /\ free_list' = id
      /\ freeIds' = <<id>> \o freeIds
  BY DEF wl_map_remove
<1>4. /\ server_entries' \in Seq(Words)
      /\ Len(server_entries') = Len(server_entries)
      /\ Stored(server_entries, server_entries', id, free_list)
  BY <1>0, <1>1, <1>2, <1>3, OverwriteWord
<1>5. /\ freeIds' \in Seq(Nat)
      /\ Len(freeIds') = Len(freeIds) + 1
      /\ freeIds'[1] = id
      /\ \A k \in 2 .. Len(freeIds) + 1 : freeIds'[k] = freeIds[k - 1]
  BY <1>0, <1>1, <1>3, Cons
<1>6. ServerOK'
  BY <1>0, <1>1, <1>3, <1>4, <1>5 DEF ServerOK
<1>7. OwnedHoldPointers'
  BY <1>0, <1>4 DEF OwnedHoldPointers, Stored
<1>8. FreeListOK'
  <2>1. free_list' = IF freeIds' = <<>> THEN NULL ELSE freeIds'[1]
    <3>1. freeIds' # <<>> BY <1>1, <1>5
    <3>2. QED BY <3>1, <1>3, <1>5
  <2>2. ASSUME NEW k \in 1 .. Len(freeIds')
        PROVE  /\ freeIds'[k] \in (1 .. Len(server_entries')) \ owned'
               /\ server_entries'[freeIds'[k]] = IF k = Len(freeIds') THEN NULL ELSE freeIds'[k + 1]
    <3>1. CASE k = 1
      <4>1. server_entries'[freeIds'[k]] = free_list BY <3>1, <1>4, <1>5 DEF Stored
      <4>2. CASE freeIds = <<>>
        <5>1. Len(freeIds') = 1 /\ free_list = NULL BY <4>2, <1>5 DEF FreeListOK
        <5>2. QED BY <5>1, <4>1, <3>1, <1>1, <1>4, <1>5
      <4>3. CASE freeIds # <<>>
        <5>1. Len(freeIds) >= 1 /\ free_list = freeIds[1] BY <4>3, <1>0 DEF FreeListOK
        <5>2. 2 \in 2 .. Len(freeIds) + 1 /\ 2 - 1 = 1 BY <5>1, <1>1
        <5>3. freeIds'[2] = freeIds[1] BY <5>2, <1>5
        <5>4. k # Len(freeIds') /\ k + 1 = 2 BY <3>1, <5>1, <1>5, <1>1
        <5>5. QED BY <5>1, <5>3, <5>4, <4>1, <3>1, <1>1, <1>4, <1>5
      <4>4. QED BY <4>2, <4>3
    <3>2. CASE k # 1
      <4>1. /\ k - 1 \in 1 .. Len(freeIds) /\ freeIds'[k] = freeIds[k - 1] /\ k \in Nat
        BY <3>2, <1>1, <1>5
      <4>2. /\ freeIds[k - 1] \in (1 .. Len(server_entries)) \ owned
            /\ server_entries[freeIds[k - 1]] = IF k - 1 = Len(freeIds) THEN NULL ELSE freeIds[k - 1 + 1]
        BY <4>1 DEF FreeListOK
      <4>3. server_entries'[freeIds[k - 1]] = server_entries[freeIds[k - 1]]
        BY <4>2, <1>4 DEF Stored
      <4>4. k - 1 = Len(freeIds) <=> k = Len(freeIds')
        BY <4>1, <1>1, <1>5
      <4>5. k # Len(freeIds') => freeIds'[k + 1] = freeIds[k - 1 + 1]
        <5>1. SUFFICES ASSUME k # Len(freeIds') PROVE k + 1 \in 2 .. Len(freeIds) + 1 /\ k + 1 - 1 = k - 1 + 1
          BY <1>5
        <5>2. QED BY <5>1, <4>1, <1>1, <1>5
      <4>6. QED BY <4>1, <4>2, <4>3, <4>4, <4>5, <1>4
    <3>3. QED BY <3>1, <3>2
  <2>3. ASSUME NEW j \in 1 .. Len(freeIds'), NEW k \in 1 .. Len(freeIds'), freeIds'[j] = freeIds'[k]
        PROVE  j = k
    <3>1. \A i \in 1 .. Len(freeIds') : i # 1 =>
            /\ i - 1 \in 1 .. Len(freeIds)
            /\ freeIds'[i] = freeIds[i - 1]
            /\ freeIds'[i] # id
      <4>1. SUFFICES ASSUME NEW i \in 1 .. Len(freeIds'), i # 1
                     PROVE  i - 1 \in 1 .. Len(freeIds) /\ freeIds'[i] = freeIds[i - 1] /\ freeIds'[i] # id
        OBVIOUS
      <4>2. i - 1 \in 1 .. Len(freeIds) /\ freeIds'[i] = freeIds[i - 1]
        BY SMTT(40), <4>1, <1>1, <1>5
      <4>3. freeIds[i - 1] \notin owned
        BY <4>2 DEF FreeListOK
      <4>4. QED BY <4>2, <4>3
    <3>2. CASE j = 1 \/ k = 1
      BY <3>1, <3>2, <2>3, <1>5
    <3>3. CASE j # 1 /\ k # 1
      <4>0. /\ j - 1 \in 1 .. Len(freeIds) /\ k - 1 \in 1 .. Len(freeIds)
            /\ freeIds[j - 1] = freeIds[k - 1]
        BY <3>1, <3>3, <2>3
      <4>1. j - 1 = k - 1 BY <4>0 DEF FreeListOK
      <4>2. QED BY <4>1, <1>1, <1>5
    <3>4. QED BY <3>2, <3>3
  <2>4. ASSUME NEW i \in (1 .. Len(server_entries')) \ owned'
        PROVE  \E k \in 1 .. Len(freeIds') : freeIds'[k] = i
    <3>1. CASE i = id
      <4>1. 1 \in 1 .. Len(freeIds') BY <1>1, <1>5
      <4>2. QED BY <4>1, <3>1, <1>5
    <3>2. CASE i # id
      <4>1. PICK k \in 1 .. Len(freeIds) : freeIds[k] = i
        BY <3>2, <2>4, <1>4 DEF FreeListOK
      <4>2. k + 1 \in 2 .. Len(freeIds) + 1 /\ k + 1 - 1 = k /\ k + 1 \in 1 .. Len(freeIds')
        BY <1>1, <1>5
      <4>3. freeIds'[k + 1] = freeIds[k + 1 - 1] BY SMTT(40), <4>2, <1>5
      <4>4. QED BY <4>1, <4>2, <4>3
    <3>3. QED BY <3>1, <3>2
  <2>5. QED BY <2>1, <2>2, <2>3, <2>4 DEF FreeListOK
<1> QED BY <1>4, <1>6, <1>7, <1>8

(* An id that nobody holds stores a link or NULL.                          *)
LEMMA UnownedWord ==
  ASSUME ServerInv, NEW id \in 1 .. Len(server_entries), id \notin owned
  PROVE  server_entries[id] \in Nat \cup {NULL}
<1>1. PICK k \in 1 .. Len(freeIds) : freeIds[k] = id
  BY DEF ServerInv, FreeListOK
<1>2. server_entries[id] = IF k = Len(freeIds) THEN NULL ELSE freeIds[k + 1]
  BY <1>1 DEF ServerInv, FreeListOK
<1>3. freeIds \in Seq(Nat) /\ Len(freeIds) \in Nat
  BY DEF ServerInv, ServerOK
<1>4. CASE k = Len(freeIds)
  BY <1>2, <1>4
<1>5. CASE k # Len(freeIds)
  <2>1. k + 1 \in 1 .. Len(freeIds) BY <1>3, <1>5
  <2>2. \A j \in 1 .. Len(freeIds) : freeIds[j] \in Nat BY <1>3
  <2>3. QED BY <1>2, <1>5, <2>1, <2>2
<1> QED BY <1>4, <1>5

(* An entry that holds a resource belongs to an id that is owned.          *)
LEMMA ResourceIsOwned ==
  ASSUME ServerInv, NEW id \in 1 .. Len(server_entries), server_entries[id] \in Resources
  PROVE  id \in owned
  BY UnownedWord, ClientObjectsAssumption

-----------------------------------------------------------------------------
TableInv == TypeOK /\ StoredOnce /\ FreedOnce /\ WalkInv

(* A new resource in an entry, whose resource, if any, is orphaned: client *)
(* ids.                                                                    *)
LEMMA ClientCreate ==
  ASSUME TableInv, ~destroying,
         NEW r \in Resources \ created, NEW id \in Nat,
         client_entries' \in Seq(Pointers),
         Stored(client_entries, client_entries', id, r),
         id \in 1 .. Len(client_entries) => client_entries[id] \in orphaned' \cup {NULL},
         orphaned \subseteq orphaned',
         created' = created \cup {r},
         UNCHANGED <<server_entries, freed, walkVars>>
  PROVE  StoredOnce' /\ FreedOnce'
<1> USE ClientObjectsAssumption
<1>0. /\ clientVisited = 0 /\ serverVisited = 0 /\ r # NULL /\ r \notin Nat /\ r \notin freed
      /\ Len(client_entries) \in Nat /\ Len(client_entries') \in Nat
      /\ clientVisited' = 0 /\ serverVisited' = 0
  BY DEF TableInv, WalkInv, TypeOK, LifeOK, ClientOK, walkVars
<1>1. StoredOnce'
  <2>1. \A k \in 1 .. Len(client_entries') : client_entries'[k] \in created' \cup {NULL}
    BY <1>0 DEF TableInv, StoredOnce, Stored
  <2>2. \A k \in 1 .. Len(server_entries') : server_entries'[k] \in created' \cup {NULL} \cup Nat
    BY DEF TableInv, StoredOnce
  <2>3. ASSUME NEW j \in 1 .. Len(client_entries'), NEW k \in 1 .. Len(client_entries'),
               client_entries'[j] = client_entries'[k], client_entries'[j] # NULL
        PROVE  j = k
    BY <1>0, <2>3 DEF TableInv, StoredOnce, Stored
  <2>4. \A k \in 1 .. Len(server_entries) : server_entries[k] # r
    BY <1>0 DEF TableInv, StoredOnce
  <2>5. ASSUME NEW j \in 1 .. Len(client_entries'), NEW k \in 1 .. Len(server_entries'),
               client_entries'[j] = server_entries'[k]
        PROVE  client_entries'[j] = NULL
    BY <1>0, <2>4, <2>5 DEF TableInv, StoredOnce, Stored
  <2>6. \A j, k \in 1 .. Len(server_entries') :
            server_entries'[j] = server_entries'[k] /\ server_entries'[j] \in Resources => j = k
    BY DEF TableInv, StoredOnce
  <2>7. QED BY <2>1, <2>2, <2>3, <2>5, <2>6 DEF StoredOnce
<1>2. FreedOnce'
  <2>1. ASSUME NEW x \in created' \ (freed' \cup orphaned'), x # r
        PROVE  \/ \E k \in 1 .. Len(client_entries') : k > 0 /\ client_entries'[k] = x
               \/ \E k \in 1 .. Len(server_entries') : k > 0 /\ server_entries'[k] = x
    <3>1. x \in created \ (freed \cup orphaned) /\ x # NULL BY <2>1, <1>0 DEF TableInv, TypeOK, LifeOK
    <3>2. CASE \E k \in 1 .. Len(client_entries) : k > 0 /\ client_entries[k] = x
      BY <2>1, <3>1, <3>2, <1>0 DEF Stored
    <3>3. CASE \E k \in 1 .. Len(server_entries) : k > 0 /\ server_entries[k] = x
      BY <3>3
    <3>4. QED BY <3>1, <3>2, <3>3, <1>0 DEF TableInv, FreedOnce
  <2>2. id \in 1 .. Len(client_entries') /\ id > 0 /\ client_entries'[id] = r
    BY <1>0 DEF Stored
  <2>3. \A k \in 1 .. Len(client_entries') : client_entries'[k] \notin freed'
    BY <1>0 DEF TableInv, FreedOnce, Stored
  <2>4. \A k \in 1 .. Len(server_entries') : server_entries'[k] \notin freed'
    BY <1>0 DEF TableInv, FreedOnce
  <2>5. QED BY <2>1, <2>2, <2>3, <2>4, <1>0 DEF FreedOnce
<1> QED BY <1>1, <1>2

(* The same for server ids.                                                *)
LEMMA ServerCreate ==
  ASSUME TableInv, ~destroying,
         NEW r \in Resources \ created, NEW id \in Nat,
         server_entries' \in Seq(Words),
         Stored(server_entries, server_entries', id, r),
         id \in 1 .. Len(server_entries) => server_entries[id] \notin Resources \ orphaned',
         orphaned \subseteq orphaned',
         created' = created \cup {r},
         UNCHANGED <<client_entries, freed, walkVars>>
  PROVE  StoredOnce' /\ FreedOnce'
<1> USE ClientObjectsAssumption
<1>0. /\ clientVisited = 0 /\ serverVisited = 0 /\ r # NULL /\ r \notin Nat /\ r \notin freed
      /\ Len(server_entries) \in Nat /\ Len(server_entries') \in Nat
      /\ clientVisited' = 0 /\ serverVisited' = 0
      /\ created \subseteq Resources
  BY DEF TableInv, WalkInv, TypeOK, LifeOK, ServerOK, walkVars
<1>1. StoredOnce'
  <2>1. \A k \in 1 .. Len(client_entries) : client_entries[k] # r
    BY <1>0 DEF TableInv, StoredOnce
  <2>2. \A k \in 1 .. Len(server_entries) : server_entries[k] # r
    BY <1>0 DEF TableInv, StoredOnce
  <2>3. \A j, k \in 1 .. Len(server_entries') :
          server_entries'[j] = server_entries'[k] /\ server_entries'[j] \in Resources => j = k
    BY <1>0, <2>2 DEF TableInv, StoredOnce, Stored
  <2>4. \A j \in 1 .. Len(client_entries') : \A k \in 1 .. Len(server_entries') :
          client_entries'[j] = server_entries'[k] => client_entries'[j] = NULL
    BY <1>0, <2>1 DEF TableInv, StoredOnce, Stored
  <2>5. \A k \in 1 .. Len(server_entries') : server_entries'[k] \in created' \cup {NULL} \cup Nat
    BY <1>0 DEF TableInv, StoredOnce, Stored
  <2>6. QED BY <2>3, <2>4, <2>5, <1>0 DEF TableInv, StoredOnce
<1>2. FreedOnce'
  BY <1>0 DEF TableInv, FreedOnce, Stored
<1> QED BY <1>1, <1>2

(* An entry without a resource stays without one.                          *)
LEMMA ClientNull ==
  ASSUME TableInv, ~destroying, NEW id \in Nat,
         client_entries' \in Seq(Pointers),
         Stored(client_entries, client_entries', id, NULL),
         id = Len(client_entries) + 1,
         UNCHANGED <<server_entries, created, freed, orphaned, walkVars>>
  PROVE  StoredOnce' /\ FreedOnce'
<1> USE ClientObjectsAssumption
<1>0. /\ clientVisited = 0 /\ serverVisited = 0 /\ NULL \notin freed
      /\ Len(client_entries) \in Nat /\ Len(client_entries') \in Nat
      /\ clientVisited' = 0 /\ serverVisited' = 0
  BY DEF TableInv, WalkInv, TypeOK, LifeOK, ClientOK, walkVars
<1>1. StoredOnce'
  BY SMTT(40), <1>0 DEF TableInv, StoredOnce, Stored
<1>2. FreedOnce'
  BY <1>0 DEF TableInv, FreedOnce, Stored
<1> QED BY <1>1, <1>2

(* NULL is written to a server entry that held no resource.                *)
LEMMA ServerNull ==
  ASSUME TableInv, ~destroying, NEW id \in Nat,
         server_entries' \in Seq(Words),
         Stored(server_entries, server_entries', id, NULL),
         id \in 1 .. Len(server_entries) => server_entries[id] \notin Resources,
         UNCHANGED <<client_entries, created, freed, orphaned, walkVars>>
  PROVE  StoredOnce' /\ FreedOnce'
<1> USE ClientObjectsAssumption
<1>0. /\ clientVisited = 0 /\ serverVisited = 0 /\ NULL \notin freed
      /\ Len(server_entries) \in Nat /\ Len(server_entries') \in Nat
      /\ clientVisited' = 0 /\ serverVisited' = 0
      /\ created \subseteq Resources
  BY DEF TableInv, WalkInv, TypeOK, LifeOK, ServerOK, walkVars
<1>1. StoredOnce'
  BY ZenonT(60), <1>0 DEF TableInv, StoredOnce, Stored
<1>2. FreedOnce'
  BY <1>0 DEF TableInv, FreedOnce, Stored
<1> QED BY <1>1, <1>2

(* A resource is destroyed and leaves its entry, client ids.               *)
LEMMA ClientDestroyed ==
  ASSUME TableInv, NEW r \in Resources, NEW id \in 1 .. Len(client_entries),
         client_entries[id] = r,
         client_entries' \in Seq(Pointers),
         Stored(client_entries, client_entries', id, NULL),
         freed' = freed \cup {r},
         UNCHANGED <<server_entries, created, orphaned, walkVars>>
  PROVE  StoredOnce' /\ FreedOnce'
<1> USE ClientObjectsAssumption
<1>0. /\ r # NULL /\ NULL \notin freed' /\ clientVisited \in Nat /\ serverVisited \in Nat
      /\ Len(client_entries) \in Nat /\ Len(client_entries') = Len(client_entries)
      /\ clientVisited' = clientVisited /\ serverVisited' = serverVisited
  <2>1. freed \subseteq Resources /\ clientVisited \in Nat /\ serverVisited \in Nat
    BY DEF TableInv, TypeOK, LifeOK
  <2>2. Len(client_entries) \in Nat /\ Len(client_entries') = Len(client_entries)
    BY DEF TableInv, TypeOK, ClientOK, Stored
  <2>3. clientVisited' = clientVisited /\ serverVisited' = serverVisited
    BY DEF walkVars
  <2>4. r # NULL /\ NULL \notin freed'
    BY <2>1
  <2>5. QED BY <2>1, <2>2, <2>3, <2>4
<1>1. StoredOnce'
  BY <1>0 DEF TableInv, StoredOnce, Stored
<1>2. FreedOnce'
  <2>1. \A k \in 1 .. Len(client_entries) : k # id => client_entries[k] # r
    BY <1>0 DEF TableInv, StoredOnce
  <2>2. \A k \in 1 .. Len(server_entries) : server_entries[k] # r
    BY <1>0 DEF TableInv, StoredOnce
  <2>3. QED BY <1>0, <2>1, <2>2 DEF TableInv, FreedOnce, Stored
<1> QED BY <1>1, <1>2

(* The same for server ids; the entry may become a link.                   *)
LEMMA ServerDestroyed ==
  ASSUME TableInv, NEW r \in Resources, NEW id \in 1 .. Len(server_entries),
         server_entries[id] = r,
         NEW w \in Nat \cup {NULL},
         server_entries' \in Seq(Words),
         Stored(server_entries, server_entries', id, w),
         freed' = freed \cup {r},
         UNCHANGED <<client_entries, created, orphaned, walkVars>>
  PROVE  StoredOnce' /\ FreedOnce'
<1> USE ClientObjectsAssumption
<1>0. /\ r # NULL /\ w \notin freed' /\ clientVisited \in Nat /\ serverVisited \in Nat
      /\ w \notin Resources /\ created \subseteq Resources
      /\ Len(server_entries) \in Nat /\ Len(server_entries') = Len(server_entries)
      /\ clientVisited' = clientVisited /\ serverVisited' = serverVisited
  <2>1. created \subseteq Resources /\ freed \subseteq Resources
    BY DEF TableInv, TypeOK, LifeOK
  <2>2. clientVisited \in Nat /\ serverVisited \in Nat
    BY DEF TableInv, TypeOK, LifeOK
  <2>3. Len(server_entries) \in Nat /\ Len(server_entries') = Len(server_entries)
    BY DEF TableInv, TypeOK, ServerOK, Stored
  <2>4. clientVisited' = clientVisited /\ serverVisited' = serverVisited
    BY DEF walkVars
  <2>5. r # NULL /\ w \notin Resources
    OBVIOUS
  <2>6. w \notin freed'
    BY <2>1, <2>5
  <2>7. QED BY <2>1, <2>2, <2>3, <2>4, <2>5, <2>6
<1>1. StoredOnce'
  BY <1>0 DEF TableInv, StoredOnce, Stored
<1>2. FreedOnce'
  <2>1. \A k \in 1 .. Len(server_entries) : k # id => server_entries[k] # r
    BY <1>0 DEF TableInv, StoredOnce
  <2>2. \A k \in 1 .. Len(client_entries) : client_entries[k] # r
    BY <1>0 DEF TableInv, StoredOnce
  <2>3. QED BY <1>0, <2>1, <2>2 DEF TableInv, FreedOnce, Stored
<1> QED BY <1>1, <1>2

(* The walk of wl_client_destroy() frees what it visits.                   *)
LEMMA WalkFrees ==
  ASSUME TableInv, VisitClientEntry \/ VisitServerEntry
  PROVE  StoredOnce' /\ FreedOnce'
<1> USE ClientObjectsAssumption
<1>0. /\ clientVisited \in Nat /\ serverVisited \in Nat /\ freed \subseteq Resources
      /\ Len(client_entries) \in Nat /\ Len(server_entries) \in Nat
      /\ UNCHANGED <<client_entries, server_entries, created, orphaned>>
  BY DEF TableInv, TypeOK, LifeOK, ClientOK, ServerOK, VisitClientEntry, VisitServerEntry, tableVars
<1>1. StoredOnce'
  BY <1>0 DEF TableInv, StoredOnce
<1>2. CASE VisitClientEntry
  <2> DEFINE id == clientVisited + 1
             r == client_entries[id]
  <2>1. id \in 1 .. Len(client_entries) /\ clientVisited' = id /\ serverVisited' = serverVisited
        /\ freed' = freed \cup ({r} \cap Resources)
    BY <1>0, <1>2 DEF VisitClientEntry, Free
  <2>2. /\ \A k \in 1 .. Len(client_entries) : k # id => client_entries[k] \notin {r} \cap Resources
        /\ \A k \in 1 .. Len(server_entries) : server_entries[k] \notin {r} \cap Resources
    BY <2>1, <1>0 DEF TableInv, StoredOnce
  <2>3. \A k \in 1 .. Len(client_entries) : k > clientVisited' => client_entries[k] \notin freed'
    BY <2>1, <2>2, <1>0 DEF TableInv, FreedOnce
  <2>4. \A k \in 1 .. Len(server_entries) : k > serverVisited' => server_entries[k] \notin freed'
    BY <2>1, <2>2, <1>0 DEF TableInv, FreedOnce
  <2>5. ASSUME NEW x \in created \ (freed' \cup orphaned)
        PROVE  \/ \E k \in 1 .. Len(client_entries) : k > clientVisited' /\ client_entries[k] = x
               \/ \E k \in 1 .. Len(server_entries) : k > serverVisited' /\ server_entries[k] = x
    <3>1. x # r /\ x \in created \ (freed \cup orphaned)
      BY <2>1, <2>5 DEF TableInv, TypeOK, LifeOK
    <3>2. \/ \E k \in 1 .. Len(client_entries) : k > clientVisited /\ client_entries[k] = x
          \/ \E k \in 1 .. Len(server_entries) : k > serverVisited /\ server_entries[k] = x
      BY <3>1 DEF TableInv, FreedOnce
    <3>3. CASE \E k \in 1 .. Len(client_entries) : k > clientVisited /\ client_entries[k] = x
      <4>1. PICK k \in 1 .. Len(client_entries) : k > clientVisited /\ client_entries[k] = x
        BY <3>3
      <4>2. k # id BY <4>1, <3>1
      <4>3. k > id BY <4>1, <4>2, <1>0
      <4>4. QED BY <4>1, <4>3, <2>1
    <3>4. CASE \E k \in 1 .. Len(server_entries) : k > serverVisited /\ server_entries[k] = x
      BY <3>4, <2>1
    <3>5. QED BY <3>2, <3>3, <3>4
  <2>6. QED BY <2>3, <2>4, <2>5, <1>0, <1>1 DEF FreedOnce
<1>3. CASE VisitServerEntry
  <2> DEFINE id == serverVisited + 1
             r == server_entries[id]
  <2>1. id \in 1 .. Len(server_entries) /\ serverVisited' = id /\ clientVisited' = clientVisited
        /\ freed' = freed \cup ({r} \cap Resources)
    BY <1>0, <1>3 DEF VisitServerEntry, Free
  <2>2. /\ \A k \in 1 .. Len(server_entries) : k # id => server_entries[k] \notin {r} \cap Resources
        /\ \A k \in 1 .. Len(client_entries) : client_entries[k] \notin {r} \cap Resources
    BY <2>1, <1>0 DEF TableInv, StoredOnce
  <2>3. \A k \in 1 .. Len(server_entries) : k > serverVisited' => server_entries[k] \notin freed'
    BY <2>1, <2>2, <1>0 DEF TableInv, FreedOnce
  <2>4. \A k \in 1 .. Len(client_entries) : k > clientVisited' => client_entries[k] \notin freed'
    BY <2>1, <2>2, <1>0 DEF TableInv, FreedOnce
  <2>5. ASSUME NEW x \in created \ (freed' \cup orphaned)
        PROVE  \/ \E k \in 1 .. Len(server_entries) : k > serverVisited' /\ server_entries[k] = x
               \/ \E k \in 1 .. Len(client_entries) : k > clientVisited' /\ client_entries[k] = x
    <3>1. x # r /\ x \in created \ (freed \cup orphaned)
      BY <2>1, <2>5 DEF TableInv, TypeOK, LifeOK
    <3>2. \/ \E k \in 1 .. Len(server_entries) : k > serverVisited /\ server_entries[k] = x
          \/ \E k \in 1 .. Len(client_entries) : k > clientVisited /\ client_entries[k] = x
      BY <3>1 DEF TableInv, FreedOnce
    <3>3. CASE \E k \in 1 .. Len(server_entries) : k > serverVisited /\ server_entries[k] = x
      <4>1. PICK k \in 1 .. Len(server_entries) : k > serverVisited /\ server_entries[k] = x
        BY <3>3
      <4>2. k # id BY <4>1, <3>1
      <4>3. k > id BY <4>1, <4>2, <1>0
      <4>4. QED BY <4>1, <4>3, <2>1
    <3>4. CASE \E k \in 1 .. Len(client_entries) : k > clientVisited /\ client_entries[k] = x
      BY <3>4, <2>1
    <3>5. QED BY <3>2, <3>3, <3>4
  <2>6. QED BY <2>3, <2>4, <2>5, <1>0, <1>1 DEF FreedOnce
<1> QED BY <1>2, <1>3

-----------------------------------------------------------------------------
(* Each operation preserves the invariant and is a step of ObjectTable or  *)
(* leaves it unchanged.                                                    *)
serverVars == <<server_entries, free_list, owned, freeIds>>

(* wl_get_server_object_ids_batch() allocates an id.                       *)
LEMMA GetServerObjectIdStep ==
  ASSUME IInv, GetServerObjectId
  PROVE  IInv' /\ \E id \in 1 .. MaxEntries : Table!Allocate(id, NULL)
<1>1. PICK id \in 1 .. MaxEntries : wl_map_insert_new(id) /\ owned' = owned \cup {id}
  BY DEF GetServerObjectId
<1>2. ServerInv /\ TableInv /\ id \in Nat /\ ~destroying
      /\ UNCHANGED <<client_entries, created, freed, orphaned, walkVars>>
  BY ClientObjectsAssumption DEF IInv, ServerInv, TableInv, TypeOK, GetServerObjectId
<1>3. /\ ServerInv' /\ id \notin owned
      /\ Stored(server_entries, server_entries', id, NULL)
      /\ id \in 1 .. Len(server_entries) => server_entries[id] \notin Resources
  BY <1>1, <1>2, InsertNew
<1>4. StoredOnce' /\ FreedOnce'
  BY <1>2, <1>3, ServerNull DEF ServerInv, ServerOK
<1>5. IInv'
  BY <1>2, <1>3, <1>4 DEF IInv, ServerInv, TypeOK, ClientOK, LifeOK, WalkInv, walkVars
<1>6. Table!Allocate(id, NULL)
  <2>1. \A i \in owned : server_entries'[i] = server_entries[i]
    BY <1>2, <1>3 DEF Stored, ServerInv, ServerOK
  <2>2. server_entries'[id] = NULL
    BY <1>3 DEF Stored
  <2>3. QED BY <1>1, <1>3, <2>1, <2>2 DEF Table!Allocate
<1> QED BY <1>5, <1>6

(* wl_resource_create() with a server id stores in an owned id or takes    *)
(* the next one.                                                           *)
LEMMA CreateAtServerIdStep ==
  ASSUME IInv, NEW id \in 1 .. MaxEntries, NEW r \in Resources, CreateAtServerId(id, r)
  PROVE  IInv' /\ (Table!Allocate(id, r) \/ Table!Store(id, r))
<1>1. ServerInv /\ TableInv /\ id \in Nat /\ ~destroying /\ r \in Resources \ created
      /\ server_entries' = wl_map_insert_at(server_entries, id, r)
      /\ owned' = owned \cup {id} /\ created' = created \cup {r}
      /\ orphaned' = orphaned \cup Orphan(server_entries, id)
      /\ UNCHANGED <<client_entries, free_list, freeIds, freed, walkVars>>
  BY ClientObjectsAssumption DEF IInv, ServerInv, TableInv, TypeOK, CreateAtServerId
<1>2. server_entries \in Seq(Words) /\ Len(server_entries) \in Nat /\ owned \subseteq 1 .. Len(server_entries)
      /\ r \in Words /\ r \in Pointers
  BY <1>1 DEF ServerInv, ServerOK, Words, Pointers
<1>3. id \in owned \/ (id = Len(server_entries) + 1 /\ id <= MaxEntries)
  BY DEF CreateAtServerId
<1>4. server_entries' \in Seq(Words) /\ Stored(server_entries, server_entries', id, r)
  <2>1. id \in 1 .. Len(server_entries) + 1 BY <1>2, <1>3
  <2>2. QED BY <2>1, <1>1, <1>2, InsertAt
<1>5. ServerInv'
  BY <1>1, <1>2, <1>3, <1>4, PointerStored
<1>6. /\ id \in 1 .. Len(server_entries) => server_entries[id] \notin Resources \ orphaned'
      /\ orphaned \subseteq orphaned' /\ orphaned' \subseteq created
  <2>1. Orphan(server_entries, id) \subseteq created
    BY <1>1 DEF Orphan, wl_map_lookup, IsFree, TableInv, StoredOnce
  <2>2. id \in 1 .. Len(server_entries) =>
            server_entries[id] \notin Resources \ Orphan(server_entries, id)
    BY ClientObjectsAssumption DEF Orphan, wl_map_lookup, IsFree
  <2>3. QED BY <1>1, <2>1, <2>2 DEF TableInv, TypeOK, LifeOK
<1>7. StoredOnce' /\ FreedOnce'
  BY <1>1, <1>4, <1>6, ServerCreate
<1>8. IInv'
  BY <1>1, <1>5, <1>6, <1>7 DEF IInv, ServerInv, TypeOK, ClientOK, LifeOK, WalkInv, walkVars
<1>9. server_entries'[id] = r /\ \A i \in owned : i # id => server_entries'[i] = server_entries[i]
  <2>1. 1 .. Len(server_entries) \subseteq 1 .. Len(server_entries') BY <1>2, <1>4 DEF Stored
  <2>2. QED BY <2>1, <1>2, <1>4 DEF Stored
<1>10. ASSUME id \in owned PROVE Table!Store(id, r)
  <2>1. owned' = owned BY <1>1, <1>10
  <2>2. [i \in owned |-> server_entries'[i]] = [[i \in owned |-> server_entries[i]] EXCEPT ![id] = r]
    BY <1>9, <1>10
  <2>3. QED BY <2>1, <2>2, <1>10 DEF Table!Store
<1>11. ASSUME id \notin owned PROVE Table!Allocate(id, r)
  <2>1. owned' = owned \cup {id} /\ \A i \in owned : server_entries'[i] = server_entries[i]
    BY <1>1, <1>9, <1>11
  <2>2. [i \in owned \cup {id} |-> server_entries'[i]]
          = [i \in owned \cup {id} |-> IF i = id THEN r ELSE [j \in owned |-> server_entries[j]][i]]
    BY <1>9, <1>11, <2>1
  <2>3. QED BY <2>1, <2>2, <1>11 DEF Table!Allocate
<1> QED BY <1>8, <1>10, <1>11

(* Operations on client ids leave the server ids alone.                    *)
LEMMA ReserveNewStep ==
  ASSUME IInv, NEW id \in 1 .. MaxEntries, ReserveNew(id)
  PROVE  IInv' /\ UNCHANGED serverVars
<1>1. TableInv /\ id \in Nat /\ ~destroying /\ id = Len(client_entries) + 1
      /\ client_entries' = Append(client_entries, NULL)
      /\ UNCHANGED <<server_entries, free_list, owned, freeIds, created, freed, orphaned, walkVars>>
  BY ClientObjectsAssumption DEF IInv, TableInv, ReserveNew
<1>2. client_entries \in Seq(Pointers) /\ NULL \in Pointers
  BY <1>1 DEF TableInv, TypeOK, ClientOK, Pointers
<1>3. client_entries' \in Seq(Pointers) /\ Stored(client_entries, client_entries', id, NULL)
  BY <1>1, <1>2, Extend
<1>4. StoredOnce' /\ FreedOnce'
  BY <1>1, <1>3, ClientNull
<1> QED
  BY <1>1, <1>3, <1>4
  DEF IInv, TypeOK, ClientOK, ServerOK, LifeOK, WalkInv, walkVars, serverVars, FreeListOK,
      OwnedHoldPointers

(* wl_resource_create() with a client id.                                  *)
LEMMA CreateAtClientIdStep ==
  ASSUME IInv, NEW id \in 1 .. MaxEntries, NEW r \in Resources, CreateAtClientId(id, r)
  PROVE  IInv' /\ UNCHANGED serverVars
<1>1. TableInv /\ id \in Nat /\ ~destroying /\ r \in Resources \ created
      /\ id \in 1 .. Len(client_entries) + 1
      /\ client_entries' = wl_map_insert_at(client_entries, id, r) /\ created' = created \cup {r}
      /\ orphaned' = orphaned \cup Orphan(client_entries, id)
      /\ UNCHANGED <<server_entries, free_list, owned, freeIds, freed, walkVars>>
  BY ClientObjectsAssumption DEF IInv, TableInv, CreateAtClientId
<1>2. client_entries \in Seq(Pointers) /\ r \in Pointers /\ Len(client_entries) \in Nat
  BY <1>1 DEF TableInv, TypeOK, ClientOK, Pointers
<1>3. client_entries' \in Seq(Pointers) /\ Stored(client_entries, client_entries', id, r)
  <2>1. id \in 1 .. Len(client_entries) + 1 BY <1>1, <1>2
  <2>2. QED BY <2>1, <1>1, <1>2, InsertAt
<1>4. /\ id \in 1 .. Len(client_entries) => client_entries[id] \in orphaned' \cup {NULL}
      /\ orphaned \subseteq orphaned' /\ orphaned' \subseteq created
  <2>1. id \in 1 .. Len(client_entries) => wl_map_lookup(client_entries, id) = client_entries[id]
    <3> SUFFICES ASSUME id \in 1 .. Len(client_entries)
                 PROVE  wl_map_lookup(client_entries, id) = client_entries[id]
      OBVIOUS
    <3>1. client_entries[id] \in Pointers BY <1>2
    <3>2. QED BY <3>1, ClientObjectsAssumption DEF wl_map_lookup, IsFree, Pointers
  <2>2. id \notin 1 .. Len(client_entries) => wl_map_lookup(client_entries, id) = NULL
    BY DEF wl_map_lookup
  <2>3. Orphan(client_entries, id) \subseteq created
    BY <1>1, <2>1, <2>2 DEF Orphan, TableInv, StoredOnce
  <2>4. QED BY <1>1, <2>1, <2>3 DEF Orphan, TableInv, TypeOK, LifeOK
<1>5. StoredOnce' /\ FreedOnce'
  BY <1>1, <1>3, <1>4, ClientCreate
<1> QED
  BY <1>1, <1>3, <1>4, <1>5
  DEF IInv, TypeOK, ClientOK, ServerOK, LifeOK, WalkInv, walkVars, serverVars, FreeListOK,
      OwnedHoldPointers

(* wl_resource_destroy_silently() of a client id, or of a server id, which *)
(* stays with the browser compositor.                                      *)
LEMMA DestroySilentlyStep ==
  ASSUME IInv, NEW id \in 1 .. MaxEntries, wl_resource_destroy_silently(id)
  PROVE  IInv' /\ (UNCHANGED serverVars \/ Table!Store(id, NULL))
<1>1. ServerInv /\ TableInv /\ id \in Nat /\ NULL \in Pointers /\ NULL \in Words
      /\ UNCHANGED <<free_list, owned, freeIds, created, orphaned, walkVars>>
  BY ClientObjectsAssumption
  DEF IInv, ServerInv, TableInv, TypeOK, wl_resource_destroy_silently, Pointers, Words
<1>2. CASE /\ wl_map_lookup(client_entries, id) # NULL
           /\ freed' = freed \cup {client_entries[id]}
           /\ client_entries' = wl_map_insert_at(client_entries, id, NULL)
           /\ UNCHANGED server_entries
  <2>1. client_entries \in Seq(Pointers) /\ Len(client_entries) \in Nat
    BY <1>1 DEF TableInv, TypeOK, ClientOK
  <2>2. id \in 1 .. Len(client_entries) /\ client_entries[id] # NULL
    BY <1>2 DEF wl_map_lookup
  <2>3. client_entries[id] \in created /\ created \subseteq Resources
    BY <2>2, <1>1 DEF TableInv, StoredOnce, TypeOK, LifeOK
  <2>4. client_entries' \in Seq(Pointers) /\ Stored(client_entries, client_entries', id, NULL)
    <3>1. id \in 1 .. Len(client_entries) + 1 BY <2>1, <2>2
    <3>2. QED BY <3>1, <2>1, <1>1, <1>2, InsertAt
  <2>5. StoredOnce' /\ FreedOnce'
    BY <2>2, <2>3, <2>4, <1>1, <1>2, ClientDestroyed
  <2>6. QED
    BY <2>3, <2>4, <2>5, <1>1, <1>2
    DEF IInv, TableInv, ServerInv, TypeOK, ClientOK, ServerOK, LifeOK, WalkInv, walkVars, serverVars,
        FreeListOK, OwnedHoldPointers
<1>3. CASE /\ wl_map_lookup(server_entries, id) # NULL
           /\ freed' = freed \cup {server_entries[id]}
           /\ server_entries' = wl_map_insert_at(server_entries, id, NULL)
           /\ UNCHANGED client_entries
  <2>1. server_entries \in Seq(Words) /\ Len(server_entries) \in Nat /\ owned \subseteq 1 .. Len(server_entries)
    BY <1>1 DEF ServerInv, ServerOK
  <2>2. id \in 1 .. Len(server_entries) /\ server_entries[id] # NULL /\ server_entries[id] \notin Nat
    BY <1>3 DEF wl_map_lookup, IsFree
  <2>3. server_entries[id] \in created /\ created \subseteq Resources
    BY <2>2, <1>1 DEF TableInv, StoredOnce, TypeOK, LifeOK
  <2>4. id \in owned
    BY <2>2, <2>3, <1>1, ResourceIsOwned
  <2>5. server_entries' \in Seq(Words) /\ Stored(server_entries, server_entries', id, NULL)
    <3>1. id \in 1 .. Len(server_entries) + 1 BY <2>1, <2>2
    <3>2. QED BY <3>1, <2>1, <1>1, <1>3, InsertAt
  <2>6. ServerInv'
    <3>1. owned' = owned \cup {id} BY <1>1, <2>4
    <3>2. QED BY <3>1, <2>4, <2>5, <1>1, PointerStored
  <2>7. StoredOnce' /\ FreedOnce'
    BY <2>2, <2>3, <2>5, <1>1, <1>3, ServerDestroyed
  <2>8. IInv'
    BY <2>3, <2>6, <2>7, <1>1, <1>3
    DEF IInv, TableInv, ServerInv, TypeOK, ClientOK, LifeOK, WalkInv, walkVars
  <2>9. Table!Store(id, NULL)
    <3>1. Len(server_entries') = Len(server_entries) BY <2>1, <2>2, <2>5 DEF Stored
    <3>2. server_entries'[id] = NULL /\ \A i \in owned : i # id => server_entries'[i] = server_entries[i]
      BY <3>1, <2>1, <2>5 DEF Stored
    <3>3. QED BY <3>2, <2>4, <1>1 DEF Table!Store
  <2>10. QED BY <2>8, <2>9
<1> QED BY <1>2, <1>3 DEF wl_resource_destroy_silently

(* wl_resource_destroy() of a client id, or of a server id, which is free  *)
(* from then on.                                                           *)
LEMMA DestroyStep ==
  ASSUME IInv, NEW r \in Resources, wl_resource_destroy(r)
  PROVE  IInv' /\ (UNCHANGED serverVars \/ \E id \in owned : Table!Release(id))
<1>1. ServerInv /\ TableInv /\ NULL \in Pointers /\ NULL \in Words /\ r \in created
      /\ freed' = freed \cup {r} /\ UNCHANGED <<created, orphaned, walkVars>>
  BY ClientObjectsAssumption
  DEF IInv, ServerInv, TableInv, TypeOK, wl_resource_destroy, Alive, Pointers, Words
<1>2. ASSUME NEW id \in 1 .. Len(client_entries),
             client_entries[id] = r,
             client_entries' = wl_map_insert_at(client_entries, id, NULL),
             UNCHANGED <<server_entries, free_list, owned, freeIds>>
      PROVE  IInv' /\ UNCHANGED serverVars
  <2>1. client_entries \in Seq(Pointers) /\ Len(client_entries) \in Nat
    BY <1>1 DEF TableInv, TypeOK, ClientOK
  <2>2. client_entries' \in Seq(Pointers) /\ Stored(client_entries, client_entries', id, NULL)
    <3>1. id \in 1 .. Len(client_entries) + 1 BY <2>1
    <3>2. QED BY <3>1, <2>1, <1>1, <1>2, InsertAt
  <2>3. StoredOnce' /\ FreedOnce'
    BY <2>2, <1>1, <1>2, ClientDestroyed
  <2>4. QED
    BY <2>2, <2>3, <1>1, <1>2
    DEF IInv, TableInv, ServerInv, TypeOK, ClientOK, ServerOK, LifeOK, WalkInv, walkVars, serverVars,
        FreeListOK, OwnedHoldPointers
<1>3. ASSUME NEW id \in 1 .. Len(server_entries),
             server_entries[id] = r,
             wl_map_remove(id),
             owned' = owned \ {id},
             UNCHANGED client_entries
      PROVE  IInv' /\ id \in owned /\ Table!Release(id)
  <2>1. id \in owned
    BY <1>1, <1>3, ResourceIsOwned
  <2>2. ServerInv' /\ Stored(server_entries, server_entries', id, free_list)
    BY <2>1, <1>1, <1>3, Remove
  <2>3. free_list \in Nat \cup {NULL} /\ server_entries' \in Seq(Words) /\ Len(server_entries) \in Nat
        /\ owned \subseteq 1 .. Len(server_entries)
    BY <1>1, <2>2 DEF ServerInv, ServerOK
  <2>4. StoredOnce' /\ FreedOnce'
    BY <2>2, <2>3, <1>1, <1>3, ServerDestroyed
  <2>5. IInv'
    BY <2>2, <2>4, <1>1, <1>3
    DEF IInv, TableInv, ServerInv, TypeOK, ClientOK, LifeOK, WalkInv, walkVars
  <2>6. \A i \in owned \ {id} : server_entries'[i] = server_entries[i]
    <3>1. Len(server_entries') = Len(server_entries) BY <2>2, <2>3, <1>3 DEF Stored
    <3>2. QED BY <3>1, <2>2, <2>3 DEF Stored
  <2>7. Table!Release(id)
    BY <2>1, <2>6, <1>3 DEF Table!Release
  <2>8. QED BY <2>1, <2>5, <2>7
<1> QED BY <1>2, <1>3 DEF wl_resource_destroy

(* Beginning the walk and each of its steps.                               *)
LEMMA WalkStep ==
  ASSUME IInv, ClientDestroyBegins \/ VisitClientEntry \/ VisitServerEntry
  PROVE  IInv' /\ UNCHANGED serverVars
<1>1. TableInv /\ UNCHANGED <<client_entries, server_entries, free_list, owned, freeIds, created, orphaned>>
  BY DEF IInv, TableInv, ClientDestroyBegins, VisitClientEntry, VisitServerEntry, tableVars
<1>2. ClientOK' /\ ServerOK' /\ FreeListOK' /\ OwnedHoldPointers' /\ UNCHANGED serverVars
  BY <1>1 DEF IInv, TypeOK, ClientOK, ServerOK, FreeListOK, OwnedHoldPointers, serverVars
<1>3. CASE ClientDestroyBegins
  <2>1. destroying' = TRUE /\ UNCHANGED <<freed, clientVisited, serverVisited>>
    BY <1>3 DEF ClientDestroyBegins
  <2>2. StoredOnce' /\ FreedOnce' /\ LifeOK' /\ WalkInv'
    BY <2>1, <1>1 DEF TableInv, StoredOnce, FreedOnce, TypeOK, LifeOK, WalkInv
  <2>3. QED BY <2>2, <1>2 DEF IInv, TypeOK
<1>4. CASE VisitClientEntry \/ VisitServerEntry
  <2>1. StoredOnce' /\ FreedOnce'
    BY <1>1, <1>4, WalkFrees
  <2>2. destroying' = destroying /\ destroying
    BY <1>4 DEF VisitClientEntry, VisitServerEntry
  <2>3. clientVisited' \in Nat /\ serverVisited' \in Nat
    BY <1>4, <1>1 DEF VisitClientEntry, VisitServerEntry, TableInv, TypeOK, LifeOK
  <2>4. freed' \subseteq created'
    <3>1. CASE VisitClientEntry
      <4>1. clientVisited + 1 \in 1 .. Len(client_entries)
        BY <3>1, <1>1 DEF VisitClientEntry, TableInv, TypeOK, LifeOK, ClientOK
      <4>2. client_entries[clientVisited + 1] \in created \cup {NULL}
        BY <4>1, <1>1 DEF TableInv, StoredOnce
      <4>3. QED
        BY <3>1, <4>2, <1>1, ClientObjectsAssumption DEF VisitClientEntry, Free, TableInv, TypeOK, LifeOK
    <3>2. CASE VisitServerEntry
      <4>1. serverVisited + 1 \in 1 .. Len(server_entries)
        BY <3>2, <1>1 DEF VisitServerEntry, TableInv, TypeOK, LifeOK, ServerOK
      <4>2. server_entries[serverVisited + 1] \in created \cup {NULL} \cup Nat
        BY <4>1, <1>1 DEF TableInv, StoredOnce
      <4>3. QED
        BY <3>2, <4>2, <1>1, ClientObjectsAssumption DEF VisitServerEntry, Free, TableInv, TypeOK, LifeOK
    <3>3. QED BY <3>1, <3>2, <1>4
  <2>5. LifeOK' /\ WalkInv'
    BY <2>2, <2>3, <2>4, <1>1 DEF TableInv, TypeOK, LifeOK, WalkInv
  <2>6. QED BY <2>1, <2>5, <1>2 DEF IInv, TypeOK
<1> QED BY <1>3, <1>4

(* The initial state of a client.                                          *)
LEMMA InitInv == Init => IInv
<1> SUFFICES ASSUME Init PROVE IInv
  OBVIOUS
<1>1. client_entries \in Seq(Pointers) /\ Len(client_entries) = 1 /\ client_entries[1] = NULL
  BY DEF Init, Pointers
<1>2. server_entries \in Seq(Words) /\ Len(server_entries) = 0
  BY DEF Init
<1>3. freeIds \in Seq(Nat) /\ Len(freeIds) = 0
  BY DEF Init
<1>4. TypeOK
  <2>1. ClientOK BY <1>1 DEF ClientOK
  <2>2. Len(server_entries) <= MaxEntries BY <1>2, ClientObjectsAssumption
  <2>3. ServerOK BY <1>2, <1>3, <2>2 DEF Init, ServerOK
  <2>4. LifeOK BY DEF Init, LifeOK
  <2>5. QED BY <2>1, <2>3, <2>4 DEF TypeOK
<1>5. FreeListOK /\ OwnedHoldPointers
  BY <1>2, <1>3 DEF Init, FreeListOK, OwnedHoldPointers
<1>6. StoredOnce
  BY <1>1, <1>2 DEF Init, StoredOnce
<1>7. FreedOnce /\ WalkInv
  BY <1>1, <1>2 DEF Init, FreedOnce, WalkInv
<1> QED BY <1>4, <1>5, <1>6, <1>7 DEF IInv

(* Every step preserves the invariant and is a step of ObjectTable.        *)
LEMMA NextInv == IInv /\ [Next]_vars => IInv' /\ [Table!Next]_(Table!vars)
<1> SUFFICES ASSUME IInv, [Next]_vars PROVE IInv' /\ [Table!Next]_(Table!vars)
  OBVIOUS
<1>0. ASSUME UNCHANGED serverVars PROVE UNCHANGED Table!vars
  BY <1>0 DEF serverVars, Table!vars
<1>1. CASE GetServerObjectId
  BY <1>1, GetServerObjectIdStep DEF Table!Next
<1>2. ASSUME NEW id \in 1 .. MaxEntries, ReserveNew(id) PROVE IInv' /\ [Table!Next]_(Table!vars)
  BY <1>2, <1>0, ReserveNewStep
<1>3. ASSUME NEW id \in 1 .. MaxEntries, wl_resource_destroy_silently(id)
      PROVE  IInv' /\ [Table!Next]_(Table!vars)
  BY <1>3, <1>0, DestroySilentlyStep DEF Table!Next
<1>4. ASSUME NEW id \in 1 .. MaxEntries, NEW r \in Resources, CreateAtServerId(id, r)
      PROVE  IInv' /\ [Table!Next]_(Table!vars)
  BY <1>4, CreateAtServerIdStep DEF Table!Next
<1>5. ASSUME NEW id \in 1 .. MaxEntries, NEW r \in Resources, CreateAtClientId(id, r)
      PROVE  IInv' /\ [Table!Next]_(Table!vars)
  BY <1>5, <1>0, CreateAtClientIdStep
<1>6. ASSUME NEW r \in Resources, wl_resource_destroy(r) PROVE IInv' /\ [Table!Next]_(Table!vars)
  <2>1. owned \subseteq 1 .. MaxEntries
    <3>1. Len(server_entries) \in Nat BY DEF IInv, TypeOK, ServerOK
    <3>2. QED BY <3>1, ClientObjectsAssumption DEF IInv, TypeOK, ServerOK
  <2>2. QED BY <1>6, <1>0, <2>1, DestroyStep DEF Table!Next
<1>7. CASE ClientDestroyBegins \/ VisitClientEntry \/ VisitServerEntry
  BY <1>7, <1>0, WalkStep
<1>8. CASE UNCHANGED vars
  <2>1. IInv'
    BY <1>8
    DEF vars, IInv, TypeOK, ClientOK, ServerOK, LifeOK, FreeListOK, OwnedHoldPointers, StoredOnce,
        FreedOnce, WalkInv
  <2>2. QED BY <1>8, <1>0, <2>1 DEF vars, serverVars
<1> QED BY <1>1, <1>2, <1>3, <1>4, <1>5, <1>6, <1>7, <1>8 DEF Next

(* The strengthened invariant holds throughout.                            *)
THEOREM TableInvariant == Spec => []IInv
<1>1. IInv /\ [Next]_vars => IInv' BY NextInv
<1> QED BY <1>1, InitInv, PTL DEF Spec

(* The free list of wl_map is exactly the ids nobody holds, without cycle  *)
(* or repetition.                                                          *)
THEOREM FreeListCorrect == Spec => []FreeListOK
<1>1. IInv => FreeListOK BY DEF IInv
<1> QED BY <1>1, TableInvariant, PTL

(* No live resource is lost from the table but those that                  *)
(* wl_resource_create() writes another one over, and the walk of           *)
(* wl_client_destroy() frees none twice.                                   *)
THEOREM NoLeakNoDoubleFree == Spec => []FreedOnce
<1>1. IInv => FreedOnce BY DEF IInv
<1> QED BY <1>1, TableInvariant, PTL

(* Lookups find live resources only, and nothing at a free id, until       *)
(* wl_client_destroy() begins.                                             *)
THEOREM LookupsAlive == Spec => []LookupAlive
<1>1. IInv => LookupAlive
  <2> SUFFICES ASSUME IInv, ~destroying PROVE LookupAlive
    BY DEF LookupAlive
  <2>1. clientVisited = 0 /\ serverVisited = 0 BY DEF IInv, WalkInv
  <2>2. NULL \notin freed BY ClientObjectsAssumption DEF IInv, TypeOK, LifeOK
  <2>3. ASSUME NEW id \in 1 .. Len(client_entries)
        PROVE  wl_map_lookup(client_entries, id) \notin freed
    <3>1. id > clientVisited BY <2>1
    <3>2. client_entries[id] \notin freed BY <3>1 DEF IInv, FreedOnce
    <3>3. QED BY <2>2, <3>2 DEF wl_map_lookup
  <2>4. ASSUME NEW id \in 1 .. Len(server_entries)
        PROVE  wl_map_lookup(server_entries, id) \notin freed
    <3>1. id > serverVisited BY <2>1
    <3>2. server_entries[id] \notin freed BY <3>1 DEF IInv, FreedOnce
    <3>3. QED BY <2>2, <3>2 DEF wl_map_lookup
  <2>5. ASSUME NEW id \in 1 .. Len(server_entries), id \notin owned
        PROVE  wl_map_lookup(server_entries, id) = NULL
    <3>1. PICK k \in 1 .. Len(freeIds) : freeIds[k] = id
      BY <2>5 DEF IInv, FreeListOK
    <3>2. server_entries[id] = IF k = Len(freeIds) THEN NULL ELSE freeIds[k + 1]
      BY <3>1 DEF IInv, FreeListOK
    <3>3. k # Len(freeIds) => freeIds[k + 1] \in Nat
      BY DEF IInv, FreeListOK, TypeOK, ServerOK
    <3>4. QED BY <3>2, <3>3 DEF wl_map_lookup, IsFree
  <2>6. QED BY <2>3, <2>4, <2>5 DEF LookupAlive
<1>2. QED BY <1>1, TableInvariant, PTL

(* The linked representation implements the abstract table.                *)
THEOREM Refinement == Spec => ImplementsTable
<1>1. Init => Table!Init
  <2> SUFFICES ASSUME Init PROVE Table!Init
    OBVIOUS
  <2>1. owned = {} BY DEF Init
  <2>2. [id \in owned |-> server_entries[id]] = [id \in {} |-> NULL]
    BY <2>1
  <2>3. QED BY <2>1, <2>2 DEF Table!Init
<1>2. QED BY <1>1, NextInv, TableInvariant, PTL DEF Spec, ImplementsTable, Table!Spec

-----------------------------------------------------------------------------
(* RingBuffer: for any size, wherever the counters stand, and whatever the *)
(* elements are.                                                           *)

(* Ring buffers that hold elements of S: the counters are below the point  *)
(* where they wrap around, and at most RingSize apart.                     *)
Slots == 0 .. RingSize - 1
Rings(S) ==
    {b \in [data : [Slots -> S], head : 0 .. Wrap - 1, tail : 0 .. Wrap - 1] :
        RingLen(b) <= RingSize}

(* A number modulo another, when their quotient is at most two.            *)
LEMMA ModOnce ==
    ASSUME NEW r \in Nat \ {0}, NEW i \in 0 .. 3 * r - 1
    PROVE  i % r = IF i < r THEN i ELSE IF i < 2 * r THEN i - r ELSE i - 2 * r
<1>1. PICK d, m : d = i \div r /\ m = i % r
  OBVIOUS
<1>2. d \in Int /\ m \in 0 .. r - 1 /\ i = r * d + m
  BY <1>1
<1>3. d = 0 \/ d = 1 \/ d = 2
  <2>1. d >= 0
    <3>1. ASSUME d <= -1 PROVE FALSE
      <4>1. r * d <= r * (-1)
        BY <1>2, <3>1
      <4> QED BY <4>1, <1>2
    <3> QED BY <3>1, <1>2
  <2>2. d <= 2
    <3>1. ASSUME d >= 3 PROVE FALSE
      <4>1. r * d >= r * 3
        BY <1>2, <3>1
      <4> QED BY <4>1, <1>2
    <3> QED BY <3>1, <1>2
  <2> QED BY <2>1, <2>2, <1>2
<1>4. CASE d = 0
  BY <1>1, <1>2, <1>4
<1>5. CASE d = 1
  BY <1>1, <1>2, <1>5
<1>6. CASE d = 2
  BY <1>1, <1>2, <1>6
<1> QED BY <1>3, <1>4, <1>5, <1>6

(* A difference modulo.                                                    *)
LEMMA ModBelow ==
    ASSUME NEW r \in Nat \ {0}, NEW i \in (1 - r) .. (r - 1)
    PROVE  i % r = IF i >= 0 THEN i ELSE i + r
<1>1. PICK d, m : d = i \div r /\ m = i % r
  OBVIOUS
<1>2. d \in Int /\ m \in 0 .. r - 1 /\ i = r * d + m
  BY <1>1
<1>3. d = 0 \/ d = -1
  <2>1. d >= -1
    <3>1. ASSUME d <= -2 PROVE FALSE
      <4>1. r * d <= r * (-2)
        BY <1>2, <3>1
      <4> QED BY <4>1, <1>2
    <3> QED BY <3>1, <1>2
  <2>2. d <= 0
    <3>1. ASSUME d >= 1 PROVE FALSE
      <4>1. r * d >= r * 1
        BY <1>2, <3>1
      <4> QED BY <4>1, <1>2
    <3> QED BY <3>1, <1>2
  <2> QED BY <2>1, <2>2, <1>2
<1>4. CASE d = 0
  BY <1>1, <1>2, <1>4
<1>5. CASE d = -1
  BY <1>1, <1>2, <1>5
<1> QED BY <1>3, <1>4, <1>5

(* What a ring buffer holds, and how its counters are related: the head is *)
(* the length ahead of the tail, or has wrapped around once more.          *)
LEMMA RingParts ==
    ASSUME NEW S, NEW b \in Rings(S)
    PROVE  /\ b.data \in [Slots -> S]
           /\ b.head \in 0 .. 2 * RingSize - 1
           /\ b.tail \in 0 .. 2 * RingSize - 1
           /\ RingLen(b) \in 0 .. RingSize
           /\ RingLen(b) = IF b.tail <= b.head THEN b.head - b.tail
                           ELSE b.head - b.tail + 2 * RingSize
           /\ b = [data |-> b.data, head |-> b.head, tail |-> b.tail]
<1> USE RingAssumption
<1>1. /\ b \in [data : [Slots -> S], head : 0 .. Wrap - 1, tail : 0 .. Wrap - 1]
      /\ RingLen(b) <= RingSize
  BY DEF Rings
<1>2. b.head \in 0 .. 2 * RingSize - 1 /\ b.tail \in 0 .. 2 * RingSize - 1
  BY <1>1 DEF Wrap
<1>3. RingLen(b) = IF b.head - b.tail >= 0 THEN b.head - b.tail
                   ELSE b.head - b.tail + 2 * RingSize
  <2>1. 2 * RingSize \in Nat \ {0}
    OBVIOUS
  <2>2. b.head - b.tail \in (1 - 2 * RingSize) .. (2 * RingSize - 1)
    BY <1>2
  <2>3. PICK r, i : r = 2 * RingSize /\ i = b.head - b.tail
    OBVIOUS
  <2>4. i % r = IF i >= 0 THEN i ELSE i + r
    BY <2>1, <2>2, <2>3, ModBelow
  <2> QED BY <2>3, <2>4 DEF RingLen, Wrap
<1> QED BY <1>1, <1>2, <1>3

(* The slot of a counter.                                                  *)
LEMMA MaskIs ==
    ASSUME NEW i \in 0 .. 2 * RingSize - 1
    PROVE  Mask(i) = IF i < RingSize THEN i ELSE i - RingSize
<1>1. i \in 0 .. 3 * RingSize - 1 /\ i < 2 * RingSize
  BY RingAssumption
<1> QED BY <1>1, RingAssumption, ModOnce DEF Mask

(* A counter that moves on wraps around at most once.                      *)
LEMMA Moved ==
    ASSUME NEW i \in 0 .. 2 * RingSize - 1, NEW k \in 0 .. RingSize
    PROVE  /\ (i + k) % Wrap \in 0 .. 2 * RingSize - 1
           /\ (i + k) % Wrap = IF i + k < 2 * RingSize THEN i + k ELSE i + k - 2 * RingSize
<1> USE RingAssumption
<1>1. PICK r, j : r = 2 * RingSize /\ j = i + k
  OBVIOUS
<1>2. r \in Nat \ {0} /\ j \in 0 .. 2 * r - 1
  BY <1>1
<1>3. j % r = IF j < r THEN j ELSE j - r
  <2>1. j \in 0 .. 3 * r - 1 /\ j < 2 * r
    BY <1>2
  <2> QED BY <1>2, <2>1, ModOnce
<1> QED BY <1>1, <1>2, <1>3 DEF Wrap

(* The slot that is `k` behind the one of a counter.                       *)
Slot(i, k) ==
    IF Mask(i) + k < RingSize THEN Mask(i) + k ELSE Mask(i) + k - RingSize

LEMMA SlotFacts ==
    ASSUME NEW i \in 0 .. 2 * RingSize - 1
    PROVE  /\ Mask(i) \in Slots
           /\ \A k \in 0 .. RingSize - 1 : Slot(i, k) \in Slots
           /\ \A k, l \in 0 .. RingSize - 1 : Slot(i, k) = Slot(i, l) => k = l
BY RingAssumption, MaskIs DEF Slot, Slots

(* The slot of a counter that moved on but was not brought back in range.  *)
LEMMA MaskMoved ==
    ASSUME NEW i \in 0 .. 2 * RingSize - 1, NEW k \in 0 .. RingSize - 1
    PROVE  Mask(i + k) = Slot(i, k)
<1> USE RingAssumption
<1>1. Mask(i) = IF i < RingSize THEN i ELSE i - RingSize
  BY MaskIs
<1>2. PICK j : j = i + k
  OBVIOUS
<1>3. j \in 0 .. 3 * RingSize - 1
  BY <1>2
<1>4. Mask(j) = IF j < RingSize THEN j
                ELSE IF j < 2 * RingSize THEN j - RingSize ELSE j - 2 * RingSize
  BY <1>3, ModOnce DEF Mask
<1> QED BY <1>1, <1>2, <1>4 DEF Slot

(* The slots that follow those of a counter are those of the counter that  *)
(* moved on.                                                               *)
LEMMA SlotMoved ==
    ASSUME NEW i \in 0 .. 2 * RingSize - 1, NEW k \in 0 .. RingSize, NEW l \in 0 .. RingSize - 1,
           k + l <= RingSize - 1
    PROVE  Slot((i + k) % Wrap, l) = Slot(i, k + l)
<1> USE RingAssumption
<1>1. PICK j : j = (i + k) % Wrap
  OBVIOUS
<1>2. /\ j \in 0 .. 2 * RingSize - 1
      /\ j = IF i + k < 2 * RingSize THEN i + k ELSE i + k - 2 * RingSize
  BY <1>1, Moved
<1>3. /\ Mask(i) = IF i < RingSize THEN i ELSE i - RingSize
      /\ Mask(j) = IF j < RingSize THEN j ELSE j - RingSize
  BY <1>2, MaskIs
<1> QED BY <1>1, <1>2, <1>3 DEF Slot

(* A block, and a sequence after another, as functions.                    *)
LEMMA BlockIs ==
    ASSUME NEW from \in Nat, NEW n \in Nat
    PROVE  /\ Block(from, n) \in Seq(Nat)
           /\ Len(Block(from, n)) = n
           /\ \A k \in 1 .. n : Block(from, n)[k] = from + k - 1
<1>1. \A k \in 1 .. n : from + k - 1 \in Nat
  OBVIOUS
<1>2. Block(from, n) \in [1 .. n -> Nat]
  BY <1>1 DEF Block
<1>3. Block(from, n) \in Seq(Nat)
  BY <1>2
<1>4. Len(Block(from, n)) = n
  BY <1>2, <1>3
<1> QED BY <1>3, <1>4 DEF Block

LEMMA Joined ==
    ASSUME NEW S, NEW s \in Seq(S), NEW t \in Seq(S)
    PROVE  /\ s \o t \in Seq(S)
           /\ Len(s \o t) = Len(s) + Len(t)
           /\ \A k \in 1 .. Len(s) : (s \o t)[k] = s[k]
           /\ \A k \in 1 .. Len(t) : (s \o t)[Len(s) + k] = t[k]
OBVIOUS

LEMMA SeqIs ==
    ASSUME NEW S, NEW s \in Seq(S)
    PROVE  s = [k \in 1 .. Len(s) |-> s[k]]
OBVIOUS

(* The two blocks in which an operation walks through the slots.           *)
LEMMA TwoBlocks ==
    ASSUME NEW i \in 0 .. 2 * RingSize - 1, NEW n \in 0 .. RingSize
    PROVE  LET first == RingSize - Mask(i)
               slots == IF n <= first THEN Block(Mask(i), n)
                        ELSE Block(Mask(i), first) \o Block(0, n - first)
           IN  slots = [k \in 1 .. n |-> Slot(i, k - 1)]
<1> USE RingAssumption
<1>1. PICK m, first : m = Mask(i) /\ first = RingSize - m
  OBVIOUS
<1>2. m \in 0 .. RingSize - 1 /\ first \in 1 .. RingSize
  <2>1. m \in 0 .. RingSize - 1
    BY <1>1, SlotFacts DEF Slots
  <2> QED BY <1>1, <2>1
<1>3. ASSUME n <= first PROVE Block(m, n) = [k \in 1 .. n |-> Slot(i, k - 1)]
  <2>1. \A k \in 1 .. n : Slot(i, k - 1) = m + k - 1
    BY <1>1, <1>2, <1>3 DEF Slot
  <2> QED BY <2>1 DEF Block
<1>4. ASSUME ~ n <= first
      PROVE  Block(m, first) \o Block(0, n - first) = [k \in 1 .. n |-> Slot(i, k - 1)]
  <2>1. PICK s, t, rest : s = Block(m, first) /\ t = Block(0, rest) /\ rest = n - first
    OBVIOUS
  <2>2. first \in Nat /\ rest \in Nat /\ m \in Nat /\ n = first + rest
    BY <1>2, <1>4, <2>1
  <2>3. s \in Seq(Nat) /\ Len(s) = first /\ \A k \in 1 .. first : s[k] = m + k - 1
    BY <2>1, <2>2, BlockIs
  <2>4. t \in Seq(Nat) /\ Len(t) = rest /\ \A k \in 1 .. rest : t[k] = k - 1
    <3>1. /\ t \in Seq(Nat) /\ Len(t) = rest
          /\ \A k \in 1 .. rest : t[k] = 0 + k - 1
      BY <2>1, <2>2, BlockIs, Zenon
    <3> QED BY <3>1
  <2>5. PICK u : u = s \o t
    OBVIOUS
  <2>6. /\ u \in Seq(Nat) /\ Len(u) = n
        /\ \A k \in 1 .. first : u[k] = m + k - 1
        /\ \A k \in 1 .. rest : u[first + k] = k - 1
    <3>1. /\ u \in Seq(Nat)
          /\ Len(u) = Len(s) + Len(t)
          /\ \A k \in 1 .. Len(s) : u[k] = s[k]
          /\ \A k \in 1 .. Len(t) : u[Len(s) + k] = t[k]
      <4>1. s \in Seq(Nat) /\ t \in Seq(Nat)
        BY <2>3, <2>4
      <4> QED BY SMTT(40), <4>1, <2>5, Joined
    <3>2. Len(s) = first /\ Len(t) = rest
      BY <2>3, <2>4
    <3>3. \A k \in 1 .. first : u[k] = m + k - 1
      BY <2>3, <3>1, <3>2
    <3>4. \A k \in 1 .. rest : u[first + k] = k - 1
      BY <2>4, <3>1, <3>2
    <3> QED BY <2>2, <3>1, <3>2, <3>3, <3>4
  <2>7. \A k \in 1 .. n : u[k] = Slot(i, k - 1)
    <3> TAKE k \in 1 .. n
    <3>1. CASE k <= first
      BY SMTT(40), <1>1, <1>2, <2>2, <2>6, <3>1 DEF Slot
    <3>2. CASE ~ k <= first
      <4>1. PICK l : l = k - first
        OBVIOUS
      <4>2. l \in 1 .. rest /\ k = first + l
        BY <2>2, <3>2, <4>1
      <4>3. u[k] = l - 1
        BY <2>6, <4>2
      <4> QED BY <1>1, <1>2, <2>2, <4>2, <4>3 DEF Slot
    <3> QED BY <3>1, <3>2
  <2>8. u = [k \in 1 .. n |-> u[k]]
    BY <2>6, SeqIs
  <2> QED BY <2>1, <2>5, <2>7, <2>8
<1> QED BY <1>1, <1>3, <1>4

(* ring_buffer_copy() reads the slots from the tail on.                    *)
LEMMA CopyIs ==
    ASSUME NEW S, NEW b \in Rings(S), NEW n \in 0 .. RingSize
    PROVE  RingCopy(b, n) = [k \in 1 .. n |-> b.data[Slot(b.tail, k - 1)]]
<1>1. b.tail \in 0 .. 2 * RingSize - 1
  BY RingParts
<1>2. PICK slots : slots = IF n <= RingSize - Mask(b.tail) THEN Block(Mask(b.tail), n)
                           ELSE Block(Mask(b.tail), RingSize - Mask(b.tail))
                                \o Block(0, n - (RingSize - Mask(b.tail)))
  OBVIOUS
<1>3. slots = [k \in 1 .. n |-> Slot(b.tail, k - 1)]
  BY <1>1, <1>2, TwoBlocks
<1>4. RingCopy(b, n) = [k \in 1 .. n |-> b.data[slots[k]]]
  BY <1>2 DEF RingCopy
<1> QED BY <1>3, <1>4

LEMMA CopyFacts ==
    ASSUME NEW S, NEW b \in Rings(S), NEW n \in 0 .. RingSize
    PROVE  /\ RingCopy(b, n) \in Seq(S)
           /\ Len(RingCopy(b, n)) = n
           /\ \A k \in 1 .. n : RingCopy(b, n)[k] = b.data[Slot(b.tail, k - 1)]
<1>1. PICK c : c = RingCopy(b, n)
  OBVIOUS
<1>2. c = [k \in 1 .. n |-> b.data[Slot(b.tail, k - 1)]]
  BY <1>1, CopyIs
<1>3. \A k \in 1 .. n : b.data[Slot(b.tail, k - 1)] \in S
  <2> TAKE k \in 1 .. n
  <2>1. k - 1 \in 0 .. RingSize - 1
    BY RingAssumption
  <2>2. b.tail \in 0 .. 2 * RingSize - 1 /\ b.data \in [Slots -> S]
    BY RingParts
  <2>3. Slot(b.tail, k - 1) \in Slots
    BY <2>1, <2>2, SlotFacts
  <2> QED BY <2>2, <2>3
<1>4. c \in [1 .. n -> S] /\ n \in Nat
  BY <1>2, <1>3, RingAssumption
<1>5. c \in Seq(S) /\ Len(c) = n
  BY <1>4
<1> QED BY <1>1, <1>2, <1>5

(* The slots that a sequence is copied to, and those that stay as they are. *)
Copied(b, s, data) ==
    /\ \A j \in DOMAIN s : data[Slot(b.head, j - 1)] = s[j]
    /\ \A i \in Slots : (\A j \in DOMAIN s : Slot(b.head, j - 1) # i) => data[i] = b.data[i]

LEMMA CopiedFacts ==
    ASSUME NEW S, NEW b \in Rings(S), NEW s \in Seq(S), NEW slots, NEW data,
           Len(s) <= RingSize,
           \A j \in DOMAIN s : slots[j] = Slot(b.head, j - 1),
           data = [i \in DOMAIN b.data |->
                    IF \E j \in DOMAIN s : slots[j] = i
                    THEN s[CHOOSE j \in DOMAIN s : slots[j] = i] ELSE b.data[i]]
    PROVE  data \in [Slots -> S] /\ Copied(b, s, data)
<1> USE RingAssumption
<1>1. b.head \in 0 .. 2 * RingSize - 1 /\ b.data \in [Slots -> S]
  BY RingParts
<1>2. \A j \in DOMAIN s : j \in 1 .. RingSize /\ j - 1 \in 0 .. RingSize - 1 /\ s[j] \in S
  OBVIOUS
<1>3. data \in [Slots -> S]
  BY <1>1, <1>2
<1>4. ASSUME NEW j \in DOMAIN s PROVE data[Slot(b.head, j - 1)] = s[j]
  <2>1. PICK i : i = slots[j]
    OBVIOUS
  <2>2. i = Slot(b.head, j - 1) /\ i \in Slots
    BY <1>1, <1>2, <1>4, <2>1, SlotFacts
  <2>3. ASSUME NEW l \in DOMAIN s, slots[l] = i PROVE l = j
    <3>1. Slot(b.head, l - 1) = Slot(b.head, j - 1)
      BY <1>4, <2>2, <2>3
    <3>2. l - 1 = j - 1
      BY <1>1, <1>2, <1>4, <2>3, <3>1, SlotFacts
    <3> QED BY <1>2, <1>4, <2>3, <3>2
  <2>4. (CHOOSE l \in DOMAIN s : slots[l] = i) = j
    BY <1>4, <2>1, <2>3
  <2>5. data[i] = s[CHOOSE l \in DOMAIN s : slots[l] = i]
    BY <1>1, <1>4, <2>1, <2>2
  <2> QED BY <2>2, <2>4, <2>5
<1>5. ASSUME NEW i \in Slots, \A j \in DOMAIN s : Slot(b.head, j - 1) # i
      PROVE  data[i] = b.data[i]
  BY <1>1, <1>5
<1> QED BY <1>3, <1>4, <1>5 DEF Copied

(* A ring buffer whose slots from the head on, as far as there is room,    *)
(* hold a sequence, the others being what they were, holds that sequence   *)
(* after what it held.                                                     *)
LEMMA Appended ==
    ASSUME NEW S, NEW b \in Rings(S), NEW s \in Seq(S), NEW data \in [Slots -> S],
           RingLen(b) + Len(s) <= RingSize, Copied(b, s, data)
    PROVE  LET r == [data |-> data, head |-> (b.head + Len(s)) % Wrap, tail |-> b.tail]
           IN  r \in Rings(S) /\ Contents(r) = Contents(b) \o s
<1> USE RingAssumption
<1>1. PICK h, t, n, m : h = b.head /\ t = b.tail /\ n = RingLen(b) /\ m = Len(s)
  OBVIOUS
<1>2. /\ h \in 0 .. 2 * RingSize - 1 /\ t \in 0 .. 2 * RingSize - 1
      /\ n \in 0 .. RingSize /\ m \in 0 .. RingSize /\ n + m <= RingSize
  <2>1. m \in Nat
    BY <1>1
  <2> QED BY <1>1, <2>1, RingParts
<1>3. n = IF t <= h THEN h - t ELSE h - t + 2 * RingSize
  BY <1>1, RingParts
<1>4. DOMAIN s = 1 .. m
  BY <1>1
<1>5. h = (t + n) % Wrap
  <2>1. (t + n) % Wrap = IF t + n < 2 * RingSize THEN t + n ELSE t + n - 2 * RingSize
    BY <1>2, Moved
  <2> QED BY <1>2, <1>3, <2>1
<1>6. ASSUME NEW j \in 1 .. m
      PROVE  n + (j - 1) \in n .. RingSize - 1 /\ Slot(h, j - 1) = Slot(t, n + (j - 1))
  <2>1. j - 1 \in 0 .. RingSize - 1 /\ n + (j - 1) <= RingSize - 1
    BY <1>2
  <2>2. Slot((t + n) % Wrap, j - 1) = Slot(t, n + (j - 1))
    BY <1>2, <2>1, SlotMoved
  <2> QED BY <1>2, <1>5, <2>1, <2>2
<1>7. \A k \in 0 .. n - 1 : data[Slot(t, k)] = b.data[Slot(t, k)]
  <2> TAKE k \in 0 .. n - 1
  <2>1. k \in 0 .. RingSize - 1 /\ Slot(t, k) \in Slots
    BY <1>2, SlotFacts
  <2>2. ASSUME NEW j \in 1 .. m PROVE Slot(h, j - 1) # Slot(t, k)
    <3>1. PICK l : l = n + (j - 1)
      OBVIOUS
    <3>2. l \in 0 .. RingSize - 1 /\ l # k /\ Slot(h, j - 1) = Slot(t, l)
      <4>1. l \in n .. RingSize - 1 /\ Slot(h, j - 1) = Slot(t, l)
        BY <1>6, <3>1
      <4> QED BY <1>2, <4>1
    <3> QED BY <1>2, <2>1, <3>2, SlotFacts
  <2> QED BY <1>1, <1>4, <2>1, <2>2 DEF Copied
<1>8. PICK r : r = [data |-> data, head |-> (b.head + Len(s)) % Wrap, tail |-> b.tail]
  OBVIOUS
<1>9. r \in Rings(S) /\ RingLen(r) = n + m /\ r.tail = t /\ r.data = data
  <2>1. PICK g : g = (h + m) % Wrap
    OBVIOUS
  <2>2. /\ g \in 0 .. 2 * RingSize - 1
        /\ g = IF h + m < 2 * RingSize THEN h + m ELSE h + m - 2 * RingSize
    BY <1>2, <2>1, Moved
  <2>3. r.head = g /\ r.tail = t /\ r.data = data
    BY <1>1, <1>8, <2>1
  <2>4. RingLen(r) = n + m
    <3>1. PICK d, w : d = g - t /\ w = 2 * RingSize
      OBVIOUS
    <3>2. d % w = IF d >= 0 THEN d ELSE d + w
      <4>1. w \in Nat \ {0} /\ d \in (1 - w) .. (w - 1)
        BY <1>2, <2>2, <3>1
      <4> QED BY <4>1, ModBelow
    <3>3. RingLen(r) = d % w
      BY <2>3, <3>1 DEF RingLen, Wrap
    <3> QED BY <1>2, <1>3, <2>2, <3>1, <3>2, <3>3
  <2>5. r \in [data : [Slots -> S], head : 0 .. Wrap - 1, tail : 0 .. Wrap - 1]
    BY <1>1, <1>2, <1>8, <2>1, <2>2 DEF Wrap
  <2> QED BY <1>2, <2>3, <2>4, <2>5 DEF Rings
<1>10. PICK c, d, p : c = Contents(b) /\ d = Contents(r) /\ p = n + m
  OBVIOUS
<1>11. c \in Seq(S) /\ Len(c) = n /\ \A k \in 1 .. n : c[k] = b.data[Slot(t, k - 1)]
  BY <1>1, <1>2, <1>10, CopyFacts DEF Contents
<1>12. /\ d \in Seq(S) /\ Len(d) = p
       /\ \A k \in 1 .. p : d[k] = data[Slot(t, k - 1)]
  <2>1. p \in 0 .. RingSize
    BY <1>2, <1>10
  <2>2. d = RingCopy(r, p)
    BY <1>9, <1>10 DEF Contents
  <2>3. /\ d \in Seq(S) /\ Len(d) = p
        /\ \A k \in 1 .. p : d[k] = r.data[Slot(r.tail, k - 1)]
    BY <1>9, <2>1, <2>2, CopyFacts
  <2> QED BY <1>9, <2>3
<1>13. ASSUME NEW k \in 1 .. n PROVE d[k] = c[k]
  <2>1. k \in 1 .. p /\ k - 1 \in 0 .. n - 1
    BY <1>2, <1>10
  <2> QED BY <1>7, <1>11, <1>12, <2>1
<1>14. ASSUME NEW k \in 1 .. m PROVE d[n + k] = s[k]
  <2>1. n + k \in 1 .. p /\ n + k - 1 = n + (k - 1)
    BY <1>2, <1>10
  <2>2. d[n + k] = data[Slot(h, k - 1)]
    <3>1. PICK i : i = n + k
      OBVIOUS
    <3>2. d[i] = data[Slot(t, i - 1)]
      BY <1>12, <2>1, <3>1
    <3>3. Slot(h, k - 1) = Slot(t, i - 1)
      <4>1. i - 1 = n + (k - 1)
        BY <1>2, <3>1
      <4>2. Slot(h, k - 1) = Slot(t, n + (k - 1))
        BY <1>6
      <4> QED BY <4>1, <4>2
    <3> QED BY <3>1, <3>2, <3>3
  <2> QED BY <1>1, <1>4, <2>2 DEF Copied
<1>15. PICK u : u = c \o s
  OBVIOUS
<1>16. /\ u \in Seq(S) /\ Len(u) = p
       /\ \A k \in 1 .. n : u[k] = c[k]
       /\ \A k \in 1 .. m : u[n + k] = s[k]
  <2>1. c \in Seq(S) /\ Len(c) = n
    BY <1>11
  <2>2. /\ u \in Seq(S) /\ Len(u) = Len(c) + Len(s)
        /\ \A k \in 1 .. Len(c) : u[k] = c[k]
        /\ \A k \in 1 .. Len(s) : u[Len(c) + k] = s[k]
    BY <1>15, <2>1, Joined
  <2> QED BY <1>1, <1>10, <2>1, <2>2, Zenon
<1>17. \A k \in 1 .. p : d[k] = u[k]
  <2> TAKE k \in 1 .. p
  <2>1. CASE k <= n
    BY <1>2, <1>13, <1>16, <2>1
  <2>2. CASE ~ k <= n
    <3>1. k - n \in 1 .. m /\ k = n + (k - n)
      BY <1>2, <1>10, <2>2
    <3> QED BY <1>14, <1>16, <3>1
  <2> QED BY <2>1, <2>2
<1>18. d = u
  <2>1. d = [k \in 1 .. p |-> d[k]] /\ u = [k \in 1 .. p |-> u[k]]
    BY <1>12, <1>16, SeqIs
  <2> QED BY <1>17, <2>1
<1> QED BY <1>8, <1>9, <1>10, <1>15, <1>18

(* ring_buffer_put() of as much as there is room for, wherever the         *)
(* counters stand: the buffer then holds what it held and, after it, what  *)
(* was put.                                                                *)
THEOREM PutAppends ==
    ASSUME NEW S, NEW b \in Rings(S), NEW s \in Seq(S),
           RingLen(b) + Len(s) <= RingSize
    PROVE  RingPut(b, s) \in Rings(S) /\ Contents(RingPut(b, s)) = Contents(b) \o s
<1> USE RingAssumption
<1>1. PICK m, n, h : m = Mask(b.head) /\ n = Len(s) /\ h = b.head
  OBVIOUS
<1>2. n \in 0 .. RingSize /\ m \in 0 .. RingSize - 1 /\ h \in 0 .. 2 * RingSize - 1
  <2>1. h \in 0 .. 2 * RingSize - 1 /\ RingLen(b) \in 0 .. RingSize
    BY <1>1, RingParts
  <2>2. m \in 0 .. RingSize - 1
    BY <1>1, <2>1, SlotFacts DEF Slots
  <2> QED BY <1>1, <2>1, <2>2
<1>3. PICK slots : slots = IF m + n <= RingSize THEN Block(m, n)
                           ELSE Block(m, RingSize - m) \o Block(0, n - (RingSize - m))
  OBVIOUS
<1>4. slots = IF n <= RingSize - m THEN Block(m, n)
              ELSE Block(m, RingSize - m) \o Block(0, n - (RingSize - m))
  BY <1>2, <1>3
<1>5. slots = [k \in 1 .. n |-> Slot(h, k - 1)]
  BY <1>1, <1>2, <1>4, TwoBlocks
<1>6. PICK data : data = [i \in DOMAIN b.data |->
                            IF \E j \in DOMAIN s : slots[j] = i
                            THEN s[CHOOSE j \in DOMAIN s : slots[j] = i] ELSE b.data[i]]
  OBVIOUS
<1>7. data \in [Slots -> S] /\ Copied(b, s, data)
  <2>1. \A j \in DOMAIN s : slots[j] = Slot(b.head, j - 1)
    BY <1>1, <1>5
  <2>2. Len(s) <= RingSize
    BY <1>1, <1>2
  <2> QED BY <1>6, <2>1, <2>2, CopiedFacts
<1>8. RingPut(b, s) = [data |-> data, head |-> (b.head + Len(s)) % Wrap, tail |-> b.tail]
  BY <1>1, <1>3, <1>6 DEF RingPut
<1> QED BY SMTT(40), <1>7, <1>8, Appended

(* The blocks of ring_buffer_put_iov() are the free slots, in the order in *)
(* which they are filled, unless the buffer is full: the blocks of a full  *)
(* buffer are those of an empty one, which wl_connection_read() rules out. *)
LEMMA FreeIs ==
    ASSUME NEW S, NEW b \in Rings(S), RingLen(b) < RingSize
    PROVE  FreeSlots(b) = [k \in 1 .. RingSize - RingLen(b) |-> Slot(b.head, k - 1)]
<1> USE RingAssumption
<1>1. PICK h, t, n, x, y, f :
        /\ h = b.head /\ t = b.tail /\ n = RingLen(b)
        /\ x = Mask(h) /\ y = Mask(t) /\ f = RingSize - n
  OBVIOUS
<1>2. /\ h \in 0 .. 2 * RingSize - 1 /\ t \in 0 .. 2 * RingSize - 1
      /\ n \in 0 .. RingSize - 1 /\ f \in 1 .. RingSize
  BY <1>1, RingParts
<1>3. n = IF t <= h THEN h - t ELSE h - t + 2 * RingSize
  BY <1>1, RingParts
<1>4. /\ x = IF h < RingSize THEN h ELSE h - RingSize
      /\ y = IF t < RingSize THEN t ELSE t - RingSize
  BY <1>1, <1>2, MaskIs
<1>5. IF x < y THEN f = y - x ELSE f = RingSize - x + y
  BY <1>1, <1>2, <1>3, <1>4
<1>6. x \in 0 .. RingSize - 1 /\ y \in 0 .. RingSize - 1
  BY <1>2, <1>4
<1>7. PICK free : free = IF f <= RingSize - x THEN Block(x, f)
                         ELSE Block(x, RingSize - x) \o Block(0, f - (RingSize - x))
  OBVIOUS
<1>8. free = [k \in 1 .. f |-> Slot(h, k - 1)]
  <2>1. f \in 0 .. RingSize
    BY <1>2
  <2> QED BY <1>1, <1>2, <1>7, <2>1, TwoBlocks
<1>9. FreeSlots(b) = free
  <2>1. CASE x < y
    <3>1. f = y - x /\ f <= RingSize - x
      BY <1>5, <1>6, <2>1
    <3> QED BY <1>1, <1>7, <2>1, <3>1 DEF FreeSlots
  <2>2. CASE ~ x < y /\ y > 0
    <3>1. y = f - (RingSize - x) /\ ~ f <= RingSize - x
      BY <1>2, <1>5, <1>6, <2>2
    <3> QED BY <1>1, <1>7, <2>2, <3>1 DEF FreeSlots
  <2>3. CASE ~ x < y /\ y = 0
    <3>1. f = RingSize - x
      BY <1>2, <1>5, <1>6, <2>3
    <3>2. Block(x, f) \in Seq(Nat)
      BY <1>2, <1>6, BlockIs
    <3>3. Block(0, 0) = << >>
      <4>1. Block(0, 0) \in Seq(Nat) /\ Len(Block(0, 0)) = 0
        BY BlockIs
      <4> QED BY <4>1
    <3>4. Block(x, f) \o << >> = Block(x, f)
      BY <3>2
    <3>5. free = Block(x, f)
      BY <1>2, <1>6, <1>7, <3>1
    <3>6. FreeSlots(b) = Block(x, RingSize - x) \o Block(0, 0)
      BY <1>1, <2>3 DEF FreeSlots
    <3> QED BY <3>1, <3>3, <3>4, <3>5, <3>6
  <2> QED BY <1>6, <2>1, <2>2, <2>3
<1> QED BY <1>1, <1>8, <1>9

(* wl_connection_read() into the free blocks of a buffer that is not full: *)
(* as much as fits comes after what was there.                             *)
THEOREM FillAppends ==
    ASSUME NEW S, NEW b \in Rings(S), NEW s \in Seq(S),
           RingLen(b) < RingSize, Len(s) <= Len(FreeSlots(b))
    PROVE  RingFill(b, s) \in Rings(S) /\ Contents(RingFill(b, s)) = Contents(b) \o s
<1> USE RingAssumption
<1>1. PICK free, f : free = FreeSlots(b) /\ f = RingSize - RingLen(b)
  OBVIOUS
<1>2. f \in 1 .. RingSize /\ RingLen(b) \in 0 .. RingSize
  BY <1>1, RingParts
<1>3. free = [k \in 1 .. f |-> Slot(b.head, k - 1)]
  BY <1>1, FreeIs
<1>4. Len(free) = f
  BY <1>2, <1>3
<1>5. Len(s) <= f /\ RingLen(b) + Len(s) <= RingSize
  BY <1>1, <1>2, <1>4
<1>6. PICK data : data = [i \in DOMAIN b.data |->
                            IF \E j \in DOMAIN s : free[j] = i
                            THEN s[CHOOSE j \in DOMAIN s : free[j] = i] ELSE b.data[i]]
  OBVIOUS
<1>7. data \in [Slots -> S] /\ Copied(b, s, data)
  <2>1. \A j \in DOMAIN s : free[j] = Slot(b.head, j - 1)
    <3>1. \A j \in DOMAIN s : j \in 1 .. f
      BY <1>2, <1>5
    <3> QED BY <1>3, <3>1
  <2>2. Len(s) <= RingSize
    BY <1>2, <1>5
  <2> QED BY <1>6, <2>1, <2>2, CopiedFacts
<1>8. RingFill(b, s) = [data |-> data, head |-> (b.head + Len(s)) % Wrap, tail |-> b.tail]
  BY <1>1, <1>6 DEF RingFill
<1> QED BY SMTT(40), <1>5, <1>7, <1>8, Appended

(* ring_buffer_get_iov(): the blocks of a buffer that is not empty are its *)
(* used slots, oldest first.                                               *)
LEMMA UsedIs ==
    ASSUME NEW S, NEW b \in Rings(S), RingLen(b) > 0
    PROVE  UsedSlots(b) = [k \in 1 .. RingLen(b) |-> Slot(b.tail, k - 1)]
<1> USE RingAssumption
<1>1. PICK h, t, n, x, y :
        h = b.head /\ t = b.tail /\ n = RingLen(b) /\ x = Mask(h) /\ y = Mask(t)
  OBVIOUS
<1>2. /\ h \in 0 .. 2 * RingSize - 1 /\ t \in 0 .. 2 * RingSize - 1
      /\ n \in 1 .. RingSize
  BY <1>1, RingParts
<1>3. n = IF t <= h THEN h - t ELSE h - t + 2 * RingSize
  BY <1>1, RingParts
<1>4. /\ x = IF h < RingSize THEN h ELSE h - RingSize
      /\ y = IF t < RingSize THEN t ELSE t - RingSize
  BY <1>1, <1>2, MaskIs
<1>5. IF y < x THEN n = x - y ELSE n = RingSize - y + x
  BY <1>2, <1>3, <1>4
<1>6. x \in 0 .. RingSize - 1 /\ y \in 0 .. RingSize - 1
  BY <1>2, <1>4
<1>7. PICK used : used = IF n <= RingSize - y THEN Block(y, n)
                         ELSE Block(y, RingSize - y) \o Block(0, n - (RingSize - y))
  OBVIOUS
<1>8. used = [k \in 1 .. n |-> Slot(t, k - 1)]
  <2>1. n \in 0 .. RingSize
    BY <1>2
  <2> QED BY <1>1, <1>2, <1>7, <2>1, TwoBlocks
<1>9. UsedSlots(b) = used
  <2>1. CASE y < x
    <3>1. n = x - y /\ n <= RingSize - y
      BY <1>5, <1>6, <2>1
    <3> QED BY <1>1, <1>7, <2>1, <3>1 DEF UsedSlots
  <2>2. CASE ~ y < x /\ x > 0
    <3>1. x = n - (RingSize - y) /\ ~ n <= RingSize - y
      BY <1>2, <1>5, <1>6, <2>2
    <3> QED BY <1>1, <1>7, <2>2, <3>1 DEF UsedSlots
  <2>3. CASE ~ y < x /\ x = 0
    <3>1. n = RingSize - y
      BY <1>2, <1>5, <1>6, <2>3
    <3>2. Block(y, n) \in Seq(Nat)
      BY <1>2, <1>6, BlockIs
    <3>3. Block(0, 0) = << >>
      <4>1. Block(0, 0) \in Seq(Nat) /\ Len(Block(0, 0)) = 0
        BY BlockIs
      <4> QED BY <4>1
    <3>4. Block(y, n) \o << >> = Block(y, n)
      BY <3>2
    <3>5. used = Block(y, n)
      BY <1>2, <1>6, <1>7, <3>1
    <3>6. UsedSlots(b) = Block(y, RingSize - y) \o Block(0, 0)
      BY <1>1, <2>3 DEF UsedSlots
    <3> QED BY <3>1, <3>3, <3>4, <3>5, <3>6
  <2> QED BY <1>6, <2>1, <2>2, <2>3
<1> QED BY <1>1, <1>8, <1>9

(* wl_connection_flush() hands sendmsg() the oldest elements, in order:    *)
(* the first `k` slots of the blocks hold what ring_buffer_copy() returns. *)
THEOREM UsedIsOldest ==
    ASSUME NEW S, NEW b \in Rings(S), RingLen(b) > 0, NEW k \in 0 .. RingLen(b)
    PROVE  [i \in 1 .. k |-> b.data[UsedSlots(b)[i]]] = RingCopy(b, k)
<1>1. RingLen(b) \in 0 .. RingSize
  BY RingParts
<1>2. k \in 0 .. RingSize /\ \A i \in 1 .. k : i \in 1 .. RingLen(b)
  BY <1>1, RingAssumption
<1>3. \A i \in 1 .. k : UsedSlots(b)[i] = Slot(b.tail, i - 1)
  BY <1>2, UsedIs
<1>4. RingCopy(b, k) = [i \in 1 .. k |-> b.data[Slot(b.tail, i - 1)]]
  BY <1>2, CopyIs
<1> QED BY <1>3, <1>4

(* The tail moves on by at most what the buffer holds, as in               *)
(* wl_connection_consume(), close_fds() and after sendmsg(): what is       *)
(* copied before, and what is left, are what the buffer held.              *)
THEOREM DropTakesOldest ==
    ASSUME NEW S, NEW b \in Rings(S), Stale \in S, NEW k \in 0 .. RingLen(b)
    PROVE  /\ RingDrop(b, k) \in Rings(S)
           /\ Contents(b) = RingCopy(b, k) \o Contents(RingDrop(b, k))
<1> USE RingAssumption
<1>1. PICK h, t, n, r, g : /\ h = b.head /\ t = b.tail /\ n = RingLen(b)
                           /\ r = RingDrop(b, k) /\ g = (t + k) % Wrap
  OBVIOUS
<1>2. /\ h \in 0 .. 2 * RingSize - 1 /\ t \in 0 .. 2 * RingSize - 1
      /\ n \in 0 .. RingSize /\ k \in 0 .. n /\ b.data \in [Slots -> S]
  BY <1>1, RingParts
<1>3. n = IF t <= h THEN h - t ELSE h - t + 2 * RingSize
  BY <1>1, RingParts
<1>4. k \in 0 .. RingSize /\ n - k \in 0 .. RingSize
  BY <1>2
<1>5. /\ g \in 0 .. 2 * RingSize - 1
      /\ g = IF t + k < 2 * RingSize THEN t + k ELSE t + k - 2 * RingSize
  BY <1>1, <1>2, <1>4, Moved
<1>6. PICK gone : gone = {Mask(b.tail + i) : i \in 0 .. k - 1}
  OBVIOUS
<1>7. /\ r = [data |-> [i \in DOMAIN b.data |-> IF i \in gone THEN Stale ELSE b.data[i]],
              head |-> h, tail |-> g]
  BY <1>1, <1>6 DEF RingDrop
<1>8. r.data \in [Slots -> S] /\ r.head = h /\ r.tail = g
  BY <1>2, <1>7
<1>9. RingLen(r) = n - k
  <2>1. PICK d, w : d = h - g /\ w = 2 * RingSize
    OBVIOUS
  <2>2. d % w = IF d >= 0 THEN d ELSE d + w
    <3>1. w \in Nat \ {0} /\ d \in (1 - w) .. (w - 1)
      BY <1>2, <1>5, <2>1
    <3> QED BY <3>1, ModBelow
  <2>3. RingLen(r) = d % w
    BY <1>8, <2>1 DEF RingLen, Wrap
  <2> QED BY <1>2, <1>3, <1>5, <2>1, <2>2, <2>3
<1>10. r \in Rings(S)
  <2>1. r \in [data : [Slots -> S], head : 0 .. Wrap - 1, tail : 0 .. Wrap - 1]
    BY <1>2, <1>5, <1>7, <1>8 DEF Wrap
  <2> QED BY <1>4, <1>9, <2>1 DEF Rings
<1>11. ASSUME NEW l \in 0 .. n - k - 1
       PROVE  r.data[Slot(g, l)] = b.data[Slot(t, k + l)]
  <2>1. l \in 0 .. RingSize - 1 /\ k + l \in 0 .. RingSize - 1 /\ k + l <= RingSize - 1
    BY <1>2
  <2>2. Slot(g, l) = Slot(t, k + l) /\ Slot(t, k + l) \in Slots
    BY <1>1, <1>2, <1>4, <2>1, SlotMoved, SlotFacts
  <2>3. ASSUME NEW i \in 0 .. k - 1 PROVE Mask(t + i) # Slot(t, k + l)
    <3>1. i \in 0 .. RingSize - 1 /\ i # k + l
      BY <1>2
    <3>2. Mask(t + i) = Slot(t, i)
      BY <1>2, <3>1, MaskMoved
    <3> QED BY <1>2, <2>1, <3>1, <3>2, SlotFacts
  <2>4. Slot(t, k + l) \notin gone
    BY <1>1, <1>6, <2>3
  <2> QED BY <1>2, <1>7, <2>2, <2>4
<1>12. PICK c, d, e, p : c = Contents(b) /\ d = RingCopy(b, k) /\ e = Contents(r) /\ p = n - k
  OBVIOUS
<1>13. c \in Seq(S) /\ Len(c) = n /\ \A i \in 1 .. n : c[i] = b.data[Slot(t, i - 1)]
  BY <1>1, <1>2, <1>12, CopyFacts DEF Contents
<1>14. d \in Seq(S) /\ Len(d) = k /\ \A i \in 1 .. k : d[i] = b.data[Slot(t, i - 1)]
  BY <1>1, <1>4, <1>12, CopyFacts
<1>15. e \in Seq(S) /\ Len(e) = p /\ \A i \in 1 .. p : e[i] = r.data[Slot(g, i - 1)]
  <2>1. e = RingCopy(r, p) /\ p \in 0 .. RingSize
    BY <1>4, <1>9, <1>12 DEF Contents
  <2>2. e \in Seq(S) /\ Len(e) = p /\ \A i \in 1 .. p : e[i] = r.data[Slot(r.tail, i - 1)]
    BY <1>10, <2>1, CopyFacts
  <2> QED BY <1>8, <2>2
<1>16. PICK u : u = d \o e
  OBVIOUS
<1>17. /\ u \in Seq(S) /\ Len(u) = n
       /\ \A i \in 1 .. k : u[i] = d[i]
       /\ \A i \in 1 .. p : u[k + i] = e[i]
  <2>1. d \in Seq(S) /\ Len(d) = k /\ e \in Seq(S) /\ Len(e) = p
    BY <1>14, <1>15
  <2>2. /\ u \in Seq(S) /\ Len(u) = Len(d) + Len(e)
        /\ \A i \in 1 .. Len(d) : u[i] = d[i]
        /\ \A i \in 1 .. Len(e) : u[Len(d) + i] = e[i]
    <3>1. d \in Seq(S) /\ e \in Seq(S)
      BY <2>1
    <3> QED BY <1>16, <3>1, Joined
  <2>3. k + p = n
    BY <1>2, <1>12
  <2> QED BY <2>1, <2>2, <2>3, Zenon
<1>18. \A i \in 1 .. n : c[i] = u[i]
  <2> TAKE i \in 1 .. n
  <2>1. CASE i <= k
    <3>1. i \in 1 .. k
      BY <1>2, <2>1
    <3> QED BY <1>13, <1>14, <1>17, <3>1
  <2>2. CASE ~ i <= k
    <3>1. PICK l : l = i - k
      OBVIOUS
    <3>2. l \in 1 .. p /\ i = k + l /\ l - 1 \in 0 .. n - k - 1 /\ k + (l - 1) = i - 1
      BY <1>2, <1>12, <2>2, <3>1
    <3>3. u[i] = r.data[Slot(g, l - 1)]
      BY <1>15, <1>17, <3>2
    <3>4. r.data[Slot(g, l - 1)] = b.data[Slot(t, k + (l - 1))]
      BY <1>11, <3>2
    <3> QED BY <1>13, <3>2, <3>3, <3>4
  <2> QED BY <2>1, <2>2
<1>19. c = u
  <2>1. c = [i \in 1 .. n |-> c[i]] /\ u = [i \in 1 .. n |-> u[i]]
    BY <1>13, <1>17, SeqIs
  <2> QED BY <1>18, <2>1
<1> QED BY <1>1, <1>10, <1>12, <1>16, <1>19
=============================================================================
