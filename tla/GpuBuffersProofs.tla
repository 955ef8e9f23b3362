-------------------------- MODULE GpuBuffersProofs --------------------------
(***************************************************************************)
(* Proofs about GpuBuffers: who owns the descriptors of a client's dmabufs *)
(* and that a buffer that was created stays inside of its dmabufs.         *)
(***************************************************************************)
EXTENDS GpuBuffers, FiniteSetTheorems, WellFoundedInduction, TLAPS

Numbers == 1 .. MaxFds
SlotFds == [Indexes -> Numbers \cup {NoFd}]
SlotPlanes == [Indexes -> Planes \cup {<<>>}]
Attributes == [state : {"none", "live", "inert"}, fd : SlotFds, plane : SlotPlanes, n : 0 .. MaxPlanes]
BufferRecords ==
    [kind : {"dmabuf", "drm"}, n : 0 .. MaxPlanes, fd : SlotFds, plane : SlotPlanes, height : Int,
     named : BOOLEAN]

(* The number of slots in use.                                             *)
Used(fd, i) == IF fd[i] # NoFd THEN 1 ELSE 0
Filled(fd) == Used(fd, 0) + Used(fd, 1) + Used(fd, 2) + Used(fd, 3)

(* No descriptor is in two slots.                                          *)
Different(a) == \A i, j \in Indexes : a.fd[i] # NoFd /\ a.fd[i] = a.fd[j] => i = j

(* The planes of params are counted, differ and have one modifier.         *)
Collected(a) ==
    /\ a.n = Filled(a.fd)
    /\ Different(a)
    /\ \A i \in Indexes : a.fd[i] # NoFd => a.plane[i] \in Planes
    /\ \A i, j \in Indexes : a.fd[i] # NoFd /\ a.fd[j] # NoFd
                                => a.plane[i].modifier = a.plane[j].modifier

ParamsInv == \A p \in Params : Collected(params[p])

HolderTypes ==
    /\ params \in [Params -> Attributes]
    /\ buffers \subseteq BufferRecords
    /\ fds \subseteq Numbers
    /\ leaked \subseteq fds

(* Nothing is held twice or leaked while it is held, and what is held is   *)
(* open.                                                                   *)
HeldOnce ==
    /\ \A p, q \in Params : p # q => HeldBy(params[p]) \cap HeldBy(params[q]) = {}
    /\ \A p \in Params, b \in buffers : HeldBy(params[p]) \cap HeldBy(b) = {}
    /\ \A b, c \in buffers : b # c => HeldBy(b) \cap HeldBy(c) = {}
    /\ \A p \in Params : HeldBy(params[p]) \subseteq fds
    /\ \A b \in buffers : HeldBy(b) \subseteq fds
    /\ \A p \in Params : HeldBy(params[p]) \cap leaked = {}
    /\ \A b \in buffers : HeldBy(b) \cap leaked = {}

(* What is open is held or leaked.                                         *)
Owned(fd) ==
    \/ \E p \in Params : fd \in HeldBy(params[p])
    \/ \E b \in buffers : fd \in HeldBy(b)
OpenHeld == \A fd \in fds : Owned(fd) \/ fd \in leaked

(* The fields of struct westfield_egl.                                     *)
IsEgl(e) ==
    e = [ok |-> e.ok, fds |-> e.fds, display |-> e.display, texture |-> e.texture,
         render |-> e.render, hasModifiers |-> e.hasModifiers, exts |-> e.exts]

(* What initDrm() opened is open as long as its owner lives, or lost.      *)
DevicesInv ==
    /\ IsEgl(egl)
    /\ egl.ok \in BOOLEAN /\ dmabuf.live \in BOOLEAN
    /\ egl.ok => "drm" \in egl.fds /\ egl.fds \subseteq {"drm", "gbm"}
    /\ devices = OwnedDevices \cup lost
    /\ OwnedDevices \cap lost = {}
    /\ lost \subseteq {"main", "gbm"}

(* No created buffer has a gap or reaches beyond its dmabufs.              *)
BuffersInside ==
    \A b \in buffers :
        /\ \A i \in Indexes : b.fd[i] # NoFd <=> i < b.n
        /\ b.kind = "dmabuf" => InsideDmabuf(b)

HoldersInv ==
    /\ HolderTypes
    /\ ParamsInv
    /\ HeldOnce
    /\ OpenHeld
    /\ BuffersInside

GpuInv == HoldersInv /\ DevicesInv

-----------------------------------------------------------------------------
(* The kernel finds a number while fewer than MaxFds are open.             *)
LEMMA NewFdIsFree ==
  ASSUME fds \subseteq Numbers, fds # 1 .. MaxFds
  PROVE  NewFd \in Numbers /\ NewFd \notin fds
<1> DEFINE free == Numbers \ fds
<1>1. free \subseteq Nat /\ free # {}
  <2>1. \E y \in Numbers : y \notin fds
    BY Zenon DEF Numbers
  <2>2. Numbers \subseteq Nat
    BY GpuBuffersAssumption DEF Numbers
  <2> QED BY <2>1, <2>2
<1> HIDE DEF free
<1>2. \E x \in free : \A y \in free : ~(<<y, x>> \in OpToRel(<, Nat))
  BY <1>1, NatLessThanWellFounded, WFMin
<1>3. PICK x \in free : \A y \in free : ~(<<y, x>> \in OpToRel(<, Nat))
  BY <1>2
<1>4. \A y \in free : ~(y < x)
  BY <1>1, <1>3 DEF OpToRel
<1> USE DEF free
<1>5. x \in 1 .. MaxFds /\ x \notin fds /\ \A low \in 1 .. x - 1 : low \in fds
  <2> SUFFICES ASSUME NEW low \in 1 .. x - 1
               PROVE  low \in fds
    BY DEF Numbers
  <2>1. low \in Numbers /\ low < x
    BY GpuBuffersAssumption DEF Numbers
  <2>2. ~(low \in free)
    BY <1>4, <2>1
  <2> QED BY <2>1, <2>2
<1> QED BY <1>5 DEF NewFd, Numbers

LEMMA HeldMeans ==
  ASSUME NEW a, NEW x
  PROVE  x \in HeldBy(a) <=> x # NoFd /\ \E i \in Indexes : a.fd[i] = x
BY DEF HeldBy

LEMMA SlotNumbers == Indexes = {0, 1, 2, 3} /\ NoFd \notin Numbers
BY GpuBuffersAssumption DEF Indexes, MaxPlanes, NoFd, Numbers

(* A params object that is new or inert holds nothing.                     *)
LEMMA NothingHeld ==
  ASSUME NEW new \in {NoParams, [NoParams EXCEPT !.state = "inert"]}
  PROVE  new \in Attributes /\ Collected(new) /\ HeldBy(new) = {}
<1>1. new.n = 0
  BY DEF NoParams
<1>2. new.fd = [i \in Indexes |-> NoFd]
  <2>1. CASE new = NoParams
    BY <2>1 DEF NoParams, Indexes
  <2>2. CASE new = [NoParams EXCEPT !.state = "inert"]
    BY <2>2 DEF NoParams, Indexes
  <2> QED BY <2>1, <2>2
<1>3. new \in Attributes
  BY DEF NoParams, Attributes, SlotFds, SlotPlanes, Indexes, MaxPlanes
<1>4. \A i \in Indexes : new.fd[i] = NoFd
  BY <1>2
<1>5. Filled(new.fd) = 0
  BY <1>4, SlotNumbers DEF Filled, Used
<1>6. Collected(new)
  BY <1>1, <1>4, <1>5 DEF Collected, Different
<1> QED BY <1>3, <1>4, <1>6 DEF HeldBy

(* What dmabuf_attributes_finish() closes: all that is held, but for what  *)
(* is above a gap, and nothing else.                                       *)
LEMMA FinishedMeans ==
  ASSUME NEW a, a.n \in 0 .. MaxPlanes, a.fd \in SlotFds, Different(a)
  PROVE  /\ Finished({a}) \cap Numbers \subseteq HeldBy(a)
         /\ AboveGap({a}) = HeldBy(a) \ Finished({a})
<1>1. Finished({a}) = {a.fd[i] : i \in 0 .. a.n - 1}
  BY DEF Finished
<1>2. AboveGap({a}) = {a.fd[i] : i \in {j \in Indexes : j >= a.n}} \ {NoFd}
  BY DEF AboveGap
<1>3. 0 .. a.n - 1 \subseteq Indexes /\ \A i \in Indexes : i >= a.n \/ i \in 0 .. a.n - 1
  BY DEF Indexes, MaxPlanes
<1>4. Finished({a}) \cap Numbers \subseteq HeldBy(a)
  BY <1>1, <1>3, SlotNumbers DEF HeldBy
<1>5. ASSUME NEW x \in HeldBy(a), x \notin Finished({a})
      PROVE  x \in AboveGap({a})
  <2>1. PICK i \in Indexes : a.fd[i] = x /\ x # NoFd
    BY <1>5 DEF HeldBy
  <2>2. i >= a.n
    BY <1>1, <1>3, <1>5, <2>1
  <2> QED BY <1>2, <2>1, <2>2
<1>6. ASSUME NEW x \in AboveGap({a})
      PROVE  x \in HeldBy(a) /\ x \notin Finished({a})
  <2>1. PICK i \in Indexes : i >= a.n /\ a.fd[i] = x /\ x # NoFd
    BY <1>2, <1>6
  <2>2. \A j \in 0 .. a.n - 1 : j # i /\ j \in Indexes
    BY <1>3, <2>1
  <2>3. \A j \in 0 .. a.n - 1 : a.fd[j] # x
    BY <2>1, <2>2 DEF Different
  <2> QED BY <1>1, <2>1, <2>3 DEF HeldBy
<1> QED BY <1>4, <1>5, <1>6

(* Several are finished one by one.                                        *)
LEMMA FinishedEach ==
  ASSUME NEW all, NEW x
  PROVE  /\ x \in Finished(all) <=> \E a \in all : x \in Finished({a})
         /\ x \in AboveGap(all) <=> \E a \in all : x \in AboveGap({a})
BY DEF Finished, AboveGap

(* A buffer has no gap: all that it holds is closed with it.               *)
LEMMA BufferFinished ==
  ASSUME HolderTypes, BuffersInside, NEW b \in buffers
  PROVE  Finished({b}) \cap Numbers = HeldBy(b) /\ AboveGap({b}) = {}
<1>1. b \in BufferRecords
  BY DEF HolderTypes
<1>2. b.n \in 0 .. MaxPlanes /\ b.fd \in SlotFds
  BY <1>1 DEF BufferRecords
<1>3. \A i \in Indexes : i >= b.n => b.fd[i] = NoFd
  BY <1>2 DEF BuffersInside, Indexes, MaxPlanes
<1>4. AboveGap({b}) = {}
  BY <1>3 DEF AboveGap
<1>5. Finished({b}) = {b.fd[i] : i \in 0 .. b.n - 1}
  BY DEF Finished
<1>6. 0 .. b.n - 1 \subseteq Indexes /\ \A i \in Indexes : i >= b.n \/ i \in 0 .. b.n - 1
  BY <1>2 DEF Indexes, MaxPlanes
<1>7. HeldBy(b) \subseteq Numbers
  BY <1>2 DEF HeldBy, SlotFds
<1>8. Finished({b}) \cap Numbers \subseteq HeldBy(b)
  BY <1>5, <1>6, SlotNumbers DEF HeldBy
<1>9. HeldBy(b) \subseteq Finished({b})
  BY <1>3, <1>5, <1>6 DEF HeldBy
<1> QED BY <1>4, <1>7, <1>8, <1>9

-----------------------------------------------------------------------------
(* One params object changes.                                              *)
LEMMA ParamsReplaced ==
  ASSUME HolderTypes, ParamsInv, NEW p \in Params,
         NEW new \in Attributes, Collected(new),
         params' = [params EXCEPT ![p] = new]
  PROVE  params' \in [Params -> Attributes] /\ ParamsInv'
<1>1. params' \in [Params -> Attributes] /\ \A q \in Params : params'[q] = IF q = p THEN new ELSE params[q]
  BY DEF HolderTypes
<1>2. \A q \in Params : Collected(params'[q])
  BY <1>1 DEF ParamsInv
<1> QED BY <1>1, <1>2 DEF ParamsInv

(* Planes that are given up: dmabuf_attributes_finish() closes all that    *)
(* the params hold, but for what is above a gap.                           *)
LEMMA GivenUp ==
  ASSUME HoldersInv, NEW p \in Params,
         NEW new \in {NoParams, [NoParams EXCEPT !.state = "inert"]},
         params' = [params EXCEPT ![p] = new],
         fds' = fds \ Finished({params[p]}),
         leaked' = leaked \cup AboveGap({params[p]}),
         UNCHANGED buffers
  PROVE  HoldersInv'
<1>1. HolderTypes /\ ParamsInv /\ HeldOnce /\ OpenHeld /\ BuffersInside
  BY DEF HoldersInv
<1>2. PICK a : a = params[p]
  OBVIOUS
<1>3. a \in Attributes /\ a.n \in 0 .. MaxPlanes /\ a.fd \in SlotFds
  BY <1>1, <1>2 DEF HolderTypes, Attributes
<1>4. new \in Attributes /\ Collected(new) /\ HeldBy(new) = {}
  BY NothingHeld
<1>5. params' \in [Params -> Attributes] /\ ParamsInv'
  BY <1>1, <1>4, ParamsReplaced
<1>6. \A q \in Params : HeldBy(params'[q]) = IF q = p THEN {} ELSE HeldBy(params[q])
  BY <1>1, <1>4 DEF HolderTypes
<1>7. Finished({a}) \cap Numbers \subseteq HeldBy(a) /\ AboveGap({a}) = HeldBy(a) \ Finished({a})
  <2>1. Different(a)
    BY <1>1, <1>2 DEF ParamsInv, Collected
  <2> QED BY <1>3, <2>1, FinishedMeans
<1>8. HolderTypes'
  <2>1. leaked \cap HeldBy(a) = {} /\ HeldBy(a) \subseteq fds
    BY <1>1, <1>2 DEF HeldOnce
  <2>2. leaked' \subseteq fds'
    BY <1>1, <1>2, <1>7, <2>1 DEF HolderTypes
  <2> QED BY <1>1, <1>5, <2>2 DEF HolderTypes
<1>9. HeldOnce'
  <2>1. \A q \in Params : q # p => HeldBy(params[q]) \subseteq fds'
    BY <1>1, <1>2, <1>7 DEF HeldOnce, HolderTypes
  <2>2. \A b \in buffers : HeldBy(b) \subseteq fds'
    BY <1>1, <1>2, <1>7 DEF HeldOnce, HolderTypes
  <2>3. \A q, u \in Params : q # u => HeldBy(params'[q]) \cap HeldBy(params'[u]) = {}
    BY <1>1, <1>6 DEF HeldOnce
  <2>4. \A q \in Params, b \in buffers : HeldBy(params'[q]) \cap HeldBy(b) = {}
    BY <1>1, <1>6 DEF HeldOnce
  <2>5. \A q \in Params : HeldBy(params'[q]) \subseteq fds'
    BY <1>6, <2>1
  <2>6. leaked' \subseteq leaked \cup HeldBy(a)
    BY <1>2, <1>7
  <2>7. \A q \in Params : HeldBy(params'[q]) \cap leaked' = {}
    <3>1. \A q \in Params : q # p => HeldBy(params[q]) \cap (leaked \cup HeldBy(a)) = {}
      BY <1>1, <1>2 DEF HeldOnce
    <3>2. \A q \in Params : q # p => HeldBy(params[q]) \cap leaked' = {}
      BY <2>6, <3>1
    <3> QED BY SMTT(40), <1>6, <3>2
  <2>8. \A b \in buffers : HeldBy(b) \cap leaked' = {}
    BY <1>1, <1>2, <2>6 DEF HeldOnce
  <2> QED BY <1>1, <2>2, <2>3, <2>4, <2>5, <2>7, <2>8 DEF HeldOnce
<1>10. OpenHeld'
  <2> SUFFICES ASSUME NEW fd \in fds', fd \notin leaked'
               PROVE  Owned(fd)'
    BY DEF OpenHeld
  <2>1. fd \in fds /\ fd \notin Finished({a}) /\ fd \notin leaked /\ fd \notin AboveGap({a})
    BY <1>2
  <2>2. Owned(fd) /\ fd \notin HeldBy(a)
    BY <1>1, <1>7, <2>1 DEF OpenHeld
  <2>3. CASE \E b \in buffers : fd \in HeldBy(b)
    BY <2>3 DEF Owned
  <2>4. CASE \E q \in Params : fd \in HeldBy(params[q])
    <3>1. PICK q \in Params : fd \in HeldBy(params[q])
      BY <2>4
    <3>2. q # p
      BY <1>2, <2>2, <3>1
    <3>3. fd \in HeldBy(params'[q])
      BY <1>6, <3>1, <3>2
    <3> QED BY <3>3 DEF Owned
  <2> QED BY <2>2, <2>3, <2>4 DEF Owned
<1>11. BuffersInside'
  BY <1>1 DEF BuffersInside
<1> QED BY <1>5, <1>8, <1>9, <1>10, <1>11 DEF HoldersInv

LEMMA SlotSet ==
  ASSUME NEW S, NEW X, NEW f \in [Indexes -> S \cup X], NEW i \in Indexes, NEW x \in S
  PROVE  /\ [f EXCEPT ![i] = x] \in [Indexes -> S \cup X]
         /\ \A j \in Indexes : [f EXCEPT ![i] = x][j] = IF j = i THEN x ELSE f[j]
OBVIOUS

(* A plane is added to params.                                             *)
LEMMA PlaneAdded ==
  ASSUME HoldersInv, NEW p \in Params, NEW i \in Indexes, NEW plane \in Planes,
         NEW fd \in Numbers, fd \notin fds,
         params[p].fd[i] = NoFd,
         params[p].n > 0 => \A j \in Indexes : params[p].fd[j] # NoFd
                                                  => params[p].plane[j].modifier = plane.modifier,
         NEW new, new = [params[p] EXCEPT !.fd[i] = fd, !.plane[i] = plane, !.n = @ + 1],
         params' = [params EXCEPT ![p] = new],
         fds' = fds \cup {fd},
         UNCHANGED <<buffers, leaked>>
  PROVE  HoldersInv'
<1>1. HolderTypes /\ ParamsInv /\ HeldOnce /\ OpenHeld /\ BuffersInside
  BY DEF HoldersInv
<1>2. PICK a : a = params[p]
  OBVIOUS
<1>3. a \in Attributes /\ a.n \in 0 .. MaxPlanes /\ a.fd \in SlotFds /\ a.plane \in SlotPlanes /\ Collected(a)
  BY <1>1, <1>2 DEF HolderTypes, Attributes, ParamsInv
<1>4. /\ new.fd = [a.fd EXCEPT ![i] = fd]
      /\ new.plane = [a.plane EXCEPT ![i] = plane]
      /\ new.n = a.n + 1
      /\ new.state = a.state
  BY <1>2, <1>3 DEF Attributes
<1>5. fd # NoFd /\ a.fd[i] = NoFd
  BY <1>2, SlotNumbers
<1>6. /\ new.fd \in SlotFds /\ \A j \in Indexes : new.fd[j] = IF j = i THEN fd ELSE a.fd[j]
      /\ new.plane \in SlotPlanes /\ \A j \in Indexes : new.plane[j] = IF j = i THEN plane ELSE a.plane[j]
  <2>1. a.fd \in [Indexes -> Numbers \cup {NoFd}] /\ a.plane \in [Indexes -> Planes \cup {<<>>}]
    BY <1>3 DEF SlotFds, SlotPlanes
  <2>2. PICK fdNew, planeNew : fdNew = [a.fd EXCEPT ![i] = fd] /\ planeNew = [a.plane EXCEPT ![i] = plane]
    OBVIOUS
  <2>3. fdNew \in SlotFds /\ \A j \in Indexes : fdNew[j] = IF j = i THEN fd ELSE a.fd[j]
    BY <2>1, <2>2, SlotSet DEF SlotFds
  <2>4. planeNew \in SlotPlanes /\ \A j \in Indexes : planeNew[j] = IF j = i THEN plane ELSE a.plane[j]
    BY <2>1, <2>2, SlotSet DEF SlotPlanes
  <2>5. new.fd = fdNew /\ new.plane = planeNew
    BY <1>4, <2>2
  <2> QED BY <2>3, <2>4, <2>5
<1>7. Collected(new)
  <2>1. a.n = Filled(a.fd) /\ Filled(a.fd) \in 0 .. 4
    BY <1>3 DEF Collected, Filled, Used
  <2>2. Filled(new.fd) = Filled(a.fd) + 1
    <3>1. \A j \in Indexes : Used(new.fd, j) = IF j = i THEN 1 ELSE Used(a.fd, j)
      BY <1>5, <1>6 DEF Used
    <3>2. Used(a.fd, i) = 0 /\ \A j \in Indexes : Used(a.fd, j) \in 0 .. 1
      BY <1>5 DEF Used
    <3> QED BY <3>1, <3>2, SlotNumbers DEF Filled
  <2>3. a.n = 0 => \A j \in Indexes : a.fd[j] = NoFd
    BY <2>1, SlotNumbers DEF Filled, Used
  <2>4. \A j \in Indexes : a.fd[j] # NoFd => a.plane[j].modifier = plane.modifier
    BY <1>2, <1>3, <2>3 DEF MaxPlanes
  <2>5. \A j \in Indexes : new.fd[j] # NoFd => new.plane[j] \in Planes
    BY <1>3, <1>6 DEF Collected
  <2>6. \A j \in Indexes : new.fd[j] # NoFd => new.plane[j].modifier = plane.modifier
    BY <1>6, <2>4
  <2>7. Different(new)
    <3>1. \A j \in Indexes : a.fd[j] # fd
      <4>1. HeldBy(a) \subseteq fds
        BY <1>1, <1>2 DEF HeldOnce
      <4> QED BY <1>5, <4>1 DEF HeldBy
    <3> QED BY <1>3, <1>6, <3>1 DEF Collected, Different
  <2> QED BY <1>4, <2>1, <2>2, <2>5, <2>6, <2>7 DEF Collected
<1>8. new \in Attributes
  <2>1. new.n \in 0 .. MaxPlanes
    <3>1. new.n = Filled(new.fd)
      BY <1>7 DEF Collected
    <3> QED BY <3>1 DEF Filled, Used, MaxPlanes
  <2>2. new.state \in {"none", "live", "inert"}
    BY <1>3, <1>4 DEF Attributes
  <2>3. new = [state |-> new.state, fd |-> new.fd, plane |-> new.plane, n |-> new.n]
    BY <1>2, <1>3 DEF Attributes
  <2> QED BY <1>6, <2>1, <2>2, <2>3 DEF Attributes
<1>9. params' \in [Params -> Attributes] /\ ParamsInv'
  BY <1>1, <1>7, <1>8, ParamsReplaced
<1>10. HeldBy(new) = HeldBy(a) \cup {fd}
  <2>1. \A x : x \in HeldBy(new) => x = fd \/ x \in HeldBy(a)
    BY <1>6 DEF HeldBy
  <2>2. \A x : x \in HeldBy(a) => x \in HeldBy(new)
    BY <1>5, <1>6 DEF HeldBy
  <2>3. fd \in HeldBy(new)
    BY <1>5, <1>6 DEF HeldBy
  <2> QED BY <2>1, <2>2, <2>3
<1>11. \A q \in Params : HeldBy(params'[q]) = IF q = p THEN HeldBy(params[p]) \cup {fd} ELSE HeldBy(params[q])
  BY <1>1, <1>2, <1>10 DEF HolderTypes
<1>12. HolderTypes'
  BY <1>1, <1>9 DEF HolderTypes
<1>13. HeldOnce'
  <2>1. \A q \in Params : fd \notin HeldBy(params[q])
    BY <1>1 DEF HeldOnce
  <2>2. \A b \in buffers : fd \notin HeldBy(b)
    BY <1>1 DEF HeldOnce
  <2>3. \A q, u \in Params : q # u => HeldBy(params'[q]) \cap HeldBy(params'[u]) = {}
    BY <1>1, <1>11, <2>1 DEF HeldOnce
  <2>4. \A q \in Params, b \in buffers : HeldBy(params'[q]) \cap HeldBy(b) = {}
    BY <1>1, <1>11, <2>2 DEF HeldOnce
  <2>5. \A q \in Params : HeldBy(params'[q]) \subseteq fds'
    BY <1>1, <1>11 DEF HeldOnce
  <2>6. \A b \in buffers : HeldBy(b) \subseteq fds'
    BY <1>1 DEF HeldOnce
  <2>7. fd \notin leaked
    BY <1>1 DEF HolderTypes
  <2>8. \A q \in Params : HeldBy(params'[q]) \cap leaked' = {}
    BY <1>1, <1>11, <2>7 DEF HeldOnce
  <2>9. \A b \in buffers : HeldBy(b) \cap leaked' = {}
    BY <1>1 DEF HeldOnce
  <2> QED BY <1>1, <2>3, <2>4, <2>5, <2>6, <2>8, <2>9 DEF HeldOnce
<1>14. OpenHeld'
  <2> SUFFICES ASSUME NEW x \in fds', x \notin leaked'
               PROVE  Owned(x)'
    BY DEF OpenHeld
  <2>1. x = fd \/ Owned(x)
    BY <1>1 DEF OpenHeld
  <2>2. CASE x = fd
    BY <1>11, <2>2 DEF Owned
  <2>3. CASE \E b \in buffers : x \in HeldBy(b)
    BY <2>3 DEF Owned
  <2>4. CASE \E q \in Params : x \in HeldBy(params[q])
    BY <1>11, <2>4 DEF Owned
  <2> QED BY <2>1, <2>2, <2>3, <2>4 DEF Owned
<1>15. BuffersInside'
  BY <1>1 DEF BuffersInside
<1> QED BY <1>9, <1>12, <1>13, <1>14, <1>15 DEF HoldersInv

LEMMA WrapsNot ==
  ASSUME NEW x \in 0 .. MaxUint
  PROVE  Wrap32(x) = x
BY GpuBuffersAssumption DEF Wrap32

(* A plane that passed the checks lies inside of its dmabuf: what fits in  *)
(* 32 bits does not wrap around.                                           *)
LEMMA PlaneInside ==
  ASSUME NEW a, NEW i \in Indexes, NEW height \in Nat,
         a.fd[i] # NoFd, a.plane[i] \in Planes,
         ~OutOfBounds(a, i, height),
         a.plane[i].size # -1
  PROVE  /\ a.plane[i].stride > 0
         /\ a.plane[i].offset + a.plane[i].stride <= a.plane[i].size
         /\ i = 0 => a.plane[i].offset + a.plane[i].stride * height <= a.plane[i].size
<1>1. PICK bytes, offset, stride : bytes = a.plane[i].size /\ offset = a.plane[i].offset /\ stride = a.plane[i].stride
  OBVIOUS
<1>2. bytes \in Nat \cup {-1} /\ offset \in 0 .. MaxUint /\ stride \in 0 .. MaxUint /\ MaxUint \in Nat
  BY <1>1, GpuBuffersAssumption
<1>3. /\ ~(offset + stride > MaxUint)
      /\ ~(offset + stride * height > MaxUint)
      /\ ~(Wrap32(offset + stride) > bytes)
      /\ stride # 0
      /\ i = 0 => ~(Wrap32(offset + Wrap32(stride * height)) > bytes)
  BY <1>1 DEF OutOfBounds, Overflows
<1>4. PICK area : area = stride * height
  OBVIOUS
<1>5. area \in Nat
  BY <1>2, <1>4
<1>6. area \in 0 .. MaxUint /\ offset + area \in 0 .. MaxUint /\ offset + stride \in 0 .. MaxUint
  BY <1>2, <1>3, <1>4, <1>5
<1>7. Wrap32(area) = area /\ Wrap32(offset + area) = offset + area /\ Wrap32(offset + stride) = offset + stride
  BY <1>6, WrapsNot
<1>8. offset + stride <= bytes /\ (i = 0 => offset + area <= bytes) /\ stride > 0
  BY <1>2, <1>3, <1>4, <1>5, <1>7
<1> QED BY <1>1, <1>4, <1>8

(* What params_create_common() turns into a buffer has no gap and lies     *)
(* inside of its dmabufs.                                                  *)
LEMMA CreatedUsable ==
  ASSUME NEW a \in Attributes, Collected(a), NEW shape \in Shapes, NEW ofDevice, NEW memory,
         Verdict(a, shape, ofDevice, memory) = "created",
         NEW immed \in BOOLEAN, NEW b, b = Buffer("dmabuf", a, shape.height, immed)
  PROVE  /\ b \in BufferRecords
         /\ HeldBy(b) = HeldBy(a)
         /\ \A i \in Indexes : b.fd[i] # NoFd <=> i < b.n
         /\ InsideDmabuf(b)
<1>1. b.n = a.n /\ b.fd = a.fd /\ b.plane = a.plane /\ b.height = shape.height
  BY DEF Buffer
<1>2. a.n \in 0 .. MaxPlanes /\ a.fd \in SlotFds /\ a.plane \in SlotPlanes
  BY DEF Attributes
<1>3. /\ ~Incomplete(a)
      /\ ~(shape.width < 1 \/ shape.height < 1)
      /\ ~\E i \in 0 .. a.n - 1 : OutOfBounds(a, i, shape.height)
      /\ CanImport(a, ofDevice)
  BY DEF Verdict
<1>4. shape.height \in Nat
  BY <1>3, GpuBuffersAssumption
<1>5. b \in BufferRecords
  BY <1>2, <1>4 DEF Buffer, BufferRecords
<1>6. HeldBy(b) = HeldBy(a)
  BY <1>1 DEF HeldBy
<1>7. 0 .. a.n - 1 \subseteq Indexes
  BY <1>2 DEF Indexes, MaxPlanes
<1>8. \A i \in 0 .. a.n - 1 : a.fd[i] # NoFd
  BY <1>3 DEF CanImport
<1>9. \A i \in Indexes : a.fd[i] # NoFd => i < a.n
  <2>1. a.n = Filled(a.fd) /\ a.n \in {0, 1, 2, 3, 4}
    BY <1>2 DEF Collected, MaxPlanes
  <2>2. \A i \in {0, 1, 2, 3} : i < a.n => Used(a.fd, i) = 1
    BY <1>8, <2>1 DEF Used
  <2>3. \A i \in {0, 1, 2, 3} : Used(a.fd, i) \in {0, 1}
    BY DEF Used
  <2>4. \A i \in {0, 1, 2, 3} : ~(i < a.n) => Used(a.fd, i) = 0
    BY <2>1, <2>2, <2>3 DEF Filled
  <2> QED BY <2>4, SlotNumbers DEF Used
<1>10. InsideDmabuf(b)
  <2> SUFFICES ASSUME NEW i \in 0 .. a.n - 1
               PROVE  /\ a.plane[i].modifier = a.plane[0].modifier
                      /\ a.plane[i].size # -1 =>
                            /\ a.plane[i].stride > 0
                            /\ a.plane[i].offset + a.plane[i].stride <= a.plane[i].size
                            /\ i = 0 => a.plane[i].offset + a.plane[i].stride * shape.height <= a.plane[i].size
    BY <1>1 DEF InsideDmabuf
  <2>1. i \in Indexes /\ a.fd[i] # NoFd /\ a.plane[i] \in Planes
    BY <1>7, <1>8 DEF Collected
  <2>2. 0 \in Indexes /\ a.fd[0] # NoFd
    BY <1>3, SlotNumbers DEF Incomplete
  <2>3. a.plane[i].modifier = a.plane[0].modifier
    BY <2>1, <2>2 DEF Collected
  <2>4. ~OutOfBounds(a, i, shape.height)
    BY <1>3
  <2> QED BY <1>4, <2>1, <2>3, <2>4, PlaneInside
<1>11. \A i \in Indexes : a.fd[i] # NoFd <=> i < a.n
  BY <1>2, <1>8, <1>9 DEF Indexes, MaxPlanes
<1> QED BY <1>1, <1>5, <1>6, <1>10, <1>11

(* The planes of params become a buffer, in place of others, whose         *)
(* descriptors are leaked.                                                 *)
LEMMA BufferMade ==
  ASSUME HoldersInv, NEW p \in Params, NEW b \in BufferRecords,
         HeldBy(b) = HeldBy(params[p]),
         \A i \in Indexes : b.fd[i] # NoFd <=> i < b.n,
         b.kind = "dmabuf" => InsideDmabuf(b),
         params' = [params EXCEPT ![p] = [NoParams EXCEPT !.state = "inert"]],
         NEW over \in SUBSET buffers,
         buffers' = (buffers \ over) \cup {b},
         leaked' = leaked \cup UNION {HeldBy(c) : c \in over},
         UNCHANGED fds
  PROVE  HoldersInv'
<1>1. HolderTypes /\ ParamsInv /\ HeldOnce /\ OpenHeld /\ BuffersInside
  BY DEF HoldersInv
<1>2. PICK new : new = [NoParams EXCEPT !.state = "inert"]
  OBVIOUS
<1>3. new \in Attributes /\ Collected(new) /\ HeldBy(new) = {} /\ params' = [params EXCEPT ![p] = new]
  BY <1>2, NothingHeld
<1>4. params' \in [Params -> Attributes] /\ ParamsInv'
  BY <1>1, <1>3, ParamsReplaced
<1>5. \A q \in Params : HeldBy(params'[q]) = IF q = p THEN {} ELSE HeldBy(params[q])
  BY <1>1, <1>3 DEF HolderTypes
<1>6. HolderTypes'
  <2>1. leaked' \subseteq fds'
    BY <1>1 DEF HolderTypes, HeldOnce
  <2> QED BY <1>1, <1>4, <2>1 DEF HolderTypes
<1>7. HeldOnce'
  <2>1. \A q, u \in Params : q # u => HeldBy(params'[q]) \cap HeldBy(params'[u]) = {}
    BY <1>1, <1>5 DEF HeldOnce
  <2>2. \A q \in Params, c \in buffers' : HeldBy(params'[q]) \cap HeldBy(c) = {}
    BY <1>1, <1>5 DEF HeldOnce
  <2>3. \A c, d \in buffers' : c # d => HeldBy(c) \cap HeldBy(d) = {}
    BY <1>1 DEF HeldOnce
  <2>4. \A q \in Params : HeldBy(params'[q]) \subseteq fds'
    BY <1>1, <1>5 DEF HeldOnce
  <2>5. \A c \in buffers' : HeldBy(c) \subseteq fds'
    BY <1>1 DEF HeldOnce
  <2>6. \A x \in leaked' : x \in leaked \/ \E c \in over : x \in HeldBy(c)
    OBVIOUS
  <2>7. \A q \in Params : HeldBy(params'[q]) \cap leaked' = {}
    BY <1>1, <1>5, <2>6 DEF HeldOnce
  <2>8. \A c \in buffers' : HeldBy(c) \cap leaked' = {}
    BY <1>1, <2>6 DEF HeldOnce
  <2> QED BY <2>1, <2>2, <2>3, <2>4, <2>5, <2>7, <2>8 DEF HeldOnce
<1>8. OpenHeld'
  <2> SUFFICES ASSUME NEW x \in fds', x \notin leaked'
               PROVE  Owned(x)'
    BY DEF OpenHeld
  <2>1. Owned(x)
    BY <1>1 DEF OpenHeld
  <2>2. CASE \E c \in buffers : x \in HeldBy(c)
    <3>1. PICK c \in buffers : x \in HeldBy(c)
      BY <2>2
    <3>2. c \in buffers'
      BY <3>1
    <3> QED BY <3>1, <3>2 DEF Owned
  <2>3. CASE \E q \in Params : x \in HeldBy(params[q])
    <3>1. PICK q \in Params : x \in HeldBy(params[q])
      BY <2>3
    <3>2. CASE q = p
      BY <3>1, <3>2 DEF Owned
    <3>3. CASE q # p
      <4>1. x \in HeldBy(params'[q])
        BY <1>5, <3>1, <3>3
      <4> QED BY <4>1 DEF Owned
    <3> QED BY <3>2, <3>3
  <2> QED BY <2>1, <2>2, <2>3 DEF Owned
<1>9. BuffersInside'
  BY <1>1 DEF BuffersInside
<1> QED BY <1>4, <1>6, <1>7, <1>8, <1>9 DEF HoldersInv

(* A buffer of wl_drm: its only plane was not open before.                 *)
LEMMA PrimeMade ==
  ASSUME HoldersInv, NEW fd \in Numbers, fd \notin fds,
         NEW b \in BufferRecords, HeldBy(b) = {fd}, b.kind = "drm",
         \A i \in Indexes : b.fd[i] # NoFd <=> i < b.n,
         buffers' = buffers \cup {b},
         fds' = fds \cup {fd},
         UNCHANGED <<params, leaked>>
  PROVE  HoldersInv'
<1>1. HolderTypes /\ ParamsInv /\ HeldOnce /\ OpenHeld /\ BuffersInside
  BY DEF HoldersInv
<1>2. HolderTypes' /\ ParamsInv'
  BY <1>1 DEF HolderTypes, ParamsInv
<1>3. (\A q \in Params : fd \notin HeldBy(params[q])) /\ (\A c \in buffers : fd \notin HeldBy(c))
  BY <1>1 DEF HeldOnce
<1>4. HeldOnce'
  <2>1. \A q \in Params, c \in buffers' : HeldBy(params[q]) \cap HeldBy(c) = {}
    BY <1>1, <1>3 DEF HeldOnce
  <2>2. \A c, d \in buffers' : c # d => HeldBy(c) \cap HeldBy(d) = {}
    BY <1>1, <1>3 DEF HeldOnce
  <2>3. \A q \in Params : HeldBy(params[q]) \subseteq fds'
    BY <1>1 DEF HeldOnce
  <2>4. \A c \in buffers' : HeldBy(c) \subseteq fds'
    BY <1>1 DEF HeldOnce
  <2>5. \A c \in buffers' : HeldBy(c) \cap leaked = {}
    BY <1>1 DEF HeldOnce, HolderTypes
  <2> QED BY <1>1, <2>1, <2>2, <2>3, <2>4, <2>5 DEF HeldOnce
<1>5. OpenHeld'
  BY <1>1 DEF OpenHeld, Owned
<1>6. BuffersInside'
  BY <1>1 DEF BuffersInside
<1> QED BY <1>2, <1>4, <1>5, <1>6 DEF HoldersInv

(* A buffer is destroyed: what it held is closed, and nothing else.        *)
LEMMA BufferGone ==
  ASSUME HoldersInv, NEW b \in buffers,
         buffers' = buffers \ {b},
         fds' = fds \ Finished({b}),
         UNCHANGED <<params, leaked>>
  PROVE  HoldersInv'
<1>1. HolderTypes /\ ParamsInv /\ HeldOnce /\ OpenHeld /\ BuffersInside
  BY DEF HoldersInv
<1>2. fds' = fds \ HeldBy(b)
  <2>1. Finished({b}) \cap Numbers = HeldBy(b)
    BY <1>1, BufferFinished
  <2> QED BY <1>1, <2>1 DEF HolderTypes
<1>3. HolderTypes' /\ ParamsInv'
  BY <1>1, <1>2 DEF HolderTypes, ParamsInv, HeldOnce
<1>4. HeldOnce'
  <2>1. \A q \in Params : HeldBy(params[q]) \subseteq fds'
    BY <1>1, <1>2 DEF HeldOnce
  <2>2. \A c \in buffers' : HeldBy(c) \subseteq fds'
    BY <1>1, <1>2 DEF HeldOnce
  <2> QED BY <1>1, <2>1, <2>2 DEF HeldOnce
<1>5. OpenHeld'
  BY <1>1, <1>2 DEF OpenHeld, Owned
<1>6. BuffersInside'
  BY <1>1 DEF BuffersInside
<1> QED BY <1>3, <1>4, <1>5, <1>6 DEF HoldersInv

(* The client is gone with all it held.                                    *)
LEMMA ClientGoneStep ==
  ASSUME HoldersInv, ClientGone
  PROVE  HoldersInv'
<1>1. HolderTypes /\ ParamsInv /\ HeldOnce /\ OpenHeld /\ BuffersInside
  BY DEF HoldersInv
<1>2. PICK all : all = buffers \cup {params[p] : p \in Params}
  OBVIOUS
<1>3. /\ params' = [p \in Params |-> NoParams]
      /\ buffers' = {}
      /\ fds' = fds \ Finished(all)
      /\ leaked' = leaked \cup AboveGap(all)
  BY <1>2 DEF ClientGone
<1>4. NoParams \in Attributes /\ Collected(NoParams) /\ HeldBy(NoParams) = {}
  BY NothingHeld
<1>5. \A q \in Params : /\ Finished({params[q]}) \cap Numbers \subseteq HeldBy(params[q])
                        /\ AboveGap({params[q]}) = HeldBy(params[q]) \ Finished({params[q]})
  <2> SUFFICES ASSUME NEW q \in Params
               PROVE  /\ Finished({params[q]}) \cap Numbers \subseteq HeldBy(params[q])
                      /\ AboveGap({params[q]}) = HeldBy(params[q]) \ Finished({params[q]})
    OBVIOUS
  <2>1. params[q].n \in 0 .. MaxPlanes /\ params[q].fd \in SlotFds /\ Different(params[q])
    BY <1>1 DEF HolderTypes, Attributes, ParamsInv, Collected
  <2> QED BY <2>1, FinishedMeans
<1>6. \A b \in buffers : Finished({b}) \cap Numbers = HeldBy(b) /\ AboveGap({b}) = {}
  BY <1>1, BufferFinished
<1>7. \A x : x \in AboveGap(all) <=> \E q \in Params : x \in AboveGap({params[q]})
  <2> SUFFICES ASSUME NEW x
               PROVE  x \in AboveGap(all) <=> \E q \in Params : x \in AboveGap({params[q]})
    OBVIOUS
  <2>1. \A b \in buffers : ~(x \in AboveGap({b}))
    BY <1>6
  <2>2. x \in AboveGap(all) <=> \E a \in all : x \in AboveGap({a})
    BY FinishedEach
  <2> QED BY <1>2, <2>1, <2>2, Zenon
<1>8. ASSUME NEW x \in fds
      PROVE  /\ x \in Finished(all) => /\ x \notin leaked
                                       /\ x \notin AboveGap(all)
             /\ x \in Finished(all) \/ x \in AboveGap(all) \/ x \in leaked
  <2>1. x \in Numbers
    BY <1>1 DEF HolderTypes
  <2>2. x \in Finished(all) <=> \/ \E q \in Params : x \in Finished({params[q]})
                                \/ \E b \in buffers : x \in HeldBy(b)
    <3>1. \A b \in buffers : x \in Finished({b}) <=> x \in HeldBy(b)
      BY <1>6, <2>1
    <3>2. x \in Finished(all) <=> \E a \in all : x \in Finished({a})
      BY FinishedEach
    <3> QED BY <1>2, <3>1, <3>2, Zenon
  <2>3. x \in AboveGap(all) <=> \E q \in Params : x \in AboveGap({params[q]})
    BY <1>7, Zenon
  <2>4. ASSUME NEW q \in Params, x \in Finished({params[q]})
        PROVE  x \notin leaked /\ x \notin AboveGap(all)
    <3>1. x \in HeldBy(params[q])
      BY <1>5, <2>1, <2>4
    <3>2. \A u \in Params : u # q => x \notin HeldBy(params[u])
      BY <1>1, <3>1 DEF HeldOnce
    <3>3. \A u \in Params : x \in AboveGap({params[u]}) => x \in HeldBy(params[u]) /\ x \notin Finished({params[u]})
      BY <1>5
    <3>4. x \notin leaked
      BY <1>1, <3>1 DEF HeldOnce
    <3> QED BY <2>3, <2>4, <3>2, <3>3, <3>4, Zenon
  <2>5. ASSUME NEW b \in buffers, x \in HeldBy(b)
        PROVE  x \notin leaked /\ x \notin AboveGap(all)
    <3>1. x \notin leaked /\ \A u \in Params : x \notin HeldBy(params[u])
      BY <1>1, <2>5 DEF HeldOnce
    <3>2. \A u \in Params : x \in AboveGap({params[u]}) => x \in HeldBy(params[u])
      BY <1>5
    <3> QED BY <2>3, <3>1, <3>2, Zenon
  <2>6. x \in leaked \/ Owned(x)
    BY <1>1 DEF OpenHeld
  <2>7. \A u \in Params : x \in HeldBy(params[u]) => x \in AboveGap({params[u]}) \/ x \in Finished({params[u]})
    BY <1>5
  <2>8. Owned(x) => x \in Finished(all) \/ x \in AboveGap(all)
    BY <2>2, <2>3, <2>7, Zenon DEF Owned
  <2>9. x \in Finished(all) => x \notin leaked /\ x \notin AboveGap(all)
    BY <2>2, <2>4, <2>5, Zenon
  <2> QED BY <2>6, <2>8, <2>9
<1>9. AboveGap(all) \subseteq fds
  <2>1. \A q \in Params : AboveGap({params[q]}) \subseteq fds
    BY <1>1, <1>5 DEF HeldOnce
  <2> QED BY <1>7, <2>1
<1>10. HolderTypes'
  <2>1. leaked' \subseteq fds'
    BY <1>1, <1>3, <1>8, <1>9 DEF HolderTypes
  <2> QED BY <1>1, <1>3, <1>4, <2>1 DEF HolderTypes
<1>11. \A q \in Params : params'[q] = NoParams
  BY <1>3
<1>12. ParamsInv' /\ BuffersInside'
  BY <1>3, <1>4, <1>11 DEF ParamsInv, BuffersInside
<1>13. HeldOnce'
  BY <1>3, <1>4, <1>11 DEF HeldOnce
<1>14. OpenHeld'
  BY <1>3, <1>8 DEF OpenHeld
<1> QED BY <1>10, <1>12, <1>13, <1>14 DEF HoldersInv

-----------------------------------------------------------------------------
LEMMA SameHolders ==
  ASSUME HoldersInv, UNCHANGED <<params, buffers, fds, leaked>>
  PROVE  HoldersInv'
<1>1. HolderTypes' /\ ParamsInv'
  BY DEF HoldersInv, HolderTypes, ParamsInv
<1>2. HeldOnce'
  BY DEF HoldersInv, HeldOnce
<1>3. OpenHeld' /\ BuffersInside'
  BY DEF HoldersInv, OpenHeld, Owned, BuffersInside
<1> QED BY <1>1, <1>2, <1>3 DEF HoldersInv

LEMMA SameDevices ==
  ASSUME DevicesInv, UNCHANGED <<egl, dmabuf, devices, lost>>
  PROVE  DevicesInv'
BY DEF DevicesInv, IsEgl, OwnedDevices

LEMMA ParamsAddStep ==
  ASSUME HoldersInv, NEW p \in Params, NEW i \in 0 .. MaxPlanes, NEW plane \in Planes, ParamsAdd(p, i, plane)
  PROVE  HoldersInv'
<1>1. CASE AddRefused(params[p], i, plane)
  BY <1>1, SameHolders DEF ParamsAdd
<1>2. CASE ~AddRefused(params[p], i, plane)
  <2>1. PICK fd : fd = NewFd
    OBVIOUS
  <2>2. /\ params' = [params EXCEPT ![p].fd[i] = fd, ![p].plane[i] = plane, ![p].n = @ + 1]
        /\ fds' = fds \cup {fd}
        /\ fds # 1 .. MaxFds
        /\ UNCHANGED <<buffers, leaked>>
    BY <1>2, <2>1 DEF ParamsAdd
  <2>3. fd \in Numbers /\ fd \notin fds
    BY <2>1, <2>2, NewFdIsFree DEF HoldersInv, HolderTypes
  <2>4. /\ i \in Indexes
        /\ params[p].fd[i] = NoFd
        /\ params[p].n > 0 => \A j \in Indexes : params[p].fd[j] # NoFd
                                                    => params[p].plane[j].modifier = plane.modifier
    BY <1>2 DEF AddRefused, Indexes, MaxPlanes
  <2>5. PICK new : new = [params[p] EXCEPT !.fd[i] = fd, !.plane[i] = plane, !.n = @ + 1]
    OBVIOUS
  <2>6. params' = [params EXCEPT ![p] = new]
    BY <2>2, <2>5 DEF HoldersInv, HolderTypes, Attributes
  <2> QED BY ZenonT(60), <2>2, <2>3, <2>4, <2>5, <2>6, PlaneAdded
<1> QED BY <1>1, <1>2

LEMMA ParamsCreateStep ==
  ASSUME HoldersInv, NEW p \in Params, NEW immed \in BOOLEAN, NEW shape \in Shapes, ParamsCreate(p, immed, shape)
  PROVE  HoldersInv'
<1>1. PICK a : a = params[p]
  OBVIOUS
<1>2. params' = [params EXCEPT ![p] = [NoParams EXCEPT !.state = "inert"]]
  BY DEF ParamsCreate, MadeInert
<1>3. PICK ofDevice \in BOOLEAN, memory \in BOOLEAN :
        IF Verdict(a, shape, ofDevice, memory) = "created"
        THEN /\ buffers' = (buffers \ Overwritten(immed)) \cup {Buffer("dmabuf", a, shape.height, immed)}
             /\ leaked' = leaked \cup UNION {HeldBy(b) : b \in Overwritten(immed)}
             /\ UNCHANGED <<fds, error>>
        ELSE /\ fds' = fds \ Finished({a})
             /\ leaked' = leaked \cup AboveGap({a})
             /\ error' = (Verdict(a, shape, ofDevice, memory) = "error" \/ immed)
             /\ UNCHANGED buffers
  BY <1>1, ZenonT(60) DEF ParamsCreate
<1>4. CASE Verdict(a, shape, ofDevice, memory) = "created"
  <2>1. PICK b : b = Buffer("dmabuf", a, shape.height, immed)
    OBVIOUS
  <2>2. a \in Attributes /\ Collected(a)
    BY <1>1 DEF HoldersInv, HolderTypes, ParamsInv
  <2>3. /\ b \in BufferRecords
        /\ HeldBy(b) = HeldBy(a)
        /\ \A i \in Indexes : b.fd[i] # NoFd <=> i < b.n
        /\ InsideDmabuf(b)
    BY <1>4, <2>1, <2>2, CreatedUsable
  <2>4. PICK over : over = Overwritten(immed)
    OBVIOUS
  <2>5. over \in SUBSET buffers
    BY <2>4 DEF Overwritten
  <2>6. /\ buffers' = (buffers \ over) \cup {b}
        /\ leaked' = leaked \cup UNION {HeldBy(c) : c \in over}
        /\ UNCHANGED fds
    BY <1>3, <1>4, <2>1, <2>4
  <2> QED BY <1>1, <1>2, <2>3, <2>5, <2>6, BufferMade
<1>5. CASE Verdict(a, shape, ofDevice, memory) # "created"
  BY <1>1, <1>2, <1>3, <1>5, GivenUp
<1> QED BY <1>4, <1>5

LEMMA CreatePrimeBufferStep ==
  ASSUME HoldersInv, CreatePrimeBuffer
  PROVE  HoldersInv'
<1>1. PICK fd : fd = NewFd
  OBVIOUS
<1>2. PICK a : a = [NoParams EXCEPT !.n = 1, !.fd[0] = fd]
  OBVIOUS
<1>3. CASE UNCHANGED <<buffers, fds>>
  BY <1>3, SameHolders DEF CreatePrimeBuffer
<1>4. CASE buffers' = buffers \cup {Buffer("drm", a, 0, TRUE)} /\ fds' = fds \cup {fd}
  <2>1. fd \in Numbers /\ fd \notin fds /\ fd # NoFd
    BY <1>1, NewFdIsFree, SlotNumbers DEF HoldersInv, HolderTypes, CreatePrimeBuffer
  <2>2. a.n = 1 /\ a.fd = [i \in Indexes |-> IF i = 0 THEN fd ELSE NoFd] /\ a.plane = [i \in Indexes |-> <<>>]
    BY <1>2 DEF NoParams, Indexes, MaxPlanes
  <2>3. a.fd \in SlotFds /\ a.plane \in SlotPlanes /\ \A i \in Indexes : a.fd[i] = IF i = 0 THEN fd ELSE NoFd
    BY <2>1, <2>2 DEF SlotFds, SlotPlanes
  <2>4. PICK b : b = Buffer("drm", a, 0, TRUE)
    OBVIOUS
  <2>5. b.n = 1 /\ b.fd = a.fd /\ b.plane = a.plane /\ b.kind = "drm" /\ b \in BufferRecords
    BY <2>2, <2>3, <2>4 DEF Buffer, BufferRecords, MaxPlanes
  <2>6. \A i \in Indexes : b.fd[i] # NoFd <=> i < b.n
    BY <2>1, <2>3, <2>5, SlotNumbers
  <2>7. HeldBy(b) = {fd}
    <3>1. 0 \in Indexes
      BY SlotNumbers
    <3> QED BY <2>1, <2>3, <2>5, <3>1 DEF HeldBy
  <2> QED BY <1>4, <2>1, <2>4, <2>5, <2>6, <2>7, PrimeMade DEF CreatePrimeBuffer
<1> QED BY <1>1, <1>2, <1>3, <1>4 DEF CreatePrimeBuffer

(* What the client holds is safe in every step.                            *)
LEMMA HoldersStep ==
  ASSUME HoldersInv, [Next]_vars
  PROVE  HoldersInv'
<1>1. CASE UNCHANGED vars
  BY <1>1, SameHolders DEF vars
<1>2. ASSUME NEW d \in Drivers, InitDrm(d)
      PROVE  HoldersInv'
  BY <1>2, SameHolders DEF InitDrm
<1>3. CASE Finalize
  BY <1>3, SameHolders DEF Finalize
<1>4. ASSUME NEW version \in 1 .. 4, BindDmabuf(version)
      PROVE  HoldersInv'
  BY <1>4, SameHolders DEF BindDmabuf
<1>5. CASE GetDefaultFeedback \/ BindDrm
  BY <1>5, SameHolders DEF GetDefaultFeedback, BindDrm
<1>6. ASSUME NEW s \in Surfaces, GetSurfaceFeedback(s)
      PROVE  HoldersInv'
  BY <1>6, SameHolders DEF GetSurfaceFeedback
<1>7. ASSUME NEW p \in Params, CreateParams(p)
      PROVE  HoldersInv'
  <2>1. HolderTypes /\ ParamsInv /\ HeldOnce /\ OpenHeld /\ BuffersInside
    BY DEF HoldersInv
  <2>2. PICK new : new = [params[p] EXCEPT !.state = "live"]
    OBVIOUS
  <2>3. params[p] \in Attributes /\ Collected(params[p])
    BY <2>1 DEF HolderTypes, ParamsInv
  <2>4. new \in Attributes /\ new.fd = params[p].fd /\ new.n = params[p].n /\ new.plane = params[p].plane
    BY <2>2, <2>3 DEF Attributes
  <2>5. Collected(new) /\ HeldBy(new) = HeldBy(params[p])
    BY <2>3, <2>4 DEF Collected, Different, HeldBy
  <2>6. params' = [params EXCEPT ![p] = new] /\ UNCHANGED <<buffers, fds, leaked>>
    BY <1>7, <2>2 DEF CreateParams
  <2>7. params' \in [Params -> Attributes] /\ ParamsInv'
    BY <2>1, <2>4, <2>5, <2>6, ParamsReplaced
  <2>8. \A q \in Params : HeldBy(params'[q]) = HeldBy(params[q])
    BY <2>1, <2>5, <2>6 DEF HolderTypes
  <2>9. HeldOnce' /\ OpenHeld'
    BY <2>1, <2>6, <2>8 DEF HeldOnce, OpenHeld, Owned
  <2>10. HolderTypes' /\ BuffersInside'
    BY <2>1, <2>6, <2>7 DEF HolderTypes, BuffersInside
  <2> QED BY <2>7, <2>9, <2>10 DEF HoldersInv
<1>8. ASSUME NEW p \in Params, ParamsReused(p)
      PROVE  HoldersInv'
  BY <1>8, SameHolders DEF ParamsReused
<1>9. ASSUME NEW p \in Params, ParamsDestroy(p)
      PROVE  HoldersInv'
  BY <1>9, GivenUp DEF ParamsDestroy
<1>10. CASE CreateFlinkBuffer \/ NoMemory
  BY <1>10, SameHolders DEF CreateFlinkBuffer, NoMemory
<1>11. ASSUME NEW b \in buffers, BufferDestroy(b)
       PROVE  HoldersInv'
  BY <1>11, BufferGone DEF BufferDestroy
<1>12. CASE ClientDestroyed \/ DestroyDisplay
  BY <1>12, ClientGoneStep DEF ClientDestroyed, DestroyDisplay
<1> QED BY <1>1, <1>2, <1>3, <1>4, <1>5, <1>6, <1>7, <1>8, <1>9, <1>10, <1>11, <1>12,
           ParamsAddStep, ParamsCreateStep, CreatePrimeBufferStep DEF Next

-----------------------------------------------------------------------------
(* westfield_egl_new() keeps the descriptor of the device exactly when it  *)
(* succeeds, and opens none of those of the dmabuf global.                 *)
LEMMA EglDescriptors ==
  ASSUME NEW d, NEW e, e = EglNew(d)
  PROVE  /\ IsEgl(e)
         /\ e.ok \in BOOLEAN
         /\ e.ok => "drm" \in e.fds /\ e.fds \subseteq {"drm", "gbm"}
         /\ ~e.ok => e.fds = {}
<1>1. PICK created : created = CreateWithDrmFd(d)
  OBVIOUS
<1>2. created.ok => created.fds \subseteq {"gbm"}
  BY <1>1 DEF CreateWithDrmFd, Failed, Ready
<1>3. CASE Works(d, "open device") /\ created.ok
  <2>1. IsEgl(e) /\ e.ok = TRUE /\ e.fds = created.fds \cup {"drm"}
    BY <1>1, <1>3 DEF EglNew, IsEgl
  <2> QED BY <1>2, <1>3, <2>1
<1>4. CASE ~(Works(d, "open device") /\ created.ok)
  <2>1. IsEgl(e) /\ e.ok = FALSE /\ e.fds = {}
    BY <1>1, <1>4 DEF EglNew, IsEgl
  <2> QED BY <2>1
<1> QED BY <1>3, <1>4

(* The table and the device of the dmabuf global are open when the global  *)
(* is made; the device may be when it is not.                              *)
LEMMA DmabufDescriptors ==
  ASSUME NEW d, NEW e, NEW made, made = DmabufCreate(d, e)
  PROVE  /\ made.dmabuf.live \in BOOLEAN
         /\ made.dmabuf.live => made.fds = {"table", "main"}
         /\ ~made.dmabuf.live => made.fds \subseteq {"main"}
<1>1. NoDmabuf.live = FALSE
  BY DEF NoDmabuf
<1>2. PICK compiled : compiled = FeedbackCompile(d, e.texture)
  OBVIOUS
<1>3. compiled.ok => compiled.fds = {"table"}
  BY <1>2 DEF FeedbackCompile, ShmFilePair
<1>4. PICK feedback : feedback = SetDefaultFeedback(d, e.texture)
  OBVIOUS
<1>5. feedback.dmabuf.live = TRUE
  BY <1>4 DEF SetDefaultFeedback
<1>6. /\ feedback.ok => feedback.fds = compiled.fds \cup {"main"} /\ compiled.ok
      /\ ~feedback.ok => feedback.fds \subseteq {"main"}
  BY <1>2, <1>4 DEF SetDefaultFeedback
<1>7. CASE ~TrancheInit(d) \/ ~Works(d, "wl_global_create")
  BY <1>1, <1>7 DEF DmabufCreate
<1>8. CASE TrancheInit(d) /\ Works(d, "wl_global_create")
  <2>1. made.fds = feedback.fds /\ made.dmabuf = IF feedback.ok THEN feedback.dmabuf ELSE NoDmabuf
    BY <1>4, <1>8 DEF DmabufCreate
  <2>2. CASE feedback.ok
    <3>1. made.dmabuf.live = TRUE
      BY <1>5, <2>1, <2>2
    <3>2. made.fds = {"table", "main"}
      BY <1>3, <1>6, <2>1, <2>2
    <3> QED BY <3>1, <3>2
  <2>3. CASE ~feedback.ok
    <3>1. made.dmabuf.live = FALSE
      BY <1>1, <2>1, <2>3
    <3>2. made.fds \subseteq {"main"}
      BY <1>6, <2>1, <2>3
    <3> QED BY <3>1, <3>2
  <2> QED BY <2>2, <2>3
<1> QED BY <1>7, <1>8

LEMMA InitDrmDevices ==
  ASSUME DevicesInv, NEW d, InitDrm(d)
  PROVE  DevicesInv'
<1>1. PICK e : e = EglNew(d)
  OBVIOUS
<1>2. PICK made : made = DmabufCreate(d, e)
  OBVIOUS
<1>3. /\ egl' = e
      /\ dmabuf' = IF e.ok THEN made.dmabuf ELSE NoDmabuf
      /\ devices' = e.fds \cup (IF e.ok THEN made.fds ELSE {})
      /\ lost' = IF e.ok /\ ~made.dmabuf.live THEN made.fds ELSE {}
  BY <1>1, <1>2 DEF InitDrm
<1>4. /\ IsEgl(egl')
      /\ e.ok \in BOOLEAN
      /\ e.ok => "drm" \in e.fds /\ e.fds \subseteq {"drm", "gbm"}
      /\ ~e.ok => e.fds = {}
  BY <1>1, <1>3, EglDescriptors
<1>5. /\ made.dmabuf.live \in BOOLEAN
      /\ made.dmabuf.live => made.fds = {"table", "main"}
      /\ ~made.dmabuf.live => made.fds \subseteq {"main"}
  BY <1>2, DmabufDescriptors
<1>6. CASE e.ok /\ made.dmabuf.live
  <2>1. dmabuf'.live /\ dmabuf'.live \in BOOLEAN /\ devices' = e.fds \cup {"table", "main"} /\ lost' = {}
    BY <1>3, <1>5, <1>6
  <2>2. OwnedDevices' = e.fds \cup {"table", "main"}
    BY <1>3, <1>6, <2>1 DEF OwnedDevices
  <2> QED BY <1>3, <1>4, <1>6, <2>1, <2>2 DEF DevicesInv, IsEgl
<1>7. CASE e.ok /\ ~made.dmabuf.live
  <2>1. /\ ~dmabuf'.live /\ dmabuf'.live \in BOOLEAN
        /\ devices' = e.fds \cup made.fds /\ lost' = made.fds /\ made.fds \subseteq {"main"}
    BY <1>3, <1>5, <1>7
  <2>2. OwnedDevices' = e.fds
    BY <1>3, <1>7, <2>1 DEF OwnedDevices
  <2> QED BY <1>3, <1>4, <1>7, <2>1, <2>2 DEF DevicesInv, IsEgl
<1>8. CASE ~e.ok
  <2>1. dmabuf'.live = FALSE /\ devices' = {} /\ lost' = {}
    BY <1>3, <1>4, <1>8 DEF NoDmabuf
  <2>2. OwnedDevices' = {}
    BY <1>3, <1>8, <2>1 DEF OwnedDevices
  <2> QED BY <1>3, <1>4, <1>8, <2>1, <2>2 DEF DevicesInv, IsEgl
<1> QED BY <1>6, <1>7, <1>8

LEMMA FinalizeDevices ==
  ASSUME DevicesInv, Finalize
  PROVE  DevicesInv'
<1>1. /\ egl.ok
      /\ egl' = [egl EXCEPT !.ok = FALSE, !.display = "finalized"]
      /\ devices' = devices \ {"drm"}
      /\ lost' = lost \cup (devices \cap {"gbm"})
      /\ dmabuf' = dmabuf
  BY DEF Finalize
<1>2. IsEgl(egl') /\ egl'.ok = FALSE
  <2>1. egl' = [ok |-> FALSE, fds |-> egl.fds, display |-> "finalized", texture |-> egl.texture,
                render |-> egl.render, hasModifiers |-> egl.hasModifiers, exts |-> egl.exts]
    BY <1>1 DEF DevicesInv, IsEgl
  <2> QED BY <2>1 DEF IsEgl
<1>3. PICK global : global = IF dmabuf.live THEN {"table", "main"} ELSE {}
  OBVIOUS
<1>4. OwnedDevices = egl.fds \cup global /\ OwnedDevices' = global
  BY <1>1, <1>2, <1>3 DEF OwnedDevices
<1>5. /\ devices = egl.fds \cup global \cup lost
      /\ (egl.fds \cup global) \cap lost = {}
      /\ egl.fds \subseteq {"drm", "gbm"} /\ lost \subseteq {"main", "gbm"} /\ global \subseteq {"table", "main"}
  BY <1>1, <1>3, <1>4 DEF DevicesInv
<1>6. /\ devices' = global \cup lost'
      /\ global \cap lost' = {}
      /\ lost' \subseteq {"main", "gbm"}
  BY <1>1, <1>5
<1>7. dmabuf'.live \in BOOLEAN
  BY <1>1 DEF DevicesInv
<1> QED BY <1>2, <1>4, <1>6, <1>7 DEF DevicesInv

(* What initDrm() opens is safe in every step.                             *)
LEMMA DevicesStep ==
  ASSUME DevicesInv, [Next]_vars
  PROVE  DevicesInv'
<1>1. CASE UNCHANGED vars
  BY <1>1, SameDevices DEF vars
<1>2. ASSUME NEW version \in 1 .. 4, BindDmabuf(version)
      PROVE  DevicesInv'
  BY <1>2, SameDevices DEF BindDmabuf
<1>3. CASE GetDefaultFeedback \/ BindDrm
  BY <1>3, SameDevices DEF GetDefaultFeedback, BindDrm
<1>4. ASSUME NEW s \in Surfaces, GetSurfaceFeedback(s)
      PROVE  DevicesInv'
  BY <1>4, SameDevices DEF GetSurfaceFeedback
<1>5. ASSUME NEW p \in Params, CreateParams(p) \/ ParamsReused(p) \/ ParamsDestroy(p)
      PROVE  DevicesInv'
  BY <1>5, SameDevices DEF CreateParams, ParamsReused, ParamsDestroy
<1>6. ASSUME NEW p \in Params, NEW i \in 0 .. MaxPlanes, NEW plane \in Planes, ParamsAdd(p, i, plane)
      PROVE  DevicesInv'
  BY <1>6, SameDevices DEF ParamsAdd
<1>7. ASSUME NEW p \in Params, NEW immed \in BOOLEAN, NEW shape \in Shapes, ParamsCreate(p, immed, shape)
      PROVE  DevicesInv'
  BY <1>7, SameDevices DEF ParamsCreate
<1>8. CASE CreatePrimeBuffer \/ CreateFlinkBuffer \/ NoMemory
  BY <1>8, SameDevices DEF CreatePrimeBuffer, CreateFlinkBuffer, NoMemory
<1>9. ASSUME NEW b \in buffers, BufferDestroy(b)
      PROVE  DevicesInv'
  BY <1>9, SameDevices DEF BufferDestroy
<1>10. CASE ClientDestroyed
  BY <1>10, SameDevices DEF ClientDestroyed
<1>11. CASE DestroyDisplay
  <2>1. /\ dmabuf' = NoDmabuf
        /\ devices' = IF dmabuf.live THEN devices \ {"table", "main"} ELSE devices
        /\ egl' = egl /\ lost' = lost
    BY <1>11 DEF DestroyDisplay
  <2>2. dmabuf'.live = FALSE
    BY <2>1 DEF NoDmabuf
  <2>3. PICK renderer : renderer = IF egl.ok THEN egl.fds ELSE {}
    OBVIOUS
  <2>4. OwnedDevices = renderer \cup (IF dmabuf.live THEN {"table", "main"} ELSE {}) /\ OwnedDevices' = renderer
    BY <2>1, <2>2, <2>3 DEF OwnedDevices
  <2>5. devices' = renderer \cup lost /\ renderer \cap lost = {}
    BY <2>1, <2>3, <2>4 DEF DevicesInv
  <2> QED BY <2>1, <2>2, <2>4, <2>5 DEF DevicesInv, IsEgl
<1> QED BY <1>1, <1>2, <1>3, <1>4, <1>5, <1>6, <1>7, <1>8, <1>9, <1>10, <1>11,
           InitDrmDevices, FinalizeDevices DEF Next

-----------------------------------------------------------------------------
(* The strengthened invariant holds throughout (initDrm(), the requests of *)
(* zwp_linux_dmabuf_v1 and wl_drm, destroyDisplay()).                      *)
THEOREM GpuInvariant == Spec => []GpuInv
<1>1. Init => GpuInv
  <2> SUFFICES ASSUME Init
               PROVE  GpuInv
    OBVIOUS
  <2>1. NoParams \in Attributes /\ Collected(NoParams) /\ HeldBy(NoParams) = {}
    BY NothingHeld
  <2>2. \A q \in Params : params[q] = NoParams
    BY DEF Init
  <2>3. HolderTypes
    BY <2>1 DEF Init, HolderTypes
  <2>4. ParamsInv /\ HeldOnce /\ OpenHeld /\ BuffersInside
    BY <2>1, <2>2 DEF Init, ParamsInv, HeldOnce, OpenHeld, BuffersInside
  <2>5. IsEgl(egl) /\ egl.ok = FALSE /\ dmabuf.live = FALSE /\ devices = {} /\ lost = {}
    BY DEF Init, NoEgl, NoDmabuf, IsEgl
  <2> QED BY <2>3, <2>4, <2>5 DEF GpuInv, HoldersInv, DevicesInv, OwnedDevices
<1>2. GpuInv /\ [Next]_vars => GpuInv'
  BY HoldersStep, DevicesStep DEF GpuInv
<1> QED BY <1>1, <1>2, PTL DEF Spec

(* Every descriptor of a client is held by one params or one buffer,       *)
(* however planes are added, refused, given up or turned into buffers, or  *)
(* was leaked, above a gap or with a buffer overwritten at id 0; what      *)
(* initDrm() opens is open as long as its owner lives, but for the device  *)
(* of a set of formats that fails and that of GBM (params_add(),           *)
(* params_create_common(), dmabuf_attributes_finish(),                     *)
(* set_default_feedback(), westfield_egl_finalize()).                      *)
THEOREM OwnersExact == Spec => []DescriptorsOwned
<1>1. GpuInv => DescriptorsOwned
  <2> SUFFICES ASSUME GpuInv
               PROVE  DescriptorsOwned
    OBVIOUS
  <2>1. HolderTypes /\ HeldOnce /\ OpenHeld /\ DevicesInv
    BY DEF GpuInv, HoldersInv
  <2>2. \A a, b \in Holders : a # b => HeldBy(a) \cap HeldBy(b) = {}
    BY <2>1 DEF HeldOnce, Holders
  <2>3. AllHeld \subseteq fds /\ AllHeld \cap leaked = {}
    BY <2>1 DEF HeldOnce, Holders, AllHeld
  <2>4. fds \subseteq AllHeld \cup leaked
    BY <2>1 DEF OpenHeld, Owned, Holders, AllHeld
  <2>5. fds = AllHeld \cup leaked
    BY <2>1, <2>3, <2>4 DEF HolderTypes
  <2>6. egl.ok <=> "drm" \in devices
    BY <2>1 DEF DevicesInv, OwnedDevices
  <2> QED BY <2>1, <2>2, <2>3, <2>5, <2>6 DEF DescriptorsOwned, DevicesInv
<1> QED BY <1>1, GpuInvariant, PTL

(* No buffer that was created reaches beyond its dmabufs, whatever offsets *)
(* and strides, for every width of an unsigned int, and its descriptors    *)
(* are open (params_create_common(), check_import_dmabuf()).               *)
THEOREM BuffersUsable == Spec => []BufferUsable
<1>1. GpuInv => BufferUsable
  BY DEF GpuInv, HoldersInv, HeldOnce, BuffersInside, BufferUsable
<1> QED BY <1>1, GpuInvariant, PTL
=============================================================================
