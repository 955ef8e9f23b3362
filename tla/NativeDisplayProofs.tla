------------------------ MODULE NativeDisplayProofs -------------------------
(***************************************************************************)
(* Proofs about the display and its event loop. NativeDisplay: memory of   *)
(* sources and clients, the answers to sync requests and what registries   *)
(* know of globals, for any number of clients, requests and globals and    *)
(* any room in epoll_wait(). TimerHeap, in the second half: the heap of    *)
(* timers and its dispatch, for any number of timers and any deadlines.    *)
(***************************************************************************)
EXTENDS NativeDisplay, TimerHeap, FiniteSetTheorems, SequenceTheorems, WellFoundedInduction, TLAPS

FdSources == {Listen, Term} \cup {ClientSource(c) : c \in Clients}
SyncSources == {"sync"} \X Clients \X Nat
Events == [source : FdSources, mask : SUBSET {"R", "W", "H"}]

(* A loop in which nothing is freed that epoll_wait() reported.            *)
IsLoop(l) ==
    l \in [interest : {l.interest}, idle : {l.idle}, destroy : {l.destroy}, batch : {l.batch}]
SafeLoop(l) ==
    /\ IsLoop(l)
    /\ DOMAIN l.interest \subseteq FdSources
    /\ l.idle \in Seq(SyncSources)
    /\ l.batch \in Seq(Events)
    /\ \A i \in DOMAIN l.batch : HasMemory(l, l.batch[i].source)

(* Who is a client has a socket, and who has a source is a client. The     *)
(* client of the running handler exists, unless its own callback destroyed *)
(* it: then nothing more is read from it.                                  *)
PeerStates ==
    [socket : {"none", "waiting", "open", "closed"}, sent : Seq(Requests), reading : BOOLEAN]
Started(c) == peer[c].socket \in {"open", "closed"}
ClientInv ==
    /\ clients \subseteq Clients
    /\ peer \in [Clients -> PeerStates]
    /\ current \in [client : Clients \cup {0}, input : Seq(Requests)]
    /\ \A c \in clients : Started(c)
    /\ \A c \in Clients : HasFd(loop, ClientSource(c)) => c \in clients
    /\ pc = "requests" => \/ current.client \in clients
                          \/ current.client \in usedAfterFree /\ current.input = <<>>

(* The sync requests of a client are numbered, those that were answered    *)
(* are a prefix, and the idle sources of the others are in order. No idle  *)
(* source is left over from a client that has not connected yet.           *)
Numbered(seq) == \A i \in DOMAIN seq : seq[i] = i
Unanswered(c) == Len(done[c]) + 1 .. Len(synced[c])
IsFor(i, c) == loop.idle[i][2] = c
PendingInv(c) ==
    /\ \A i \in DOMAIN loop.idle : IsFor(i, c) => loop.idle[i][3] \in Unanswered(c)
    /\ \A n \in Unanswered(c) : \E i \in DOMAIN loop.idle : IsFor(i, c) /\ loop.idle[i][3] = n
    /\ \A i, j \in DOMAIN loop.idle :
        i < j /\ IsFor(i, c) /\ IsFor(j, c) => loop.idle[i][3] < loop.idle[j][3]
SyncInv ==
    /\ synced \in [Clients -> Seq(Nat)]
    /\ done \in [Clients -> Seq(Nat)]
    /\ \A c \in Clients : /\ Numbered(synced[c]) /\ Numbered(done[c])
                          /\ Len(done[c]) <= Len(synced[c])
    /\ \A c \in Clients \ clients : synced[c] = <<>> /\ done[c] = <<>>
    /\ \A c \in clients : PendingInv(c)
    /\ \A i \in DOMAIN loop.idle : Started(loop.idle[i][2])
    /\ pc \in {"out", "idle", "flush", "gone"} => loop.idle = <<>>

(* Names are not used again; a registry knows of no global that never was, *)
(* and once they were emitted of all that are.                             *)
Globals == [name : Nat, interface : DOMAIN InterfaceVersion, version : Nat]
Knowledge == [emitted : BOOLEAN, known : SUBSET Nat, removed : SUBSET Nat]
Knows(k) ==
    /\ k.removed \cap Names = {}
    /\ \A name \in k.removed : name < nextName
    /\ k.known \subseteq Names \cup k.removed
    /\ k.emitted => Names \subseteq k.known
GlobalInv ==
    /\ nextName \in Nat \ {0}
    /\ globals \in Seq(Globals)
    /\ \A i \in DOMAIN globals : globals[i].name < nextName
    /\ \A i, j \in DOMAIN globals : globals[i].name = globals[j].name => i = j
    /\ told \in [Clients -> Knowledge]
    /\ registries \subseteq clients
    /\ \A c \in Clients \ registries : told[c] = NotTold
    /\ \A c \in registries : Knows(told[c])
    /\ pc # "gone" => nativeGlobalNames \subseteq Names

DisplayInv == SafeLoop(loop) /\ ClientInv /\ SyncInv /\ GlobalInv

-----------------------------------------------------------------------------
(* The functions of the event loop change some fields and keep it safe.    *)

MakeLoop(interest, idle, destroy, batch) ==
    [interest |-> interest, idle |-> idle, destroy |-> destroy, batch |-> batch]

LEMMA LoopUpdates ==
  ASSUME NEW l, IsLoop(l), NEW x, NEW y
  PROVE  /\ [l EXCEPT !.interest = x] = MakeLoop(x, l.idle, l.destroy, l.batch)
         /\ [l EXCEPT !.batch = x] = MakeLoop(l.interest, l.idle, l.destroy, x)
         /\ [l EXCEPT !.destroy = x] = MakeLoop(l.interest, l.idle, x, l.batch)
         /\ [l EXCEPT !.idle = x] = MakeLoop(l.interest, x, l.destroy, l.batch)
         /\ [l EXCEPT !.interest = x, !.destroy = y] = MakeLoop(x, l.idle, y, l.batch)
         /\ [l EXCEPT !.idle = x, !.destroy = y] = MakeLoop(l.interest, x, y, l.batch)
<1>1. [l EXCEPT !.interest = x] = MakeLoop(x, l.idle, l.destroy, l.batch)
  BY DEF IsLoop, MakeLoop
<1>2. [l EXCEPT !.batch = x] = MakeLoop(l.interest, l.idle, l.destroy, x)
  BY DEF IsLoop, MakeLoop
<1>3. [l EXCEPT !.destroy = x] = MakeLoop(l.interest, l.idle, x, l.batch)
  BY DEF IsLoop, MakeLoop
<1>4. [l EXCEPT !.idle = x] = MakeLoop(l.interest, x, l.destroy, l.batch)
  BY DEF IsLoop, MakeLoop
<1>5. [l EXCEPT !.interest = x, !.destroy = y] = MakeLoop(x, l.idle, y, l.batch)
  <2>1. [MakeLoop(x, l.idle, l.destroy, l.batch) EXCEPT !.destroy = y] = MakeLoop(x, l.idle, y, l.batch)
    BY DEF MakeLoop
  <2> QED BY <1>1, <2>1
<1>6. [l EXCEPT !.idle = x, !.destroy = y] = MakeLoop(l.interest, x, y, l.batch)
  <2>1. [MakeLoop(l.interest, x, l.destroy, l.batch) EXCEPT !.destroy = y] = MakeLoop(l.interest, x, y, l.batch)
    BY DEF MakeLoop
  <2> QED BY <1>4, <2>1
<1> QED BY <1>1, <1>2, <1>3, <1>4, <1>5, <1>6

LEMMA MadeLoop ==
  ASSUME NEW interest, NEW idle, NEW destroy, NEW batch,
         NEW k, k = MakeLoop(interest, idle, destroy, batch)
  PROVE  /\ IsLoop(k)
         /\ k.interest = interest /\ k.idle = idle /\ k.destroy = destroy /\ k.batch = batch
  BY DEF IsLoop, MakeLoop

(* What is reported still has memory if no memory went and nothing new is  *)
(* reported.                                                               *)
LEMMA StaysSafe ==
  ASSUME NEW l, SafeLoop(l),
         NEW interest, NEW idle, NEW destroy, NEW batch,
         NEW k, k = MakeLoop(interest, idle, destroy, batch),
         DOMAIN interest \subseteq FdSources,
         idle \in Seq(SyncSources),
         batch \in Seq(Events),
         DOMAIN l.interest \cup ToSet(l.idle) \cup l.destroy
            \subseteq DOMAIN interest \cup ToSet(idle) \cup destroy,
         \A i \in DOMAIN batch : \E j \in DOMAIN l.batch : batch[i] = l.batch[j]
  PROVE  SafeLoop(k)
<1>1. /\ IsLoop(k)
      /\ k.interest = interest /\ k.idle = idle /\ k.destroy = destroy /\ k.batch = batch
  BY MadeLoop
<1>2. ASSUME NEW i \in DOMAIN batch
      PROVE  HasMemory(k, batch[i].source)
  <2>1. PICK j \in DOMAIN l.batch : batch[i] = l.batch[j]
    OBVIOUS
  <2>2. HasMemory(l, l.batch[j].source)
    BY DEF SafeLoop
  <2> QED BY <1>1, <2>1, <2>2 DEF HasMemory, HasFd
<1> QED BY <1>1, <1>2 DEF SafeLoop

LEMMA AddFdSafe ==
  ASSUME NEW l, SafeLoop(l), NEW s \in FdSources, NEW mask, NEW k, k = AddFd(l, s, mask)
  PROVE  SafeLoop(k) /\ DOMAIN k.interest = DOMAIN l.interest \cup {s} /\ k.idle = l.idle
<1> DEFINE f == [x \in DOMAIN l.interest \cup {s} |-> IF x = s THEN mask ELSE l.interest[x]]
<1>1. k = [l EXCEPT !.interest = f]
  BY DEF AddFd
<1>2. DOMAIN f = DOMAIN l.interest \cup {s}
  BY SMTT(40)
<1> HIDE DEF f
<1>3. k = MakeLoop(f, l.idle, l.destroy, l.batch)
  BY <1>1, LoopUpdates DEF SafeLoop
<1>4. k.interest = f /\ k.idle = l.idle
  BY <1>3, MadeLoop
<1>5. SafeLoop(k)
  BY SMTT(40), <1>2, <1>3, StaysSafe DEF SafeLoop
<1> QED BY <1>2, <1>4, <1>5

LEMMA FdUpdateSafe ==
  ASSUME NEW l, SafeLoop(l), NEW s, NEW mask, NEW k, k = FdUpdate(l, s, mask)
  PROVE  SafeLoop(k) /\ DOMAIN k.interest = DOMAIN l.interest /\ k.idle = l.idle
<1> DEFINE f == [l.interest EXCEPT ![s] = mask]
<1>1. k = [l EXCEPT !.interest = f]
  BY DEF FdUpdate
<1>2. DOMAIN f = DOMAIN l.interest
  OBVIOUS
<1> HIDE DEF f
<1>3. k = MakeLoop(f, l.idle, l.destroy, l.batch)
  BY <1>1, LoopUpdates DEF SafeLoop
<1>4. k.interest = f /\ k.idle = l.idle
  BY <1>3, MadeLoop
<1>5. SafeLoop(k)
  BY SMTT(40), <1>2, <1>3, StaysSafe DEF SafeLoop
<1> QED BY <1>2, <1>4, <1>5

LEMMA WatchWritableSafe ==
  ASSUME NEW l, SafeLoop(l), NEW some, NEW k, k = WatchWritable(l, some)
  PROVE  SafeLoop(k) /\ DOMAIN k.interest = DOMAIN l.interest /\ k.idle = l.idle
<1> DEFINE f == [s \in DOMAIN l.interest |->
                   IF \E c \in some : s = ClientSource(c) THEN {"R", "W"} ELSE l.interest[s]]
<1>1. k = [l EXCEPT !.interest = f]
  BY DEF WatchWritable
<1>2. DOMAIN f = DOMAIN l.interest
  BY SMTT(40)
<1> HIDE DEF f
<1>3. k = MakeLoop(f, l.idle, l.destroy, l.batch)
  BY <1>1, LoopUpdates DEF SafeLoop
<1>4. k.interest = f /\ k.idle = l.idle
  BY <1>3, MadeLoop
<1>5. SafeLoop(k)
  BY <1>2, <1>3, StaysSafe DEF SafeLoop
<1> QED BY <1>2, <1>4, <1>5

LEMMA SourceRemoveSafe ==
  ASSUME NEW l, SafeLoop(l), NEW sources, NEW k, k = SourceRemove(l, sources)
  PROVE  SafeLoop(k) /\ DOMAIN k.interest = DOMAIN l.interest \ sources /\ k.idle = l.idle
<1> DEFINE f == [s \in DOMAIN l.interest \ sources |-> l.interest[s]]
           freed == l.destroy \cup sources
<1>1. k = [l EXCEPT !.interest = f, !.destroy = freed]
  BY DEF SourceRemove
<1>2. DOMAIN f = DOMAIN l.interest \ sources
  OBVIOUS
<1>3. DOMAIN l.interest \cup ToSet(l.idle) \cup l.destroy
        \subseteq DOMAIN f \cup ToSet(l.idle) \cup freed
  BY SMTT(40), <1>2
<1> HIDE DEF f, freed
<1>4. k = MakeLoop(f, l.idle, freed, l.batch)
  BY ZenonT(60), <1>1, LoopUpdates DEF SafeLoop
<1>5. k.interest = f /\ k.idle = l.idle
  BY <1>4, MadeLoop
<1>6. SafeLoop(k)
  BY <1>2, <1>3, <1>4, StaysSafe DEF SafeLoop
<1> QED BY <1>2, <1>5, <1>6

(* The destroy list is freed once all events are dispatched.               *)
LEMMA ProcessDestroyListSafe ==
  ASSUME NEW l, SafeLoop(l), l.batch = <<>>, NEW k, k = ProcessDestroyList(l)
  PROVE  SafeLoop(k) /\ k.interest = l.interest /\ k.idle = l.idle
<1>1. k = MakeLoop(l.interest, l.idle, {}, l.batch)
  BY LoopUpdates DEF ProcessDestroyList, SafeLoop
<1>2. IsLoop(k) /\ k.interest = l.interest /\ k.idle = l.idle /\ k.batch = <<>>
  BY <1>1, MadeLoop
<1> QED BY <1>2 DEF SafeLoop

LEMMA LoopDestroySafe ==
  ASSUME NEW l, SafeLoop(l), NEW k, k = LoopDestroy(l)
  PROVE  SafeLoop(k) /\ k.interest = l.interest /\ k.idle = l.idle
<1> DEFINE m == ProcessDestroyList(l)
<1>1. m = MakeLoop(l.interest, l.idle, {}, l.batch)
  BY LoopUpdates DEF ProcessDestroyList, SafeLoop
<1>2. k = [m EXCEPT !.batch = <<>>]
  BY DEF LoopDestroy
<1> HIDE DEF m
<1>3. IsLoop(m) /\ m.interest = l.interest /\ m.idle = l.idle
  BY SMTT(40), <1>1, MadeLoop
<1>4. k = MakeLoop(m.interest, m.idle, m.destroy, <<>>)
  BY ZenonT(60), <1>2, <1>3, LoopUpdates
<1>5. IsLoop(k) /\ k.interest = l.interest /\ k.idle = l.idle /\ k.batch = <<>>
  BY <1>3, <1>4, MadeLoop
<1> QED BY SMTT(40), <1>5 DEF SafeLoop

LEMMA TakeEventSafe ==
  ASSUME NEW l, SafeLoop(l), l.batch # <<>>, NEW k, k = TakeEvent(l)
  PROVE  SafeLoop(k) /\ k.interest = l.interest /\ k.idle = l.idle
<1> DEFINE rest == Tail(l.batch)
<1>1. k = [l EXCEPT !.batch = rest]
  BY DEF TakeEvent
<1>2. rest \in Seq(Events) /\ \A i \in DOMAIN rest : \E j \in DOMAIN l.batch : rest[i] = l.batch[j]
  <2>1. rest \in Seq(Events)
    BY DEF SafeLoop
  <2>2. ASSUME NEW i \in DOMAIN rest
        PROVE  i + 1 \in DOMAIN l.batch /\ rest[i] = l.batch[i + 1]
    BY DEF SafeLoop
  <2> QED BY <2>1, <2>2
<1> HIDE DEF rest
<1>3. k = MakeLoop(l.interest, l.idle, l.destroy, rest)
  BY ZenonT(60), <1>1, LoopUpdates DEF SafeLoop
<1>4. k.interest = l.interest /\ k.idle = l.idle
  BY <1>3, MadeLoop
<1>5. SafeLoop(k)
  BY SMTT(40), <1>2, <1>3, StaysSafe DEF SafeLoop
<1> QED BY <1>4, <1>5

LEMMA AddIdleSafe ==
  ASSUME NEW l, SafeLoop(l), NEW s \in SyncSources, NEW k, k = AddIdle(l, s)
  PROVE  SafeLoop(k) /\ k.interest = l.interest /\ k.idle = Append(l.idle, s)
<1> DEFINE more == Append(l.idle, s)
<1>1. k = [l EXCEPT !.idle = more]
  BY DEF AddIdle
<1>2. more \in Seq(SyncSources) /\ ToSet(l.idle) \subseteq ToSet(more)
  BY SMTT(40) DEF SafeLoop, ToSet
<1> HIDE DEF more
<1>3. k = MakeLoop(l.interest, more, l.destroy, l.batch)
  BY <1>1, LoopUpdates DEF SafeLoop
<1>4. k.interest = l.interest /\ k.idle = more
  BY <1>3, MadeLoop
<1>5. SafeLoop(k)
  BY <1>2, <1>3, StaysSafe DEF SafeLoop
<1> QED BY <1>4, <1>5 DEF more

LEMMA IdleDoneSafe ==
  ASSUME NEW l, SafeLoop(l), l.idle # <<>>, NEW k, k = IdleDone(l)
  PROVE  SafeLoop(k) /\ k.interest = l.interest /\ k.idle = Tail(l.idle)
<1> DEFINE rest == Tail(l.idle)
           freed == l.destroy \cup {Head(l.idle)}
<1>1. k = [l EXCEPT !.idle = rest, !.destroy = freed]
  BY DEF IdleDone
<1>2. rest \in Seq(SyncSources)
  BY DEF SafeLoop
<1>3. DOMAIN l.interest \cup ToSet(l.idle) \cup l.destroy
        \subseteq DOMAIN l.interest \cup ToSet(rest) \cup freed
  <2> SUFFICES ASSUME NEW i \in DOMAIN l.idle
               PROVE  l.idle[i] \in ToSet(rest) \cup {Head(l.idle)}
    BY DEF ToSet
  <2>1. CASE i = 1
    BY <2>1 DEF SafeLoop
  <2>2. CASE i # 1
    <3>1. i - 1 \in DOMAIN rest /\ rest[i - 1] = l.idle[i]
      BY SMTT(40), <2>2 DEF SafeLoop
    <3> QED BY <3>1 DEF ToSet
  <2> QED BY <2>1, <2>2
<1> HIDE DEF rest, freed
<1>4. k = MakeLoop(l.interest, rest, freed, l.batch)
  BY ZenonT(60), <1>1, LoopUpdates DEF SafeLoop
<1>5. k.interest = l.interest /\ k.idle = rest
  BY <1>4, MadeLoop
<1>6. SafeLoop(k)
  BY <1>2, <1>3, <1>4, StaysSafe DEF SafeLoop
<1> QED BY <1>5, <1>6 DEF rest

(* epoll_wait() reports sources that have a descriptor, once each.         *)
LEMMA FiniteSources == IsFiniteSet(FdSources)
<1> DEFINE S == {ClientSource(c) : c \in Clients}
           f == [c \in Clients |-> ClientSource(c)]
<1>1. IsFiniteSet(Clients)
  BY NativeDisplayAssumption, FS_Interval DEF Clients
<1>2. f \in Surjection(Clients, S)
  BY DEF Surjection
<1>3. IsFiniteSet(S)
  BY <1>1, <1>2, FS_Surjection
<1>4. IsFiniteSet(S \cup {Listen}) /\ IsFiniteSet((S \cup {Listen}) \cup {Term})
  BY <1>3, FS_AddElement
<1>5. FdSources = (S \cup {Listen}) \cup {Term}
  BY DEF FdSources
<1> QED BY <1>4, <1>5

LEMMA EpollWaitSafe ==
  ASSUME NEW l, SafeLoop(l), NEW possible, \A s \in DOMAIN l.interest : possible[s] \subseteq {"R", "W", "H"},
         NEW batch \in Batches(l, possible), NEW k, k = EpollWait(l, batch)
  PROVE  SafeLoop(k) /\ k.interest = l.interest /\ k.idle = l.idle
<1> DEFINE ready == Ready(l, possible)
           reported == Min({MaxEvents, Cardinality(ready)})
<1>1. ready \subseteq DOMAIN l.interest
  BY DEF Ready
<1>2. Cardinality(ready) \in Nat
  <2>1. IsFiniteSet(ready)
    BY <1>1, FiniteSources, FS_Subset DEF SafeLoop
  <2> QED BY <2>1, FS_CardinalityType
<1>3. reported \in Nat
  BY <1>2, EventLoopAssumption DEF Min
<1>4. PICK order \in UNION {SetToSeqs(some) : some \in kSubset(reported, ready)} :
        batch = [i \in 1 .. reported |-> [source |-> order[i], mask |-> Mask(l, order[i], possible[order[i]])]]
  BY Zenon DEF Batches
<1>5. PICK some \in kSubset(reported, ready) : order \in SetToSeqs(some)
  OBVIOUS
<1>6. order \in [1 .. reported -> DOMAIN l.interest]
  <2>1. some \subseteq ready /\ Cardinality(some) = reported
    BY <1>5 DEF kSubset
  <2>2. order \in [1 .. Cardinality(some) -> some]
    BY <1>5 DEF SetToSeqs
  <2> QED BY <1>1, <2>1, <2>2
<1> HIDE DEF ready, reported
<1>7. ASSUME NEW i \in 1 .. reported
      PROVE  batch[i] \in Events /\ batch[i].source \in DOMAIN l.interest
  <2>1. order[i] \in DOMAIN l.interest
    BY <1>6
  <2>2. Mask(l, order[i], possible[order[i]]) \subseteq {"R", "W", "H"}
    BY <2>1 DEF Mask
  <2>3. batch[i] = [source |-> order[i], mask |-> Mask(l, order[i], possible[order[i]])]
    BY <1>4
  <2> QED BY <2>1, <2>2, <2>3 DEF Events, SafeLoop
<1>8. DOMAIN batch = 1 .. reported
  BY <1>4
<1>9. batch \in Seq(Events)
  <2>1. batch \in [1 .. reported -> Events]
    BY SMTT(40), <1>4, <1>7
  <2> QED BY <1>3, <2>1
<1>10. k = MakeLoop(l.interest, l.idle, l.destroy, batch)
  BY ZenonT(60), LoopUpdates DEF EpollWait, SafeLoop
<1>11. IsLoop(k) /\ k.interest = l.interest /\ k.idle = l.idle /\ k.batch = batch
  BY <1>10, MadeLoop
<1> QED BY <1>7, <1>8, <1>9, <1>11 DEF SafeLoop, HasMemory, HasFd

-----------------------------------------------------------------------------
(* What keeps the parts of the invariant.                                  *)

(* Nothing is asked or answered, and a new client has nothing pending.     *)
LEMMA SyncKept ==
  ASSUME SyncInv,
         loop'.idle = loop.idle,
         clients' \subseteq Clients,
         synced' \in [Clients -> Seq(Nat)], done' \in [Clients -> Seq(Nat)],
         \A c \in clients' : synced'[c] = synced[c] /\ done'[c] = done[c],
         \A c \in Clients \ clients' : synced'[c] = <<>> /\ done'[c] = <<>>,
         \A c \in clients' \ clients : \A i \in DOMAIN loop.idle : ~IsFor(i, c),
         \A i \in DOMAIN loop.idle : Started(loop.idle[i][2])',
         pc' \in {"out", "idle", "flush", "gone"} => loop.idle = <<>>
  PROVE  SyncInv'
<1>1. ASSUME NEW c \in Clients
      PROVE  /\ Numbered(synced'[c]) /\ Numbered(done'[c])
             /\ Len(done'[c]) <= Len(synced'[c])
  BY SMTT(40) DEF SyncInv, Numbered
<1>2. ASSUME NEW c \in clients'
      PROVE  PendingInv(c)'
  <2>1. Unanswered(c)' = Unanswered(c)
    BY DEF Unanswered
  <2>2. CASE c \in clients
    BY <2>1, <2>2 DEF SyncInv, PendingInv, IsFor
  <2>3. CASE c \notin clients
    <3>1. Unanswered(c) = {}
      BY <2>3 DEF SyncInv, Unanswered
    <3>2. \A i \in DOMAIN loop.idle : ~IsFor(i, c)
      BY <2>3
    <3> QED BY <2>1, <3>1, <3>2 DEF PendingInv, IsFor
  <2> QED BY <2>2, <2>3
<1> QED BY <1>1, <1>2 DEF SyncInv

(* No global comes or goes; registries may.                                *)
LEMMA GlobalsKept ==
  ASSUME GlobalInv,
         UNCHANGED <<globals, nextName, nativeGlobalNames>>,
         registries' \subseteq registries, registries' \subseteq clients',
         told' \in [Clients -> Knowledge],
         \A c \in registries' : told'[c] = told[c],
         \A c \in Clients \ registries' : told'[c] = NotTold,
         pc' # "gone" => pc # "gone"
  PROVE  GlobalInv'
<1>1. Names' = Names
  BY DEF Names
<1> QED BY <1>1 DEF GlobalInv, Knows

(* Sockets change and the thread goes on; clients, globals and what is     *)
(* pending stay.                                                           *)
LEMMA LoopStep ==
  ASSUME DisplayInv,
         SafeLoop(loop'), DOMAIN loop'.interest = DOMAIN loop.interest, loop'.idle = loop.idle,
         UNCHANGED <<clients, registries, globalVars, syncVars>>,
         peer' \in [Clients -> PeerStates],
         \A c \in Clients : Started(c) => Started(c)',
         current' \in [client : Clients \cup {0}, input : Seq(Requests)],
         pc' = "requests" => current'.client \in clients,
         pc' \in {"out", "idle", "flush", "gone"} => loop.idle = <<>>,
         pc' # "gone" => pc # "gone"
  PROVE  DisplayInv'
<1>1. ClientInv'
  BY DEF DisplayInv, ClientInv, HasFd
<1>2. SyncInv'
  <2>1. \A i \in DOMAIN loop.idle : loop.idle[i][2] \in Clients
    BY DEF DisplayInv, SafeLoop, SyncSources
  <2>2. \A i \in DOMAIN loop.idle : Started(loop.idle[i][2])'
    BY <2>1 DEF DisplayInv, SyncInv, Started
  <2> QED BY <2>2, SyncKept DEF DisplayInv, SyncInv, ClientInv, syncVars
<1>3. GlobalInv'
  BY GlobalsKept DEF DisplayInv, GlobalInv, globalVars
<1>4. SafeLoop(loop)'
  OBVIOUS
<1> QED BY <1>1, <1>2, <1>3, <1>4 DEF DisplayInv

LEMMA GonePeerClosed == GonePeer \in PeerStates /\ GonePeer.socket = "closed"
<1>1. NewPeer \in PeerStates
  BY DEF NewPeer, PeerStates
<1> QED BY <1>1 DEF GonePeer, PeerStates

(* wl_client_destroy(): the rest of the invariant, whatever the globals do.*)
LEMMA DestroyedKept ==
  ASSUME DisplayInv, NEW gone \in SUBSET Clients, NEW l, NEW output,
         SafeLoop(l), DOMAIN l.interest \subseteq DOMAIN loop.interest, l.idle = loop.idle,
         ClientsDestroyed(gone, l, output),
         current' \in [client : Clients \cup {0}, input : Seq(Requests)],
         pc' = "requests" => \/ current'.client \in clients \ gone
                             \/ current'.client \in usedAfterFree' /\ current'.input = <<>>,
         pc' \in {"out", "idle", "flush", "gone"} => loop.idle = <<>>
  PROVE  SafeLoop(loop') /\ ClientInv' /\ SyncInv'
<1>1. /\ SafeLoop(loop') /\ loop'.idle = loop.idle
      /\ DOMAIN loop'.interest \subseteq DOMAIN loop.interest \ {ClientSource(c) : c \in gone}
  BY SourceRemoveSafe DEF ClientsDestroyed
<1>2. /\ clients' = clients \ gone
      /\ synced' = Forget(synced, gone, <<>>) /\ done' = Forget(done, gone, <<>>)
      /\ peer' = [c \in Clients |-> IF c \in gone THEN GonePeer ELSE peer[c]]
  BY DEF ClientsDestroyed
<1>3. GonePeer \in PeerStates /\ GonePeer.socket = "closed"
  BY GonePeerClosed
<1>4. peer' \in [Clients -> PeerStates] /\ \A c \in Clients : Started(c) => Started(c)'
  <2> HIDE DEF GonePeer
  <2> QED BY <1>2, <1>3 DEF DisplayInv, ClientInv, Started
<1>5. ClientInv'
  <2>1. ASSUME NEW c \in Clients, HasFd(loop', ClientSource(c))
        PROVE  c \in clients'
    <3>1. HasFd(loop, ClientSource(c)) /\ c \notin gone
      BY <1>1, <2>1 DEF HasFd
    <3> QED BY <1>2, <3>1 DEF DisplayInv, ClientInv
  <2>2. \A c \in clients' : Started(c)'
    BY <1>2, <1>4 DEF DisplayInv, ClientInv
  <2>3. pc' = "requests" => \/ current'.client \in clients'
                            \/ current'.client \in usedAfterFree' /\ current'.input = <<>>
    BY <1>2
  <2>4. clients' \subseteq Clients
    BY <1>2 DEF DisplayInv, ClientInv
  <2> QED BY <1>4, <2>1, <2>2, <2>3, <2>4 DEF ClientInv
<1>6. SyncInv'
  <2>1. \A i \in DOMAIN loop.idle : loop.idle[i][2] \in Clients
    BY DEF DisplayInv, SafeLoop, SyncSources
  <2>2. \A i \in DOMAIN loop.idle : Started(loop.idle[i][2])'
    BY <1>1, <1>4, <2>1 DEF DisplayInv, SyncInv, Started
  <2>3. /\ synced' \in [Clients -> Seq(Nat)] /\ done' \in [Clients -> Seq(Nat)]
        /\ \A c \in clients' : synced'[c] = synced[c] /\ done'[c] = done[c]
        /\ \A c \in Clients \ clients' : synced'[c] = <<>> /\ done'[c] = <<>>
    BY <1>2 DEF DisplayInv, SyncInv, ClientInv, Forget
  <2>4. clients' \subseteq Clients /\ clients' \ clients = {}
    BY <1>2 DEF DisplayInv, ClientInv
  <2> QED BY <1>1, <2>2, <2>3, <2>4, SyncKept DEF DisplayInv
<1> QED BY <1>1, <1>5, <1>6

LEMMA DestroyedStep ==
  ASSUME DisplayInv, NEW gone \in SUBSET Clients, NEW l, NEW output,
         SafeLoop(l), DOMAIN l.interest \subseteq DOMAIN loop.interest, l.idle = loop.idle,
         ClientsDestroyed(gone, l, output),
         current' \in [client : Clients \cup {0}, input : Seq(Requests)],
         pc' = "requests" => \/ current'.client \in clients \ gone
                             \/ current'.client \in usedAfterFree' /\ current'.input = <<>>,
         pc' \in {"out", "idle", "flush", "gone"} => loop.idle = <<>>,
         UNCHANGED <<globals, nextName, nativeGlobalNames>>,
         pc' # "gone" => pc # "gone"
  PROVE  DisplayInv'
<1>1. SafeLoop(loop') /\ ClientInv' /\ SyncInv'
  BY DestroyedKept
<1>2. /\ clients' = clients \ gone /\ registries' = registries \ gone
      /\ told' = Forget(told, gone, NotTold)
  BY DEF ClientsDestroyed
<1>3. GlobalInv'
  <2>1. NotTold \in Knowledge
    BY DEF NotTold, Knowledge
  <2>2. /\ told' \in [Clients -> Knowledge]
        /\ \A c \in registries' : told'[c] = told[c]
        /\ \A c \in Clients \ registries' : told'[c] = NotTold
    BY <1>2, <2>1 DEF DisplayInv, GlobalInv, ClientInv, Forget
  <2> QED BY <1>2, <2>2, GlobalsKept DEF DisplayInv, GlobalInv
<1> QED BY <1>1, <1>3 DEF DisplayInv

-----------------------------------------------------------------------------
(* The client processes.                                                   *)

LEMMA PeersStep ==
  ASSUME DisplayInv, Peers
  PROVE  DisplayInv'
<1>1. /\ UNCHANGED <<loop, pc, current, clientVars, globalVars, syncVars>> /\ pc # "requests"
      /\ peer \in [Clients -> PeerStates] /\ ClientInv /\ SyncInv /\ SafeLoop(loop)
  BY DEF Peers, PeerConnects, PeerSends, PeerStalls, PeerReads, PeerCloses, history,
         DisplayInv, ClientInv
<1>2. PICK c \in Clients, new \in PeerStates :
        /\ peer' = [peer EXCEPT ![c] = new]
        /\ peer[c].socket \in {"open", "closed"} => new.socket \in {"open", "closed"}
  <2>1. PICK c \in Clients :
          \/ PeerConnects(c) \/ PeerStalls(c) \/ PeerReads(c) \/ PeerCloses(c)
          \/ \E r \in Requests : PeerSends(c, r)
    BY DEF Peers
  <2>2. peer[c] \in PeerStates
    BY <1>1
  <2>3. CASE PeerConnects(c)
    <3> DEFINE new == [peer[c] EXCEPT !.socket = "waiting"]
    <3>1. new \in PeerStates
      BY <2>2 DEF PeerStates
    <3>2. peer' = [peer EXCEPT ![c] = new] /\ peer[c].socket = "none"
      BY <1>1, <2>3 DEF PeerConnects
    <3> QED BY <3>1, <3>2
  <2>4. CASE PeerStalls(c)
    <3> DEFINE new == [peer[c] EXCEPT !.reading = FALSE]
    <3>1. new \in PeerStates /\ new.socket = peer[c].socket
      BY <2>2 DEF PeerStates
    <3>2. peer' = [peer EXCEPT ![c] = new]
      BY <1>1, <2>4 DEF PeerStalls
    <3> QED BY <3>1, <3>2
  <2>5. CASE PeerReads(c)
    <3> DEFINE new == [peer[c] EXCEPT !.reading = TRUE]
    <3>1. new \in PeerStates /\ new.socket = peer[c].socket
      BY <2>2 DEF PeerStates
    <3>2. peer' = [peer EXCEPT ![c] = new]
      BY <1>1, <2>5 DEF PeerReads
    <3> QED BY <3>1, <3>2
  <2>6. CASE PeerCloses(c)
    <3> DEFINE new == [peer[c] EXCEPT !.socket = "closed"]
    <3>1. new \in PeerStates /\ new.socket = "closed"
      BY <2>2 DEF PeerStates
    <3>2. peer' = [peer EXCEPT ![c] = new]
      BY <1>1, <2>6 DEF PeerCloses
    <3> QED BY <3>1, <3>2
  <2>7. CASE \E r \in Requests : PeerSends(c, r)
    <3>1. PICK r \in Requests : PeerSends(c, r)
      BY <2>7
    <3> DEFINE new == [peer[c] EXCEPT !.sent = Append(peer[c].sent, r)]
    <3>2. new \in PeerStates /\ new.socket = peer[c].socket
      BY SMTT(40), <2>2 DEF PeerStates
    <3>3. peer' = [peer EXCEPT ![c] = new]
      BY <1>1, <3>1 DEF PeerSends
    <3> QED BY <3>2, <3>3
  <2> QED BY <2>1, <2>3, <2>4, <2>5, <2>6, <2>7
<1>3. peer' \in [Clients -> PeerStates] /\ \A d \in Clients : Started(d) => Started(d)'
  BY <1>1, <1>2 DEF Started
<1> QED BY <1>1, <1>3, LoopStep DEF clientVars, ClientInv, SyncInv

-----------------------------------------------------------------------------
(* dispatchRequests().                                                     *)

LEMMA FlushClientsStep ==
  ASSUME DisplayInv, DispatchRequests \/ DispatchEnds
  PROVE  DisplayInv'
<1> DEFINE l == WatchWritable(loop, Blocked)
<1>1. SafeLoop(l) /\ DOMAIN l.interest = DOMAIN loop.interest /\ l.idle = loop.idle
  BY WatchWritableSafe DEF DisplayInv
<1>2. /\ ClientsDestroyed(Broken, l, Blocked)
      /\ pc \in {"out", "flush"} /\ pc' \in {"idle", "out"}
      /\ UNCHANGED <<current, globals, nextName, nativeGlobalNames>>
  BY DEF DispatchRequests, DispatchEnds, FlushClients
<1>3. loop.idle = <<>>
  BY <1>2 DEF DisplayInv, SyncInv
<1>4. Broken \in SUBSET Clients
  BY DEF DisplayInv, ClientInv, Broken
<1>5. current' \in [client : Clients \cup {0}, input : Seq(Requests)]
  BY <1>2 DEF DisplayInv, ClientInv
<1> HIDE DEF l
<1> QED BY <1>1, <1>2, <1>3, <1>4, <1>5, DestroyedStep

LEMMA DispatchIdleStep ==
  ASSUME DisplayInv, DispatchIdle
  PROVE  DisplayInv'
<1> DEFINE task == Head(loop.idle)
           d == task[2]
           n == task[3]
<1>1. /\ pc = "lateIdle" /\ loop.idle # <<>> /\ loop' = IdleDone(loop)
      /\ done' = IF d \notin clients THEN done ELSE [done EXCEPT ![d] = Append(@, n)]
      /\ UNCHANGED <<pc, current, peer, clients, registries, globalVars, synced>>
  BY DEF DispatchIdle, clientVars, DisplayInv, SyncInv
<1>2. SafeLoop(loop') /\ loop'.interest = loop.interest /\ loop'.idle = Tail(loop.idle)
  BY <1>1, IdleDoneSafe DEF DisplayInv
<1>3. /\ loop.idle \in Seq(SyncSources) /\ loop'.idle \in Seq(SyncSources)
      /\ 1 \in DOMAIN loop.idle /\ task = loop.idle[1]
      /\ DOMAIN loop'.idle = 1 .. Len(loop.idle) - 1
      /\ \A i \in DOMAIN loop'.idle : i + 1 \in DOMAIN loop.idle /\ loop'.idle[i] = loop.idle[i + 1]
      /\ \A i \in DOMAIN loop.idle : i # 1 => 1 < i /\ i - 1 \in DOMAIN loop'.idle
  BY <1>1, <1>2 DEF DisplayInv, SafeLoop
<1>4. d \in Clients /\ n \in Nat
  BY <1>3 DEF SyncSources
<1>5. SyncInv /\ ClientInv
  BY DEF DisplayInv
<1> HIDE DEF d, n, task
<1>6. ClientInv'
  BY <1>1, <1>2, <1>5 DEF ClientInv, HasFd, Started
<1>7. GlobalInv'
  BY <1>1, GlobalsKept DEF DisplayInv, GlobalInv, globalVars
<1>8. ASSUME d \in clients
      PROVE  n = Len(done[d]) + 1 /\ n <= Len(synced[d])
  <2>1. IsFor(1, d) /\ loop.idle[1][3] = n
    BY <1>3 DEF IsFor, d, n
  <2>2. n \in Unanswered(d) /\ PendingInv(d)
    BY <1>3, <1>5, <1>8, <2>1 DEF SyncInv, PendingInv
  <2>3. Len(done[d]) \in Nat /\ Len(synced[d]) \in Nat
    BY <1>4, <1>5 DEF SyncInv
  <2>4. Len(done[d]) + 1 \in Unanswered(d)
    BY <2>2, <2>3 DEF Unanswered
  <2>5. PICK i \in DOMAIN loop.idle : IsFor(i, d) /\ loop.idle[i][3] = Len(done[d]) + 1
    BY <2>2, <2>4 DEF PendingInv
  <2>6. ASSUME i # 1
        PROVE  n < Len(done[d]) + 1
    <3>1. 1 < i /\ 1 \in DOMAIN loop.idle
      BY <1>3, <2>6
    <3> QED BY <2>1, <2>2, <2>5, <3>1 DEF PendingInv
  <2> QED BY <2>1, <2>2, <2>3, <2>5, <2>6 DEF Unanswered
<1>9. /\ done' \in [Clients -> Seq(Nat)]
      /\ d \in clients => Len(done'[d]) = n /\ Numbered(done'[d])
      /\ \A c \in Clients : c # d \/ d \notin clients => done'[c] = done[c]
  <2>1. CASE d \notin clients
    BY <1>1, <1>5, <2>1 DEF SyncInv
  <2>2. CASE d \in clients
    <3> DEFINE more == Append(done[d], n)
    <3>1. done[d] \in Seq(Nat) /\ Numbered(done[d])
      BY <1>4, <1>5 DEF SyncInv
    <3>2. more \in Seq(Nat) /\ Len(more) = n
      BY <1>4, <1>8, <2>2, <3>1
    <3>3. Numbered(more)
      BY <1>4, <1>8, <2>2, <3>1 DEF Numbered
    <3> HIDE DEF more
    <3>4. done' = [done EXCEPT ![d] = more]
      BY <1>1, <2>2 DEF more
    <3>5. /\ done' \in [Clients -> Seq(Nat)] /\ done'[d] = more
          /\ \A c \in Clients : c # d => done'[c] = done[c]
      BY <1>4, <1>5, <3>2, <3>4 DEF SyncInv
    <3> QED BY <2>2, <3>2, <3>3, <3>5
  <2> QED BY <2>1, <2>2
<1>10. ASSUME NEW c \in clients'
       PROVE  PendingInv(c)'
  <2>1. c \in clients /\ c \in Clients /\ PendingInv(c)
    BY <1>1, <1>5 DEF SyncInv, ClientInv
  <2>2. /\ Len(done[c]) \in Nat /\ Len(synced[c]) \in Nat /\ synced' = synced
        /\ Unanswered(c)' = IF c = d THEN Unanswered(c) \ {n} ELSE Unanswered(c)
    <3>1. Len(done[c]) \in Nat /\ Len(synced[c]) \in Nat /\ synced' = synced
      BY <1>1, <1>5, <2>1 DEF SyncInv
    <3>2. CASE c = d
      <4>1. n = Len(done[c]) + 1 /\ Len(done'[c]) = n
        BY <1>8, <1>9, <2>1, <3>2
      <4> QED BY <3>1, <3>2, <4>1 DEF Unanswered
    <3>3. CASE c # d
      BY <1>9, <2>1, <3>1, <3>3 DEF Unanswered
    <3> QED BY <3>1, <3>2, <3>3
  <2>3. IsFor(1, c) <=> c = d
    BY <1>3 DEF IsFor, d
  <2>4. \A i \in DOMAIN loop'.idle : IsFor(i, c)' <=> IsFor(i + 1, c)
    BY <1>3 DEF IsFor
  <2>5. ASSUME NEW i \in DOMAIN loop'.idle, IsFor(i, c)'
        PROVE  loop'.idle[i][3] \in Unanswered(c)'
    <3>1. IsFor(i + 1, c) /\ loop'.idle[i][3] = loop.idle[i + 1][3] /\ i + 1 > 1
      BY <1>3, <2>4, <2>5
    <3>2. loop.idle[i + 1][3] \in Unanswered(c)
      BY <1>3, <2>1, <3>1 DEF PendingInv
    <3>3. c = d => n < loop.idle[i + 1][3]
      <4>1. c = d => IsFor(1, c) /\ loop.idle[1][3] = n
        BY <1>3, <2>3 DEF n
      <4> QED BY <1>3, <2>1, <3>1, <4>1 DEF PendingInv
    <3> QED BY <1>4, <2>2, <3>1, <3>2, <3>3
  <2>6. ASSUME NEW m \in Unanswered(c)'
        PROVE  \E i \in DOMAIN loop'.idle : IsFor(i, c)' /\ loop'.idle[i][3] = m
    <3>1. m \in Unanswered(c) /\ (c = d => m # n)
      BY <2>2
    <3>2. PICK i \in DOMAIN loop.idle : IsFor(i, c) /\ loop.idle[i][3] = m
      BY <2>1, <3>1 DEF PendingInv
    <3>3. i # 1
      BY <1>3, <2>3, <3>1, <3>2 DEF n
    <3>4. i - 1 \in DOMAIN loop'.idle /\ loop'.idle[i - 1] = loop.idle[i]
      BY <1>3, <3>3
    <3> QED BY <3>2, <3>4 DEF IsFor
  <2>7. ASSUME NEW i \in DOMAIN loop'.idle, NEW j \in DOMAIN loop'.idle,
               i < j, IsFor(i, c)', IsFor(j, c)'
        PROVE  loop'.idle[i][3] < loop'.idle[j][3]
    <3>1. i + 1 \in DOMAIN loop.idle /\ j + 1 \in DOMAIN loop.idle /\ i + 1 < j + 1
      BY <1>3, <2>7
    <3> QED BY ZenonT(60), <1>3, <2>1, <2>4, <2>7, <3>1 DEF PendingInv
  <2> QED BY <2>5, <2>6, <2>7 DEF PendingInv
<1>11. SyncInv'
  <2>1. \A c \in Clients : /\ Numbered(synced'[c]) /\ Numbered(done'[c])
                           /\ Len(done'[c]) <= Len(synced'[c])
    BY <1>1, <1>4, <1>5, <1>8, <1>9 DEF SyncInv
  <2>2. \A c \in Clients \ clients' : synced'[c] = <<>> /\ done'[c] = <<>>
    BY <1>1, <1>5, <1>9 DEF SyncInv
  <2>3. (\A i \in DOMAIN loop.idle : Started(loop.idle[i][2]))'
    BY <1>1, <1>3, <1>5 DEF SyncInv, Started
  <2>4. synced' \in [Clients -> Seq(Nat)]
    BY <1>1, <1>5 DEF SyncInv
  <2>5. pc' \notin {"out", "idle", "flush", "gone"}
    BY <1>1
  <2> QED BY <1>9, <1>10, <2>1, <2>2, <2>3, <2>4, <2>5 DEF SyncInv
<1> QED BY <1>2, <1>6, <1>7, <1>11 DEF DisplayInv

(* epoll_wait(), the events that are skipped and the end of the dispatch.  *)
LEMMA DispatchStep ==
  ASSUME DisplayInv, WaitForEvents \/ WaitFails \/ SkipEvent \/ EventsDone \/ LateIdleDone
  PROVE  DisplayInv'
<1>1. /\ SafeLoop(loop) /\ ClientInv /\ SyncInv
      /\ UNCHANGED <<current, peer, clients, registries, globalVars, syncVars>>
      /\ pc' \in {"events", "flush", "lateIdle"} /\ (pc' = "flush" => loop.idle = <<>>)
      /\ pc # "gone"
  BY DEF DisplayInv, WaitForEvents, WaitFails, SkipEvent, EventsDone, LateIdleDone, clientVars
<1>2. SafeLoop(loop') /\ DOMAIN loop'.interest = DOMAIN loop.interest /\ loop'.idle = loop.idle
  <2>1. CASE WaitForEvents
    <3>1. PICK batch \in Batches(loop, Possible) : loop' = EpollWait(loop, batch)
      BY <2>1 DEF WaitForEvents
    <3>2. \A s \in DOMAIN loop.interest : Possible[s] \subseteq {"R", "W", "H"}
      BY DEF Possible
    <3> QED BY <1>1, <3>1, <3>2, EpollWaitSafe
  <2>2. CASE WaitFails \/ LateIdleDone
    BY <1>1, <2>2 DEF WaitFails, LateIdleDone
  <2>3. CASE SkipEvent
    BY <1>1, <2>3, TakeEventSafe DEF SkipEvent
  <2>4. CASE EventsDone
    BY <1>1, <2>4, ProcessDestroyListSafe DEF EventsDone
  <2> QED BY <2>1, <2>2, <2>3, <2>4
<1> QED BY <1>1, <1>2, LoopStep DEF ClientInv, Started

LEMMA AcceptClientStep ==
  ASSUME DisplayInv, NEW c \in Clients, NEW callbacks, AcceptClient(c, callbacks)
  PROVE  DisplayInv'
<1>1. /\ SafeLoop(loop) /\ ClientInv /\ SyncInv /\ GlobalInv
      /\ pc = "events" /\ loop.batch # <<>>
      /\ peer[c].socket = "waiting"
      /\ peer' = [peer EXCEPT ![c].socket = "open"]
      /\ loop' = AddFd(TakeEvent(loop), ClientSource(c), {"R"})
      /\ clients' = clients \cup {c}
      /\ UNCHANGED <<pc, current, registries, globalVars, syncVars>>
  BY DEF DisplayInv, AcceptClient, HandlerOf, Waiting, ClientCreate
<1>2. /\ SafeLoop(loop') /\ loop'.idle = loop.idle
      /\ DOMAIN loop'.interest = DOMAIN loop.interest \cup {ClientSource(c)}
  <2>1. PICK l : l = TakeEvent(loop)
    OBVIOUS
  <2>2. SafeLoop(l) /\ l.interest = loop.interest /\ l.idle = loop.idle
    BY <1>1, <2>1, TakeEventSafe
  <2>3. ClientSource(c) \in FdSources
    BY DEF FdSources
  <2>4. loop' = AddFd(l, ClientSource(c), {"R"})
    BY <1>1, <2>1
  <2> QED BY <2>2, <2>3, <2>4, AddFdSafe
<1>3. /\ peer' \in [Clients -> PeerStates] /\ Started(c)' /\ ~Started(c)
      /\ \A d \in Clients : d # c => peer'[d] = peer[d]
  <2> DEFINE new == [peer[c] EXCEPT !.socket = "open"]
  <2>1. new \in PeerStates /\ new.socket = "open"
    BY <1>1 DEF ClientInv, PeerStates
  <2>2. peer' = [peer EXCEPT ![c] = new] /\ peer \in [Clients -> PeerStates]
    BY <1>1 DEF ClientInv
  <2> HIDE DEF new
  <2> QED BY <1>1, <2>1, <2>2 DEF Started
<1>4. ClientInv'
  <2>1. ASSUME NEW d \in Clients, HasFd(loop', ClientSource(d))
        PROVE  d \in clients'
    <3>1. HasFd(loop, ClientSource(d)) \/ ClientSource(d) = ClientSource(c)
      BY <1>2, <2>1 DEF HasFd
    <3> QED BY <1>1, <3>1 DEF ClientInv, ClientSource
  <2>2. \A d \in clients' : Started(d)'
    BY <1>1, <1>3 DEF ClientInv, Started
  <2> QED BY <1>1, <1>3, <2>1, <2>2 DEF ClientInv
<1>5. SyncInv'
  <2>1. \A i \in DOMAIN loop.idle : loop.idle[i][2] \in Clients
    BY <1>1 DEF SafeLoop, SyncSources
  <2>2. (\A i \in DOMAIN loop.idle : Started(loop.idle[i][2]))'
    BY <1>1, <1>2, <1>3, <2>1 DEF SyncInv, Started
  <2>3. \A i \in DOMAIN loop.idle : ~IsFor(i, c)
    BY <1>1, <1>3 DEF SyncInv, IsFor
  <2>4. c \notin clients
    BY <1>1, <1>3 DEF ClientInv
  <2> QED BY <1>1, <1>2, <2>2, <2>3, <2>4, SyncKept DEF SyncInv, ClientInv, syncVars
<1>6. GlobalInv'
  BY <1>1, GlobalsKept DEF GlobalInv, globalVars
<1> QED BY <1>2, <1>4, <1>5, <1>6 DEF DisplayInv

LEMMA AcceptFailsStep ==
  ASSUME DisplayInv, NEW c \in Clients, AcceptFails(c)
  PROVE  DisplayInv'
<1>1. /\ SafeLoop(loop) /\ ClientInv /\ pc = "events" /\ loop.batch # <<>>
      /\ loop' = TakeEvent(loop)
      /\ peer' = [peer EXCEPT ![c] = GonePeer]
      /\ UNCHANGED <<pc, current, clients, registries, globalVars, syncVars>>
  BY DEF DisplayInv, AcceptFails, HandlerOf, clientVars
<1>2. SafeLoop(loop') /\ DOMAIN loop'.interest = DOMAIN loop.interest /\ loop'.idle = loop.idle
  BY <1>1, TakeEventSafe
<1>3. peer' \in [Clients -> PeerStates] /\ \A d \in Clients : Started(d) => Started(d)'
  BY <1>1, GonePeerClosed DEF ClientInv, Started
<1> QED BY <1>1, <1>2, <1>3, LoopStep DEF ClientInv

LEMMA ConnectionLostStep ==
  ASSUME DisplayInv, NEW c \in Clients, ConnectionLost(c)
  PROVE  DisplayInv'
<1>1. /\ SafeLoop(loop) /\ ClientInv /\ pc = "events" /\ loop.batch # <<>>
      /\ UNCHANGED <<pc, current, globals, nextName, nativeGlobalNames>>
  BY DEF DisplayInv, ConnectionLost, HandlerOf
<1>2. PICK l : l = TakeEvent(loop)
  OBVIOUS
<1>3. ClientsDestroyed({c}, l, out)
  BY <1>2 DEF ConnectionLost
<1>4. SafeLoop(l) /\ l.interest = loop.interest /\ l.idle = loop.idle
  BY <1>1, <1>2, TakeEventSafe
<1> QED BY <1>1, <1>3, <1>4, DestroyedStep DEF ClientInv

LEMMA ConnectionDataStep ==
  ASSUME DisplayInv, NEW c \in Clients, ConnectionData(c)
  PROVE  DisplayInv'
<1>1. /\ SafeLoop(loop) /\ ClientInv /\ pc = "events" /\ loop.batch # <<>>
      /\ HasFd(loop, ClientSource(c)) /\ c \in clients
      /\ UNCHANGED <<clients, registries, globalVars, syncVars>>
  BY DEF DisplayInv, ClientInv, ConnectionData, HandlerOf, IsDispatched
<1>2. PICK l : l = TakeEvent(loop)
  OBVIOUS
<1>3. \/ loop' = l
      \/ loop' = FdUpdate(l, ClientSource(c), {"R"})
  BY <1>2 DEF ConnectionData
<1>4. SafeLoop(l) /\ l.interest = loop.interest /\ l.idle = loop.idle
  BY <1>1, <1>2, TakeEventSafe
<1>5. SafeLoop(loop') /\ DOMAIN loop'.interest = DOMAIN loop.interest /\ loop'.idle = loop.idle
  BY <1>3, <1>4, FdUpdateSafe
<1>6. \/ UNCHANGED <<current, peer, pc>>
      \/ /\ current' = [client |-> c, input |-> peer[c].sent]
         /\ peer' = [peer EXCEPT ![c].sent = <<>>]
         /\ pc' = "requests"
  BY DEF ConnectionData
<1>7. CASE UNCHANGED <<current, peer, pc>>
  BY <1>1, <1>5, <1>7, LoopStep DEF ClientInv, Started
<1>8. CASE /\ current' = [client |-> c, input |-> peer[c].sent]
           /\ peer' = [peer EXCEPT ![c].sent = <<>>]
           /\ pc' = "requests"
  <2> DEFINE new == [peer[c] EXCEPT !.sent = <<>>]
  <2>1. peer[c] \in PeerStates
    BY <1>1 DEF ClientInv
  <2>2. new \in PeerStates /\ new.socket = peer[c].socket /\ peer[c].sent \in Seq(Requests)
    <3>1. \A sent \in Seq(Requests) :
            LET p == [peer[c] EXCEPT !.sent = sent]
            IN  p \in PeerStates /\ p.socket = peer[c].socket
      BY <2>1 DEF PeerStates
    <3>2. <<>> \in Seq(Requests) /\ peer[c].sent \in Seq(Requests)
      BY <2>1 DEF PeerStates
    <3> QED BY <3>1, <3>2
  <2>3. peer' = [peer EXCEPT ![c] = new]
    BY <1>1, <1>8 DEF ClientInv
  <2> HIDE DEF new
  <2>4. peer' \in [Clients -> PeerStates] /\ \A d \in Clients : Started(d) => Started(d)'
    BY <1>1, <2>2, <2>3 DEF ClientInv, Started
  <2>5. current' \in [client : Clients \cup {0}, input : Seq(Requests)] /\ current'.client = c
    BY <1>8, <2>2
  <2> QED BY <1>1, <1>5, <1>8, <2>4, <2>5, LoopStep
<1> QED BY <1>6, <1>7, <1>8

-----------------------------------------------------------------------------
(* The requests of a client.                                               *)

LEMMA NextRequestKeeps ==
  ASSUME DisplayInv, NEW c \in Clients, NextRequest(c)
  PROVE  /\ current' \in [client : Clients \cup {0}, input : Seq(Requests)]
         /\ current'.client = c /\ c \in clients /\ pc = "requests"
<1>1. /\ current \in [client : Clients \cup {0}, input : Seq(Requests)]
      /\ current.input # <<>> /\ current.client = c /\ pc = "requests" /\ c \in clients
      /\ current' = [current EXCEPT !.input = Tail(@)]
  BY DEF DisplayInv, ClientInv, NextRequest, HasRequest
<1>2. Tail(current.input) \in Seq(Requests)
  BY <1>1
<1> QED BY <1>1, <1>2

(* Requests that change nothing here, or only the errors of the client.    *)
LEMMA PlainRequestStep ==
  ASSUME DisplayInv, NEW c \in Clients, BrowserRequest(c) \/ RegistryBind(c) \/ RequestFails(c)
  PROVE  DisplayInv'
<1>1. /\ NextRequest(c)
      /\ UNCHANGED <<loop, pc, peer, clients, registries, globalVars, syncVars>>
  BY DEF BrowserRequest, RegistryBind, RequestFails, Request, clientVars
<1>2. /\ current' \in [client : Clients \cup {0}, input : Seq(Requests)]
      /\ current'.client = c /\ c \in clients /\ pc = "requests"
  BY <1>1, NextRequestKeeps
<1> QED BY <1>1, <1>2, LoopStep DEF DisplayInv, ClientInv, Started

LEMMA BrowserDestroysStep ==
  ASSUME DisplayInv, NEW c \in Clients, NEW d \in Clients, BrowserDestroys(c, d)
  PROVE  DisplayInv'
<1>1. /\ NextRequest(c) /\ d # c /\ ClientsDestroyed({d}, loop, out)
      /\ UNCHANGED <<pc, globals, nextName, nativeGlobalNames>>
  BY DEF BrowserDestroys, Request
<1>2. /\ current' \in [client : Clients \cup {0}, input : Seq(Requests)]
      /\ current'.client = c /\ c \in clients /\ pc = "requests"
  BY <1>1, NextRequestKeeps
<1> QED BY <1>1, <1>2, DestroyedStep DEF DisplayInv

(* The handler of a client that its own callback destroyed reads no more.  *)
LEMMA BrowserDestroysSelfStep ==
  ASSUME DisplayInv, NEW c \in Clients, BrowserDestroysSelf(c)
  PROVE  DisplayInv'
<1>1. /\ pc = "requests" /\ current.client = c
      /\ current \in [client : Clients \cup {0}, input : Seq(Requests)]
      /\ current' = [current EXCEPT !.input = <<>>]
      /\ c \in usedAfterFree'
      /\ ClientsDestroyed({c}, loop, out)
      /\ UNCHANGED <<pc, globals, nextName, nativeGlobalNames>>
  BY DEF BrowserDestroysSelf, HasRequest, DisplayInv, ClientInv
<1>2. /\ current' \in [client : Clients \cup {0}, input : Seq(Requests)]
      /\ current'.client = c /\ current'.input = <<>>
  <2>1. \A input \in Seq(Requests) :
          LET new == [current EXCEPT !.input = input]
          IN  /\ new \in [client : Clients \cup {0}, input : Seq(Requests)]
              /\ new.client = current.client /\ new.input = input
    BY <1>1
  <2>2. <<>> \in Seq(Requests)
    OBVIOUS
  <2> QED BY <1>1, <2>1, <2>2
<1> QED BY <1>1, <1>2, DestroyedStep DEF DisplayInv

LEMMA RequestsDoneStep ==
  ASSUME DisplayInv, NEW c \in Clients, RequestsDone(c)
  PROVE  DisplayInv'
<1>1. /\ pc = "requests" /\ pc' = "events" /\ current' = Nobody
      /\ UNCHANGED <<loop, peer, clients, registries, globalVars, syncVars>>
  BY DEF RequestsDone, clientVars
<1>2. current' \in [client : Clients \cup {0}, input : Seq(Requests)]
  BY <1>1 DEF Nobody
<1> QED BY <1>1, <1>2, LoopStep DEF DisplayInv, ClientInv, Started

LEMMA DestroyClientWithErrorStep ==
  ASSUME DisplayInv, NEW c \in Clients, DestroyClientWithError(c)
  PROVE  DisplayInv'
<1>1. /\ pc = "requests" /\ pc' = "events" /\ current' = Nobody
      /\ ClientsDestroyed({c}, loop, out)
      /\ UNCHANGED <<globals, nextName, nativeGlobalNames>>
  BY DEF DestroyClientWithError
<1>2. current' \in [client : Clients \cup {0}, input : Seq(Requests)]
  BY <1>1 DEF Nobody
<1> QED BY <1>1, <1>2, DestroyedStep DEF DisplayInv

(* display_sync(): a source at the end of the idle list.                   *)
LEMMA DisplaySyncStep ==
  ASSUME DisplayInv, NEW c \in Clients, DisplaySync(c)
  PROVE  DisplayInv'
<1> DEFINE n == Len(synced[c]) + 1
<1>1. /\ SafeLoop(loop) /\ ClientInv /\ SyncInv
      /\ NextRequest(c)
      /\ synced' = [synced EXCEPT ![c] = Append(@, n)]
      /\ loop' = AddIdle(loop, SyncSource(c, n))
      /\ UNCHANGED <<pc, peer, clients, registries, globalVars, done>>
  BY DEF DisplayInv, DisplaySync, Request, clientVars
<1>2. /\ current' \in [client : Clients \cup {0}, input : Seq(Requests)]
      /\ current'.client = c /\ c \in clients /\ pc = "requests"
  BY <1>1, NextRequestKeeps
<1>3. n \in Nat \ {0} /\ Len(synced[c]) \in Nat /\ n = Len(synced[c]) + 1
  BY <1>1 DEF SyncInv
<1>4. SyncSource(c, n) \in SyncSources /\ SyncSource(c, n)[2] = c /\ SyncSource(c, n)[3] = n
  BY <1>3 DEF SyncSource, SyncSources
<1>5. /\ synced' \in [Clients -> Seq(Nat)]
      /\ Numbered(synced'[c]) /\ Len(synced'[c]) = n
      /\ \A d \in Clients : d # c => synced'[d] = synced[d]
  <2> DEFINE more == Append(synced[c], n)
  <2>1. synced[c] \in Seq(Nat) /\ Numbered(synced[c])
    BY <1>1 DEF SyncInv
  <2>2. more \in Seq(Nat) /\ Len(more) = n
    BY <1>3, <2>1
  <2>3. Numbered(more)
    BY <1>3, <2>1 DEF Numbered
  <2>4. synced' = [synced EXCEPT ![c] = more]
    BY <1>1
  <2> HIDE DEF more, n
  <2>5. /\ synced' \in [Clients -> Seq(Nat)] /\ synced'[c] = more
        /\ \A d \in Clients : d # c => synced'[d] = synced[d]
    BY <1>1, <2>2, <2>4 DEF SyncInv
  <2> QED BY <2>2, <2>3, <2>5
<1>6. /\ SafeLoop(loop') /\ loop'.interest = loop.interest
      /\ loop'.idle = Append(loop.idle, SyncSource(c, n))
  <2> HIDE DEF n
  <2> QED BY <1>1, <1>4, AddIdleSafe
<1>7. PICK end \in Nat :
      /\ DOMAIN loop'.idle = DOMAIN loop.idle \cup {end}
      /\ loop'.idle[end] = SyncSource(c, n)
      /\ \A i \in DOMAIN loop.idle : i < end /\ i \in Nat /\ loop'.idle[i] = loop.idle[i]
  <2>1. loop.idle \in Seq(SyncSources)
    BY <1>1 DEF SafeLoop
  <2> HIDE DEF n
  <2> WITNESS Len(loop.idle) + 1 \in Nat
  <2> QED BY <1>4, <1>6, <2>1
<1> HIDE DEF n
<1>8. ASSUME NEW d \in clients'
      PROVE  PendingInv(d)'
  <2>1. d \in clients /\ d \in Clients /\ PendingInv(d)
    BY <1>1, <1>8 DEF SyncInv, ClientInv
  <2>2. /\ Len(done[d]) \in Nat /\ Len(synced[d]) \in Nat /\ Len(done[d]) <= Len(synced[d])
        /\ done' = done
    BY <1>1, <2>1 DEF SyncInv
  <2>3. Unanswered(d)' = IF d = c THEN Unanswered(d) \cup {n} ELSE Unanswered(d)
    <3>1. CASE d = c
      BY <1>3, <1>5, <2>2, <3>1 DEF Unanswered
    <3>2. CASE d # c
      BY <1>5, <2>1, <2>2, <3>2 DEF Unanswered
    <3> QED BY <3>1, <3>2
  <2>4. /\ IsFor(end, d)' <=> d = c
        /\ loop'.idle[end][3] = n
        /\ \A i \in DOMAIN loop.idle : IsFor(i, d)' <=> IsFor(i, d)
    BY <1>4, <1>7 DEF IsFor
  <2>5. ASSUME NEW i \in DOMAIN loop'.idle, IsFor(i, d)'
        PROVE  loop'.idle[i][3] \in Unanswered(d)'
    BY <1>7, <2>1, <2>3, <2>4, <2>5 DEF PendingInv
  <2>6. ASSUME NEW m \in Unanswered(d)'
        PROVE  \E i \in DOMAIN loop'.idle : IsFor(i, d)' /\ loop'.idle[i][3] = m
    <3>1. CASE d = c /\ m = n
      BY <1>7, <2>4, <3>1
    <3>2. CASE m \in Unanswered(d)
      <4>1. PICK i \in DOMAIN loop.idle : IsFor(i, d) /\ loop.idle[i][3] = m
        BY <2>1, <3>2 DEF PendingInv
      <4> QED BY <1>7, <2>4, <4>1
    <3> QED BY <2>3, <3>1, <3>2
  <2>7. ASSUME NEW i \in DOMAIN loop'.idle, NEW j \in DOMAIN loop'.idle,
               i < j, IsFor(i, d)', IsFor(j, d)'
        PROVE  loop'.idle[i][3] < loop'.idle[j][3]
    <3>1. i \in DOMAIN loop.idle
      BY <1>7, <2>7
    <3>2. IsFor(i, d) /\ loop'.idle[i][3] = loop.idle[i][3] /\ loop.idle[i][3] \in Unanswered(d)
      BY <1>7, <2>1, <2>4, <2>7, <3>1 DEF PendingInv
    <3>3. CASE j = end
      <4>1. d = c /\ loop'.idle[j][3] = n
        BY <2>4, <2>7, <3>3
      <4> QED BY <1>3, <2>2, <3>2, <4>1 DEF Unanswered
    <3>4. CASE j # end
      <4>1. j \in DOMAIN loop.idle /\ IsFor(j, d) /\ loop'.idle[j][3] = loop.idle[j][3]
        BY <1>7, <2>4, <2>7, <3>4
      <4> QED BY <2>1, <2>7, <3>1, <3>2, <4>1 DEF PendingInv
    <3> QED BY <3>3, <3>4
  <2> QED BY <2>5, <2>6, <2>7 DEF PendingInv
<1>9. SyncInv'
  <2>1. \A d \in Clients : /\ Numbered(synced'[d]) /\ Numbered(done'[d])
                           /\ Len(done'[d]) <= Len(synced'[d])
    <3> SUFFICES ASSUME NEW d \in Clients
                 PROVE  /\ Numbered(synced'[d]) /\ Numbered(done'[d])
                        /\ Len(done'[d]) <= Len(synced'[d])
      OBVIOUS
    <3>1. /\ Numbered(done[d]) /\ Numbered(synced[d]) /\ Len(done[d]) <= Len(synced[d])
          /\ done[d] \in Seq(Nat) /\ done' = done
      BY <1>1 DEF SyncInv
    <3>2. CASE d = c
      <4>1. Len(done[d]) \in Nat
        BY <3>1
      <4> QED BY <1>3, <1>5, <3>1, <3>2, <4>1
    <3>3. CASE d # c
      BY <1>5, <3>1, <3>3
    <3> QED BY <3>2, <3>3
  <2>2. \A d \in Clients \ clients' : synced'[d] = <<>> /\ done'[d] = <<>>
    BY <1>1, <1>2, <1>5 DEF SyncInv
  <2>3. (\A i \in DOMAIN loop.idle : Started(loop.idle[i][2]))'
    BY SMTT(40), <1>1, <1>2, <1>4, <1>7 DEF SyncInv, ClientInv, Started
  <2>4. done' \in [Clients -> Seq(Nat)] /\ pc' \notin {"out", "idle", "flush", "gone"}
    BY <1>1, <1>2 DEF SyncInv
  <2> QED BY <1>5, <1>8, <2>1, <2>2, <2>3, <2>4 DEF SyncInv
<1>10. ClientInv'
  BY <1>1, <1>2, <1>6 DEF ClientInv, HasFd, Started
<1>11. GlobalInv'
  BY <1>1, GlobalsKept DEF DisplayInv, GlobalInv, globalVars
<1> QED BY <1>6, <1>9, <1>10, <1>11 DEF DisplayInv

-----------------------------------------------------------------------------
(* Registries and globals.                                                 *)

LEMMA NotToldKnows == NotTold \in Knowledge /\ Knows(NotTold)
<1>1. NotTold \in Knowledge /\ NotTold.known = {} /\ NotTold.removed = {}
  BY DEF NotTold, Knowledge
<1>2. NotTold.emitted = FALSE
  BY DEF NotTold
<1>3. ~NotTold.emitted
  BY <1>2, Zenon
<1> QED BY <1>1, <1>3 DEF Knows

LEMMA AllKnow ==
  ASSUME GlobalInv, NEW c \in Clients
  PROVE  told[c] \in Knowledge /\ Knows(told[c])
<1>1. CASE c \in registries
  BY <1>1 DEF GlobalInv
<1>2. CASE c \notin registries
  BY <1>2, NotToldKnows DEF GlobalInv
<1> QED BY <1>1, <1>2

LEMMA NamesAreNumbers ==
  ASSUME GlobalInv
  PROVE  Names \subseteq Nat /\ \A i \in DOMAIN globals : globals[i].name \in Nat
<1>1. ASSUME NEW i \in DOMAIN globals
      PROVE  globals[i].name \in Nat
  <2>1. globals[i] \in Globals
    BY DEF GlobalInv
  <2> QED BY <2>1 DEF Globals
<1> QED BY <1>1 DEF Names, ToSet

(* A registry is created or told of all globals.                           *)
LEMMA EmitKept ==
  ASSUME GlobalInv, clients \subseteq Clients, NEW c \in clients,
         UNCHANGED <<globals, nextName, nativeGlobalNames, clients, pc>>,
         registries' = registries \cup {c},
         told' = told \/ told' = Emitted(c)
  PROVE  GlobalInv'
<1>1. Names' = Names /\ Names \subseteq Nat
  BY NamesAreNumbers DEF Names
<1>2. \A k : Knows(k)' <=> Knows(k)
  BY <1>1 DEF Knows
<1>3. /\ told' \in [Clients -> Knowledge] /\ Knows(told'[c])
      /\ \A d \in Clients : d # c => told'[d] = told[d]
  <2>1. told \in [Clients -> Knowledge] /\ told[c] \in Knowledge /\ Knows(told[c])
    BY AllKnow DEF GlobalInv
  <2>2. CASE told' = told
    BY <2>1, <2>2
  <2>3. CASE told' = Emitted(c)
    <3> DEFINE new == [told[c] EXCEPT !.emitted = TRUE, !.known = @ \cup Names]
    <3>1. new \in Knowledge /\ new.known = told[c].known \cup Names /\ new.removed = told[c].removed
      BY <1>1, <2>1 DEF Knowledge
    <3>2. Knows(new)
      BY <2>1, <3>1 DEF Knows
    <3>3. told' = [told EXCEPT ![c] = new]
      BY <2>1, <2>3 DEF Emitted
    <3> HIDE DEF new
    <3> QED BY <2>1, <3>1, <3>2, <3>3
  <2> QED BY <2>2, <2>3
<1> QED BY <1>1, <1>2, <1>3 DEF GlobalInv

LEMMA DisplayGetRegistryStep ==
  ASSUME DisplayInv, NEW c \in Clients, DisplayGetRegistry(c)
  PROVE  DisplayInv'
<1>1. /\ NextRequest(c)
      /\ registries' = registries \cup {c}
      /\ told' = told \/ told' = Emitted(c)
      /\ UNCHANGED <<loop, pc, peer, clients, globals, nextName, nativeGlobalNames, syncVars>>
  BY DEF DisplayGetRegistry, Request, OnRegistryCreated
<1>2. /\ current' \in [client : Clients \cup {0}, input : Seq(Requests)]
      /\ current'.client = c /\ c \in clients /\ pc = "requests"
  BY <1>1, NextRequestKeeps
<1>3. GlobalInv'
  BY <1>1, <1>2, EmitKept DEF DisplayInv, ClientInv
<1>4. ClientInv'
  BY <1>1, <1>2 DEF DisplayInv, ClientInv, HasFd, Started
<1>5. SyncInv'
  BY SMTT(40), <1>1 DEF DisplayInv, SyncInv, PendingInv, Unanswered, IsFor, Started, syncVars
<1> QED BY <1>1, <1>3, <1>4, <1>5 DEF DisplayInv

(* What a call of the addon leaves alone.                                  *)
LEMMA CallKeeps ==
  ASSUME DisplayInv, UNCHANGED <<loop, pc, current, peer, clients, syncVars, usedAfterFree>>
  PROVE  SafeLoop(loop)' /\ ClientInv' /\ SyncInv'
<1>1. ClientInv'
  BY DEF DisplayInv, ClientInv, HasFd, Started
<1>2. SyncInv'
  BY SMTT(40) DEF DisplayInv, SyncInv, PendingInv, Unanswered, IsFor, Started, syncVars
<1> QED BY <1>1, <1>2 DEF DisplayInv

LEMMA EmitGlobalsStep ==
  ASSUME DisplayInv, NEW c \in Clients, EmitGlobals(c)
  PROVE  DisplayInv'
<1>1. /\ c \in registries /\ c \in clients
      /\ registries' = registries \cup {c}
      /\ told' = Emitted(c)
      /\ UNCHANGED <<loop, pc, current, peer, clients, globals, nextName, nativeGlobalNames,
                     syncVars, usedAfterFree>>
  BY DEF DisplayInv, GlobalInv, EmitGlobals, history
<1>2. GlobalInv'
  BY <1>1, EmitKept DEF DisplayInv, ClientInv
<1> QED BY <1>1, <1>2, CallKeeps DEF DisplayInv

LEMMA OutputStep ==
  ASSUME DisplayInv, NEW c \in Clients, SendEvents(c) \/ Flush(c)
  PROVE  DisplayInv'
<1>1. UNCHANGED <<loop, pc, current, peer, clients, registries, globalVars, syncVars, usedAfterFree>>
  BY DEF SendEvents, Flush, history
<1>2. GlobalInv'
  BY <1>1, GlobalsKept DEF DisplayInv, GlobalInv, globalVars
<1> QED BY <1>1, <1>2, CallKeeps DEF DisplayInv

LEMMA DestroyClientStep ==
  ASSUME DisplayInv, NEW c \in Clients, DestroyClient(c)
  PROVE  DisplayInv'
<1>1. /\ pc = "out" /\ ClientsDestroyed({c}, loop, out)
      /\ UNCHANGED <<pc, current, globals, nextName, nativeGlobalNames>>
  BY DEF DestroyClient
<1>2. loop.idle = <<>> /\ current \in [client : Clients \cup {0}, input : Seq(Requests)]
  BY <1>1 DEF DisplayInv, SyncInv, ClientInv
<1> QED BY <1>1, <1>2, DestroyedStep DEF DisplayInv

LEMMA GlobalCreateStep ==
  ASSUME DisplayInv, NEW interface \in DOMAIN InterfaceVersion, NEW version \in Nat,
         GlobalCreate(interface, version)
  PROVE  DisplayInv'
<1> DEFINE g == [name |-> nextName, interface |-> interface, version |-> version]
<1>1. /\ GlobalInv /\ ClientInv
      /\ globals' = Append(globals, g)
      /\ nextName' = nextName + 1
      /\ nativeGlobalNames' = nativeGlobalNames \cup {nextName}
      /\ told' = [c \in Clients |-> IF c \in registries
                                    THEN [told[c] EXCEPT !.known = @ \cup {nextName}]
                                    ELSE told[c]]
      /\ UNCHANGED <<loop, pc, current, peer, clients, registries, syncVars, usedAfterFree>>
  BY DEF DisplayInv, GlobalCreate, OnGlobalCreated, history
<1>2. g \in Globals /\ g.name = nextName
  BY <1>1 DEF Globals, GlobalInv
<1> HIDE DEF g
<1>3. /\ globals' \in Seq(Globals)
      /\ DOMAIN globals' = DOMAIN globals \cup {Len(globals) + 1}
      /\ Len(globals) + 1 \notin DOMAIN globals
      /\ globals'[Len(globals) + 1] = g
      /\ \A i \in DOMAIN globals : globals'[i] = globals[i] /\ globals[i].name \in Nat
  <2>1. globals \in Seq(Globals)
    BY <1>1 DEF GlobalInv
  <2>2. \A i \in DOMAIN globals : globals[i].name \in Nat
    BY <1>1, NamesAreNumbers
  <2> QED BY <1>1, <1>2, <2>1, <2>2
<1>4. Names' = Names \cup {nextName}
  <2>1. Names' = {globals'[i].name : i \in DOMAIN globals'}
    BY DEF Names, ToSet
  <2>2. Names = {globals[i].name : i \in DOMAIN globals}
    BY DEF Names, ToSet
  <2> QED BY <1>2, <1>3, <2>1, <2>2
<1>5. nextName \in Nat \ {0} /\ nextName' \in Nat \ {0} /\ nextName < nextName'
  BY <1>1 DEF GlobalInv
<1>6. \A i \in DOMAIN globals' : globals'[i].name < nextName'
  BY <1>1, <1>2, <1>3, <1>5 DEF GlobalInv
<1>7. \A i, j \in DOMAIN globals' : globals'[i].name = globals'[j].name => i = j
  BY <1>1, <1>2, <1>3, <1>5 DEF GlobalInv
<1>8. ASSUME NEW c \in Clients
      PROVE  /\ told'[c] \in Knowledge
             /\ c \in registries => Knows(told[c])'
             /\ c \notin registries => told'[c] = NotTold
  <2>1. told[c] \in Knowledge /\ Knows(told[c])
    BY <1>1, AllKnow
  <2>2. CASE c \in registries
    <3> DEFINE new == [told[c] EXCEPT !.known = @ \cup {nextName}]
    <3>1. told'[c] = new
      BY <1>1, <2>2
    <3>2. /\ new \in Knowledge /\ new.known = told[c].known \cup {nextName}
          /\ new.removed = told[c].removed /\ new.removed \subseteq Nat
      BY <1>5, <2>1 DEF Knowledge
    <3>3. new.emitted = told[c].emitted
      BY <2>1 DEF Knowledge
    <3> HIDE DEF new
    <3>4. new.emitted => Names \subseteq told[c].known
      BY <2>1, <3>3 DEF Knows
    <3>5. nextName \notin new.removed /\ \A name \in new.removed : name < nextName'
      BY <1>1, <1>5, <2>1, <3>2 DEF Knows
    <3>6. new.removed \cap Names' = {} /\ new.known \subseteq Names' \cup new.removed
      BY <1>4, <2>1, <3>2, <3>5 DEF Knows
    <3>7. new.emitted => Names' \subseteq new.known
      BY <1>4, <3>2, <3>4
    <3> QED BY <2>2, <3>1, <3>2, <3>5, <3>6, <3>7 DEF Knows
  <2>3. CASE c \notin registries
    BY <1>1, <2>1, <2>3 DEF GlobalInv
  <2> QED BY <2>2, <2>3
<1>9. GlobalInv'
  <2>1. told' \in [Clients -> Knowledge]
    BY <1>1, <1>8
  <2>2. (\A c \in registries : Knows(told[c]))'
    BY <1>1, <1>8 DEF GlobalInv, ClientInv
  <2>3. \A c \in Clients \ registries' : told'[c] = NotTold
    BY <1>1, <1>8
  <2>4. registries' \subseteq clients' /\ (pc' # "gone" => nativeGlobalNames' \subseteq Names')
    BY <1>1, <1>4 DEF GlobalInv
  <2> QED BY <1>3, <1>5, <1>6, <1>7, <2>1, <2>2, <2>3, <2>4 DEF GlobalInv
<1> QED BY <1>1, <1>9, CallKeeps DEF DisplayInv

LEMMA RemoveAtSeq ==
  ASSUME NEW S, NEW seq \in Seq(S), NEW k \in DOMAIN seq
  PROVE  /\ RemoveAt(seq, k) \in Seq(S)
         /\ DOMAIN RemoveAt(seq, k) = 1 .. Len(seq) - 1
         /\ \A i \in 1 .. Len(seq) - 1 : RemoveAt(seq, k)[i] = IF i < k THEN seq[i] ELSE seq[i + 1]
<1> DEFINE low == SubSeq(seq, 1, k - 1)
           high == SubSeq(seq, k + 1, Len(seq))
<1>1. k \in 1 .. Len(seq) /\ Len(seq) \in Nat
  OBVIOUS
<1>2. low \in Seq(S) /\ Len(low) = k - 1 /\ \A i \in 1 .. k - 1 : low[i] = seq[i]
  BY <1>1
<1>3. high \in Seq(S) /\ Len(high) = Len(seq) - k /\ \A i \in 1 .. Len(seq) - k : high[i] = seq[k + i]
  BY <1>1
<1>4. RemoveAt(seq, k) = low \o high
  BY DEF RemoveAt
<1> HIDE DEF low, high
<1>5. low \o high \in Seq(S) /\ Len(low \o high) = Len(seq) - 1
  BY <1>1, <1>2, <1>3
<1>6. ASSUME NEW i \in 1 .. Len(seq) - 1
      PROVE  (low \o high)[i] = IF i < k THEN seq[i] ELSE seq[i + 1]
  <2>1. CASE i < k
    BY <1>1, <1>2, <1>3, <2>1
  <2>2. CASE ~(i < k)
    <3>1. i \in 1 .. Len(low) + Len(high) /\ i > Len(low)
      BY <1>1, <1>2, <1>3, <2>2
    <3>2. (low \o high)[i] = high[i - Len(low)]
      <4>1. low \in Seq(S) /\ high \in Seq(S)
        BY <1>2, <1>3
      <4>2. (low \o high)[i] = IF i <= Len(low) THEN low[i] ELSE high[i - Len(low)]
        BY <3>1, <4>1, ConcatProperties, Zenon
      <4>3. ~(i <= Len(low))
        BY <1>1, <1>2, <3>1
      <4> QED BY <4>2, <4>3
    <3>3. i - Len(low) \in 1 .. Len(seq) - k /\ k + (i - Len(low)) = i + 1
      BY <1>1, <1>2, <2>2
    <3> QED BY <1>3, <2>2, <3>2, <3>3
  <2> QED BY <2>1, <2>2
<1> QED BY <1>4, <1>5, <1>6

LEMMA GlobalDestroyStep ==
  ASSUME DisplayInv, NEW k, GlobalDestroy(k)
  PROVE  DisplayInv'
<1>1. /\ GlobalInv /\ ClientInv
      /\ k \in DOMAIN globals
      /\ globals' = RemoveAt(globals, k)
      /\ nativeGlobalNames' = nativeGlobalNames \ {globals[k].name}
      /\ told' = [c \in Clients |-> IF c \in registries
                                    THEN [told[c] EXCEPT !.removed = @ \cup {globals[k].name}]
                                    ELSE told[c]]
      /\ UNCHANGED <<loop, pc, current, peer, clients, registries, nextName, syncVars, usedAfterFree>>
  BY DEF DisplayInv, GlobalDestroy, OnGlobalDestroyed, history
<1>2. PICK old : old = globals[k].name
  OBVIOUS
<1>3. old \in Nat /\ old < nextName /\ nextName \in Nat \ {0} /\ globals \in Seq(Globals)
  BY <1>1, <1>2, NamesAreNumbers DEF GlobalInv
<1>4. /\ globals' \in Seq(Globals)
      /\ DOMAIN globals' = 1 .. Len(globals) - 1
      /\ \A i \in 1 .. Len(globals) - 1 :
            globals'[i] = IF i < k THEN globals[i] ELSE globals[i + 1]
  BY <1>1, <1>3, RemoveAtSeq
<1>5. k \in 1 .. Len(globals) /\ Len(globals) \in Nat /\ DOMAIN globals = 1 .. Len(globals)
  BY <1>1, <1>3
<1>6. ASSUME NEW i \in DOMAIN globals'
      PROVE  \E j \in DOMAIN globals : j # k /\ j = (IF i < k THEN i ELSE i + 1) /\ globals'[i] = globals[j]
  BY <1>4, <1>5
<1>7. Names' = Names \ {old}
  <2>1. Names' = {globals'[i].name : i \in DOMAIN globals'}
    BY DEF Names, ToSet
  <2>2. Names = {globals[i].name : i \in DOMAIN globals}
    BY DEF Names, ToSet
  <2>3. ASSUME NEW i \in DOMAIN globals'
        PROVE  globals'[i].name \in Names /\ globals'[i].name # old
    BY <1>1, <1>2, <1>6, <2>2 DEF GlobalInv
  <2>4. ASSUME NEW j \in DOMAIN globals, globals[j].name # old
        PROVE  globals[j].name \in Names'
    <3>1. CASE j < k
      <4>1. j \in DOMAIN globals' /\ globals'[j] = globals[j]
        BY <1>4, <1>5, <3>1
      <4> QED BY <2>1, <4>1
    <3>2. CASE j > k
      <4>1. j - 1 \in DOMAIN globals' /\ globals'[j - 1] = globals[j]
        BY <1>4, <1>5, <3>2
      <4> QED BY <2>1, <4>1
    <3> QED BY <1>2, <1>5, <2>4, <3>1, <3>2
  <2> QED BY <2>1, <2>2, <2>3, <2>4
<1>8. \A i \in DOMAIN globals' : globals'[i].name < nextName'
  BY <1>1, <1>6 DEF GlobalInv
<1>9. ASSUME NEW i \in DOMAIN globals', NEW j \in DOMAIN globals', globals'[i].name = globals'[j].name
      PROVE  i = j
  <2>1. PICK a \in DOMAIN globals : a = (IF i < k THEN i ELSE i + 1) /\ globals'[i] = globals[a]
    BY <1>6
  <2>2. PICK b \in DOMAIN globals : b = (IF j < k THEN j ELSE j + 1) /\ globals'[j] = globals[b]
    BY <1>6
  <2>3. a = b
    BY <1>1, <1>9, <2>1, <2>2 DEF GlobalInv
  <2> QED BY <1>4, <1>5, <2>1, <2>2, <2>3
<1>10. ASSUME NEW c \in Clients
      PROVE  /\ told'[c] \in Knowledge
             /\ c \in registries => Knows(told[c])'
             /\ c \notin registries => told'[c] = NotTold
  <2>1. told[c] \in Knowledge /\ Knows(told[c])
    BY <1>1, AllKnow
  <2>2. CASE c \in registries
    <3> DEFINE new == [told[c] EXCEPT !.removed = @ \cup {old}]
    <3>1. told'[c] = new
      BY <1>1, <1>2, <2>2
    <3>2. /\ new \in Knowledge /\ new.known = told[c].known
          /\ new.removed = told[c].removed \cup {old}
      BY <1>3, <2>1 DEF Knowledge
    <3>3. new.emitted = told[c].emitted
      BY <2>1 DEF Knowledge
    <3> HIDE DEF new
    <3>4. new.emitted => Names \subseteq told[c].known
      BY <2>1, <3>3 DEF Knows
    <3>5. \A name \in new.removed : name < nextName'
      BY <1>1, <1>3, <2>1, <3>2 DEF Knows
    <3>6. new.removed \cap Names' = {} /\ new.known \subseteq Names' \cup new.removed
      BY <1>7, <2>1, <3>2 DEF Knows
    <3>7. new.emitted => Names' \subseteq new.known
      BY <1>7, <3>2, <3>4
    <3> QED BY <2>2, <3>1, <3>2, <3>5, <3>6, <3>7 DEF Knows
  <2>3. CASE c \notin registries
    BY <1>1, <2>1, <2>3 DEF GlobalInv
  <2> QED BY <2>2, <2>3
<1>11. GlobalInv'
  <2>1. told' \in [Clients -> Knowledge]
    BY <1>1, <1>10
  <2>2. (\A c \in registries : Knows(told[c]))'
    BY <1>1, <1>10 DEF GlobalInv, ClientInv
  <2>3. \A c \in Clients \ registries' : told'[c] = NotTold
    BY <1>1, <1>10
  <2>4. registries' \subseteq clients' /\ (pc' # "gone" => nativeGlobalNames' \subseteq Names')
    BY <1>1, <1>2, <1>7 DEF GlobalInv
  <2>5. nextName' \in Nat \ {0}
    BY <1>1, <1>3
  <2> QED BY <1>4, <1>8, <1>9, <2>1, <2>2, <2>3, <2>4, <2>5 DEF GlobalInv
<1> QED BY <1>1, <1>11, CallKeeps DEF DisplayInv

(* destroyDisplay(): no registry is left that could be told.               *)
LEMMA DestroyDisplayStep ==
  ASSUME DisplayInv, DestroyDisplay
  PROVE  DisplayInv'
<1>1. /\ pc = "out" /\ pc' = "gone" /\ globals' = <<>>
      /\ ClientsDestroyed(clients, DisplayDestroy(loop), out)
      /\ UNCHANGED <<current, nextName, nativeGlobalNames>>
      /\ SafeLoop(loop) /\ ClientInv /\ SyncInv /\ GlobalInv
  BY DEF DestroyDisplay, DisplayInv
<1>2. PICK l : l = DisplayDestroy(loop)
  OBVIOUS
<1>3. SafeLoop(l) /\ DOMAIN l.interest \subseteq DOMAIN loop.interest /\ l.idle = loop.idle
  <2>1. PICK m : m = SourceRemove(loop, {Listen, Term})
    OBVIOUS
  <2>2. SafeLoop(m) /\ DOMAIN m.interest = DOMAIN loop.interest \ {Listen, Term} /\ m.idle = loop.idle
    BY <1>1, <2>1, SourceRemoveSafe
  <2>3. l = LoopDestroy(m)
    BY <1>2, <2>1 DEF DisplayDestroy
  <2> QED BY <2>2, <2>3, LoopDestroySafe
<1>4. SafeLoop(loop') /\ ClientInv' /\ SyncInv'
  <2>1. loop.idle = <<>> /\ current' \in [client : Clients \cup {0}, input : Seq(Requests)]
    BY <1>1 DEF SyncInv, ClientInv
  <2>2. clients \in SUBSET Clients
    BY <1>1 DEF ClientInv
  <2>3. ClientsDestroyed(clients, l, out)
    BY <1>1, <1>2
  <2> QED BY <1>1, <1>3, <2>1, <2>2, <2>3, DestroyedKept
<1>5. GlobalInv'
  <2>1. registries' = {} /\ told' = Forget(told, clients, NotTold)
    BY <1>1 DEF ClientsDestroyed, GlobalInv
  <2>2. told' \in [Clients -> Knowledge] /\ \A c \in Clients : told'[c] = NotTold
    BY <1>1, <2>1, NotToldKnows DEF Forget, GlobalInv
  <2> QED BY <1>1, <2>1, <2>2 DEF GlobalInv
<1> QED BY <1>4, <1>5 DEF DisplayInv

-----------------------------------------------------------------------------
LEMMA InitInv == Init => DisplayInv
<1> SUFFICES ASSUME Init PROVE DisplayInv
  OBVIOUS
<1>1. SafeLoop(loop) /\ DOMAIN loop.interest = {Term, Listen} /\ loop.idle = <<>>
  <2>1. PICK l : l = LoopCreate
    OBVIOUS
  <2>2. SafeLoop(l) /\ DOMAIN l.interest = {} /\ l.idle = <<>>
    <3>1. l = MakeLoop(<<>>, <<>>, {}, <<>>)
      BY <2>1 DEF LoopCreate, MakeLoop
    <3>2. IsLoop(l) /\ l.interest = <<>> /\ l.idle = <<>> /\ l.batch = <<>>
      BY <3>1, MadeLoop
    <3> QED BY <3>2 DEF SafeLoop
  <2>3. PICK m : m = AddFd(l, Term, {"R"})
    OBVIOUS
  <2>4. Term \in FdSources /\ Listen \in FdSources
    BY DEF FdSources
  <2>5. SafeLoop(m) /\ DOMAIN m.interest = {Term} /\ m.idle = <<>>
    BY <2>2, <2>3, <2>4, AddFdSafe
  <2>6. loop = AddFd(m, Listen, {"R"})
    BY <2>1, <2>3 DEF Init, DisplayCreate
  <2> QED BY <2>4, <2>5, <2>6, AddFdSafe
<1>2. ClientInv
  <2>1. \A c \in Clients : ClientSource(c) \notin {Term, Listen}
    BY DEF ClientSource, Term, Listen
  <2>2. NewPeer \in PeerStates
    BY DEF NewPeer, PeerStates
  <2>3. current \in [client : Clients \cup {0}, input : Seq(Requests)]
    BY DEF Init, Nobody
  <2> QED BY <1>1, <2>1, <2>2, <2>3 DEF Init, ClientInv, HasFd
<1>3. SyncInv
  BY <1>1 DEF Init, SyncInv, Numbered
<1>4. GlobalInv
  <2>1. Names = {}
    BY DEF Init, Names, ToSet
  <2> QED BY <2>1, NotToldKnows DEF Init, GlobalInv
<1> QED BY <1>1, <1>2, <1>3, <1>4 DEF DisplayInv

LEMMA NextInv == DisplayInv /\ [Next]_vars => DisplayInv'
<1> SUFFICES ASSUME DisplayInv, [Next]_vars PROVE DisplayInv'
  OBVIOUS
<1>1. CASE UNCHANGED vars
  <2>1. UNCHANGED <<loop, pc, current, peer, clients, registries, globalVars, syncVars, usedAfterFree>>
    BY <1>1 DEF vars, clientVars, history
  <2>2. GlobalInv'
    BY <2>1, GlobalsKept DEF DisplayInv, GlobalInv, globalVars
  <2> QED BY <2>1, <2>2, CallKeeps DEF DisplayInv
<1>2. CASE Peers
  BY <1>2, PeersStep
<1>3. CASE Dispatching
  <2>1. CASE DispatchEnds
    BY <2>1, FlushClientsStep
  <2>2. CASE DispatchIdle
    BY <2>2, DispatchIdleStep
  <2>3. CASE WaitForEvents \/ WaitFails \/ SkipEvent \/ EventsDone \/ LateIdleDone
    BY <2>3, DispatchStep
  <2>4. ASSUME NEW c \in Clients,
               \/ \E callbacks \in CallbackSets : AcceptClient(c, callbacks)
               \/ AcceptFails(c) \/ ConnectionLost(c) \/ ConnectionData(c)
        PROVE  DisplayInv'
    BY <2>4, AcceptClientStep, AcceptFailsStep, ConnectionLostStep, ConnectionDataStep
  <2>5. ASSUME NEW c \in Clients,
               \/ BrowserRequest(c) \/ \E d \in Clients : BrowserDestroys(c, d)
               \/ BrowserDestroysSelf(c)
               \/ DisplaySync(c) \/ DisplayGetRegistry(c) \/ RegistryBind(c)
               \/ RequestFails(c) \/ RequestsDone(c) \/ DestroyClientWithError(c)
        PROVE  DisplayInv'
    BY <2>5, PlainRequestStep, BrowserDestroysStep, BrowserDestroysSelfStep, DisplaySyncStep,
       DisplayGetRegistryStep, RequestsDoneStep, DestroyClientWithErrorStep
  <2> QED BY <1>3, <2>1, <2>2, <2>3, <2>4, <2>5 DEF Dispatching
<1>4. CASE Calls
  <2>1. CASE DispatchRequests
    BY <2>1, FlushClientsStep
  <2>2. CASE DestroyDisplay
    BY <2>2, DestroyDisplayStep
  <2>3. ASSUME NEW c \in Clients, SendEvents(c) \/ Flush(c) \/ DestroyClient(c) \/ EmitGlobals(c)
        PROVE  DisplayInv'
    BY <2>3, OutputStep, DestroyClientStep, EmitGlobalsStep
  <2>4. ASSUME NEW interface \in DOMAIN InterfaceVersion,
               NEW version \in 1 .. InterfaceVersion[interface], GlobalCreate(interface, version)
        PROVE  DisplayInv'
    BY <2>4, GlobalCreateStep
  <2>5. ASSUME NEW k \in 1 .. MaxGlobals, GlobalDestroy(k)
        PROVE  DisplayInv'
    BY <2>5, GlobalDestroyStep
  <2> QED BY <1>4, <2>1, <2>2, <2>3, <2>4, <2>5 DEF Calls
<1> QED BY <1>1, <1>2, <1>3, <1>4 DEF Next

(* The invariant of the loop, the clients, sync requests and globals.      *)
THEOREM DisplayInvariant == Spec => []DisplayInv
  BY InitInv, NextInv, PTL DEF Spec

(* No event source runs after it was freed, whoever destroys clients while *)
(* the dispatch is under way (wl_event_source_remove()), and the only      *)
(* freed clients that are used are those that wl_client_connection_data()  *)
(* goes on with after the callback of their own message destroyed them,    *)
(* and those of idle tasks, which do not outlive their dispatch.           *)
THEOREM NothingFreedRuns == Spec => []FreedNeverDispatched
<1>1. DisplayInv => FreedNeverDispatched
  BY DEF DisplayInv, SafeLoop, ClientInv, SyncInv, FreedNeverDispatched
<1> QED BY <1>1, DisplayInvariant, PTL

(* Every sync request that dispatchRequests() dispatches for a client that *)
(* lives is answered in the same call, once and in order (display_sync(),  *)
(* wl_event_loop_dispatch_idle()).                                         *)
THEOREM SyncsAnswered == Spec => []SyncAnswered
<1>1. ASSUME DisplayInv, pc = "out", NEW c \in clients
      PROVE  done[c] = synced[c]
  <2>1. loop.idle = <<>> /\ c \in Clients /\ PendingInv(c)
    BY <1>1 DEF DisplayInv, SyncInv, ClientInv
  <2>2. /\ done[c] \in Seq(Nat) /\ synced[c] \in Seq(Nat) /\ Len(done[c]) <= Len(synced[c])
        /\ Numbered(done[c]) /\ Numbered(synced[c])
    BY <1>1, <2>1 DEF DisplayInv, SyncInv
  <2>3. Unanswered(c) = {}
    BY <2>1 DEF PendingInv
  <2>4. Len(done[c]) = Len(synced[c])
    <3>1. Len(done[c]) \in Nat /\ Len(synced[c]) \in Nat
      BY <2>2
    <3>2. Len(synced[c]) \notin Unanswered(c)
      BY <2>3
    <3> QED BY <2>2, <3>1, <3>2 DEF Unanswered
  <2> QED BY <2>2, <2>4 DEF Numbered
<1>2. DisplayInv => SyncAnswered
  BY <1>1 DEF SyncAnswered
<1> QED BY <1>2, DisplayInvariant, PTL

(* A registry whose globals were emitted knows exactly the globals that    *)
(* exist, and the proxy takes none for native that is gone                 *)
(* (wl_global_create(), wl_global_remove(), wl_registry_emit_globals()).   *)
THEOREM RegistriesKnow == Spec => []RegistryKnows
<1>1. DisplayInv => RegistryKnows
  BY DEF DisplayInv, GlobalInv, Knows, RegistryKnows
<1> QED BY <1>1, DisplayInvariant, PTL

-----------------------------------------------------------------------------
(* The timers of the event loop.                                           *)

(* A non-empty set of natural numbers has a least element, and one that is *)
(* bounded a greatest.                                                     *)
LEMMA LeastPlace ==
  ASSUME NEW S, S \subseteq Nat, S # {}
  PROVE  \E m \in S : \A i \in S : m <= i
<1>1. \E m \in S : \A i \in S : ~(<<i, m>> \in OpToRel(<, Nat))
  BY NatLessThanWellFounded, WFMin
<1>2. PICK m \in S : \A i \in S : ~(<<i, m>> \in OpToRel(<, Nat))
  BY <1>1
<1>3. ASSUME NEW i \in S PROVE m <= i
  <2>1. i \in Nat /\ m \in Nat
    OBVIOUS
  <2>2. ~(i < m)
    BY <1>2, <2>1 DEF OpToRel
  <2> QED BY <2>1, <2>2
<1> QED BY <1>3

LEMMA GreatestPlace ==
  ASSUME NEW n \in Nat, NEW S, S \subseteq 1 .. n, S # {}
  PROVE  \E m \in S : \A i \in S : i <= m
<1> DEFINE T == {j \in 0 .. n : n - j \in S}
<1>1. T \subseteq Nat /\ T # {}
  <2>1. PICK i \in S : i \in 1 .. n
    OBVIOUS
  <2>2. n - i \in 0 .. n /\ n - (n - i) = i
    BY <2>1
  <2>3. n - i \in T
    BY <2>1, <2>2
  <2>4. T \subseteq Nat
    OBVIOUS
  <2> QED BY Zenon, <2>3, <2>4
<1>2. PICK k \in T : \A j \in T : k <= j
  <2> HIDE DEF T
  <2> QED BY <1>1, LeastPlace
<1>3. \A i \in S : n - i \in T
  <2> SUFFICES ASSUME NEW i \in S PROVE n - i \in T
    OBVIOUS
  <2>1. i \in 1 .. n /\ n - i \in 0 .. n /\ n - (n - i) = i
    OBVIOUS
  <2> QED BY <2>1
<1>4. n - k \in S /\ \A i \in S : i <= n - k
  BY <1>2, <1>3
<1> QED BY <1>4

-----------------------------------------------------------------------------
(* Trails.                                                                 *)
Steps(n) == [1 .. n -> 0 .. n]

LEMMA TrailLeast ==
  ASSUME NEW n \in Nat, NEW step \in Steps(n), NEW c \in 1 .. n,
         NEW S \in SUBSET (1 .. n), c \in S, Follows(step, S)
  PROVE  Trail(step, c) \subseteq S
BY DEF Trail, Steps

LEMMA TrailFacts ==
  ASSUME NEW n \in Nat, NEW step \in Steps(n), NEW c \in 1 .. n
  PROVE  /\ Trail(step, c) \subseteq 1 .. n
         /\ c \in Trail(step, c)
         /\ \A i \in Trail(step, c) : step[i] # 0 => step[i] \in Trail(step, c)
         /\ \A i \in Trail(step, c) : i = c \/ \E j \in Trail(step, c) : step[j] = i
<1> DEFINE T == Trail(step, c)
<1>1. T \subseteq 1 .. n /\ c \in T
  BY DEF Trail, Steps
<1>2. \A i \in T : step[i] # 0 => step[i] \in T
  <2> SUFFICES ASSUME NEW i \in T, step[i] # 0 PROVE step[i] \in T
    OBVIOUS
  <2>1. i \in 1 .. n /\ step[i] \in 1 .. n
    BY <1>1 DEF Steps
  <2>2. \A S \in SUBSET (1 .. n) : c \in S /\ Follows(step, S) => i \in S
    BY DEF Trail, Steps
  <2>3. \A S \in SUBSET (1 .. n) : c \in S /\ Follows(step, S) => step[i] \in S
    BY <2>2 DEF Follows
  <2> QED BY <2>1, <2>3 DEF Trail, Steps
<1>3. ASSUME NEW i \in T, i # c, \A j \in T : step[j] # i PROVE FALSE
  <2>1. c \in T \ {i} /\ T \ {i} \in SUBSET (1 .. n)
    BY <1>1, <1>3
  <2>2. Follows(step, T \ {i})
    BY <1>2, <1>3 DEF Follows
  <2>3. T \subseteq T \ {i}
    <3> HIDE DEF T
    <3>1. Trail(step, c) \subseteq T \ {i}
      BY <2>1, <2>2, TrailLeast
    <3> QED BY <3>1 DEF T
  <2> QED BY <1>3, <2>3
<1> QED BY <1>1, <1>2, <1>3

(* A trail that only goes up, or only down, visits every place once and    *)
(* ends.                                                                   *)
Once(step, c) ==
  /\ \A j \in Trail(step, c) : step[j] # c
  /\ \A j, k \in Trail(step, c) : step[j] = step[k] => j = k
  /\ \E e \in Trail(step, c) : step[e] = 0

LEMMA OnceUp ==
  ASSUME NEW n \in Nat, NEW step \in Steps(n), NEW c \in 1 .. n,
         \A i \in 1 .. n : step[i] < i
  PROVE  Once(step, c) /\ \A i \in Trail(step, c) : i <= c
<1>1. PICK T : T = Trail(step, c)
  OBVIOUS
<1>2. /\ T \subseteq 1 .. n
      /\ c \in T
      /\ \A i \in T : step[i] # 0 => step[i] \in T
  BY <1>1, TrailFacts
<1>3. \A S \in SUBSET (1 .. n) : c \in S /\ Follows(step, S) => T \subseteq S
  BY <1>1, TrailLeast
<1>4. step \in [1 .. n -> 0 .. n]
  BY DEF Steps
<1>5. \A i \in T : i <= c
  <2>1. Follows(step, 1 .. c)
    BY <1>4 DEF Follows
  <2>2. 1 .. c \in SUBSET (1 .. n) /\ c \in 1 .. c
    OBVIOUS
  <2> QED BY <1>3, <2>1, <2>2
<1>6. \A k \in T : \A j \in T : k < j => k <= step[j]
  <2> DEFINE G == {k \in T : \A j \in T : k < j => k <= step[j]}
  <2>1. c \in G /\ G \in SUBSET (1 .. n)
    <3>1. \A j \in T : j \in 1 .. n /\ ~(c < j)
      BY <1>2, <1>5
    <3> QED BY <1>2, <3>1
  <2>2. ASSUME NEW k \in G, step[k] # 0 PROVE step[k] \in G
    <3> DEFINE S == {j \in T : k <= j \/ j <= step[k]}
    <3>1. c \in S /\ S \in SUBSET (1 .. n)
      BY <1>2, <1>5
    <3>2. ASSUME NEW j \in S, step[j] # 0 PROVE step[j] \in S
      <4>1. step[j] \in T /\ step[j] < j /\ j \in 1 .. n /\ k \in 1 .. n
        BY <1>2, <3>2
      <4>2. step[k] \in 0 .. n /\ step[j] \in 0 .. n
        BY <1>4, <4>1
      <4>3. CASE j <= step[k]
        BY <4>1, <4>2, <4>3
      <4>4. CASE j = k
        BY <4>1, <4>2, <4>4
      <4>5. CASE k < j
        BY <4>1, <4>5
      <4> QED BY <4>1, <4>2, <4>3, <4>4, <4>5
    <3>3. Follows(step, S)
      BY <3>2 DEF Follows
    <3>4. T \subseteq S
      <4> HIDE DEF S
      <4> QED BY <1>3, <3>1, <3>3
    <3>5. step[k] \in T /\ step[k] < k /\ k \in T
      BY <1>2, <2>2
    <3>6. ASSUME NEW j \in T, step[k] < j PROVE step[k] <= step[j]
      <4>1. j \in S /\ j \in 1 .. n /\ k \in 1 .. n /\ step[k] \in 0 .. n
        BY <1>2, <1>4, <3>4, <3>5
      <4>2. k <= j
        BY <3>6, <4>1
      <4> QED BY <1>2, <1>4, <3>5, <4>1, <4>2
    <3> QED BY <3>5, <3>6
  <2>3. Follows(step, G)
    BY <2>2 DEF Follows
  <2>4. T \subseteq G
    <3> HIDE DEF G
    <3> QED BY <1>3, <2>1, <2>3
  <2> QED BY <2>4
<1>7. \A j \in T : step[j] # c
  BY <1>2, <1>4, <1>5
<1>8. ASSUME NEW j \in T, NEW k \in T, step[j] = step[k] PROVE j = k
  <2>1. j \in 1 .. n /\ k \in 1 .. n /\ step[j] < j /\ step[k] < k /\ step[j] \in 0 .. n
    BY <1>2, <1>4
  <2> QED BY <1>6, <1>8, <2>1
<1>9. \E e \in T : step[e] = 0
  <2>1. PICK e \in T : \A i \in T : e <= i
    <3>1. T \subseteq Nat /\ T # {}
      BY <1>2
    <3> QED BY <3>1, LeastPlace
  <2>2. step[e] < e /\ step[e] \in 0 .. n /\ e \in 1 .. n
    BY <1>2, <1>4
  <2> QED BY <1>2, <2>1, <2>2
<1> QED BY <1>1, <1>5, <1>7, <1>8, <1>9 DEF Once

LEMMA OnceDown ==
  ASSUME NEW n \in Nat, NEW step \in Steps(n), NEW c \in 1 .. n,
         \A i \in 1 .. n : step[i] = 0 \/ i < step[i]
  PROVE  Once(step, c) /\ \A i \in Trail(step, c) : c <= i
<1>1. PICK T : T = Trail(step, c)
  OBVIOUS
<1>2. /\ T \subseteq 1 .. n
      /\ c \in T
      /\ \A i \in T : step[i] # 0 => step[i] \in T
  BY <1>1, TrailFacts
<1>3. \A S \in SUBSET (1 .. n) : c \in S /\ Follows(step, S) => T \subseteq S
  BY <1>1, TrailLeast
<1>4. step \in [1 .. n -> 0 .. n]
  BY DEF Steps
<1>5. \A i \in T : c <= i
  <2>1. Follows(step, c .. n)
    BY <1>4 DEF Follows
  <2>2. c .. n \in SUBSET (1 .. n) /\ c \in c .. n
    OBVIOUS
  <2> QED BY <1>3, <2>1, <2>2
<1>6. \A k \in T : \A j \in T : j < k => step[j] # 0 /\ step[j] <= k
  <2> DEFINE G == {k \in T : \A j \in T : j < k => step[j] # 0 /\ step[j] <= k}
  <2>1. c \in G /\ G \in SUBSET (1 .. n)
    <3>1. \A j \in T : j \in 1 .. n /\ ~(j < c)
      BY <1>2, <1>5
    <3> QED BY <1>2, <3>1
  <2>2. ASSUME NEW k \in G, step[k] # 0 PROVE step[k] \in G
    <3> DEFINE S == {j \in T : j <= k \/ step[k] <= j}
    <3>1. c \in S /\ S \in SUBSET (1 .. n)
      BY <1>2, <1>5
    <3>2. ASSUME NEW j \in S, step[j] # 0 PROVE step[j] \in S
      <4>1. step[j] \in T /\ j < step[j] /\ j \in 1 .. n /\ k \in 1 .. n
        BY <1>2, <3>2
      <4>2. step[k] \in 0 .. n /\ step[j] \in 0 .. n
        BY <1>4, <4>1
      <4>3. CASE step[k] <= j
        BY <4>1, <4>2, <4>3
      <4>4. CASE j = k
        BY <4>1, <4>2, <4>4
      <4>5. CASE j < k
        BY <4>1, <4>5
      <4> QED BY <4>1, <4>2, <4>3, <4>4, <4>5
    <3>3. Follows(step, S)
      BY <3>2 DEF Follows
    <3>4. T \subseteq S
      <4> HIDE DEF S
      <4> QED BY <1>3, <3>1, <3>3
    <3>5. step[k] \in T /\ k < step[k] /\ k \in T
      BY <1>2, <2>2
    <3>6. ASSUME NEW j \in T, j < step[k] PROVE step[j] # 0 /\ step[j] <= step[k]
      <4>1. j \in S /\ j \in 1 .. n /\ k \in 1 .. n /\ step[k] \in 0 .. n
        BY <1>2, <1>4, <3>4, <3>5
      <4>2. j <= k
        BY <3>6, <4>1
      <4> QED BY SMTT(40), <1>2, <1>4, <2>2, <3>5, <4>1, <4>2
    <3> QED BY <3>5, <3>6
  <2>3. Follows(step, G)
    BY <2>2 DEF Follows
  <2>4. T \subseteq G
    <3> HIDE DEF G
    <3> QED BY <1>3, <2>1, <2>3
  <2> QED BY <2>4
<1>7. \A j \in T : step[j] # c
  BY <1>2, <1>4, <1>5
<1>8. ASSUME NEW j \in T, NEW k \in T, step[j] = step[k] PROVE j = k
  <2>1. j \in 1 .. n /\ k \in 1 .. n /\ step[j] \in 0 .. n
    BY <1>2, <1>4
  <2>2. (step[j] = 0 \/ j < step[j]) /\ (step[k] = 0 \/ k < step[k])
    BY <2>1
  <2> QED BY <1>6, <1>8, <2>1, <2>2
<1>9. \E e \in T : step[e] = 0
  <2>1. PICK e \in T : \A i \in T : i <= e
    BY <1>2, GreatestPlace
  <2>2. (step[e] = 0 \/ e < step[e]) /\ step[e] \in 0 .. n /\ e \in 1 .. n
    BY <1>2, <1>4
  <2> QED BY <1>2, <2>1, <2>2
<1> QED BY <1>1, <1>5, <1>7, <1>8, <1>9 DEF Once

-----------------------------------------------------------------------------
(* Heaps whose array and indexes agree. The order is kept apart, because a *)
(* sift starts without it.                                                 *)
Heaps ==
  [data : Seq(Timers), heap_idx : [Timers -> Nat \cup {-1}], deadline : [Timers -> 0 .. MaxTime]]

Indexed(h) ==
  /\ \A i \in 1 .. Len(h.data) : h.heap_idx[h.data[i]] = i - 1
  /\ \A t \in Timers : h.heap_idx[t] # -1 =>
        h.heap_idx[t] < Len(h.data) /\ h.data[h.heap_idx[t] + 1] = t

SameTimers(g, h) ==
  /\ Len(g.data) = Len(h.data)
  /\ g.deadline = h.deadline
  /\ \A u \in Timers : g.heap_idx[u] = -1 <=> h.heap_idx[u] = -1

(* The place from which the loop fills place i.                            *)
Source(step, c, i) ==
  IF i \notin Trail(step, c) THEN i ELSE IF step[i] = 0 THEN c ELSE step[i]

LEMMA HeapParts ==
  ASSUME NEW h \in Heaps
  PROVE  /\ h.data \in Seq(Timers)
         /\ Len(h.data) \in Nat
         /\ DOMAIN h.data = 1 .. Len(h.data)
         /\ \A i \in 1 .. Len(h.data) : h.data[i] \in Timers
         /\ h.heap_idx \in [Timers -> Nat \cup {-1}]
         /\ h.deadline \in [Timers -> 0 .. MaxTime]
         /\ \A i \in 1 .. Len(h.data) : h.deadline[h.data[i]] \in 0 .. MaxTime
<1>1. /\ h.data \in Seq(Timers)
      /\ h.heap_idx \in [Timers -> Nat \cup {-1}]
      /\ h.deadline \in [Timers -> 0 .. MaxTime]
  BY DEF Heaps
<1>2. Len(h.data) \in Nat /\ DOMAIN h.data = 1 .. Len(h.data)
  BY <1>1
<1>3. \A i \in 1 .. Len(h.data) : h.data[i] \in Timers
  BY <1>1
<1> QED BY <1>1, <1>2, <1>3

(* The sources are a permutation of the places.                            *)
LEMMA SourceFacts ==
  ASSUME NEW n \in Nat, NEW step \in Steps(n), NEW c \in 1 .. n, Once(step, c)
  PROVE  /\ \A i \in 1 .. n : Source(step, c, i) \in 1 .. n
         /\ \A i \in 1 .. n : Source(step, c, i) \in Trail(step, c) <=> i \in Trail(step, c)
         /\ \A i, j \in 1 .. n : Source(step, c, i) = Source(step, c, j) => i = j
         /\ \A i \in Trail(step, c) : \E j \in Trail(step, c) : Source(step, c, j) = i
<1>1. PICK T : T = Trail(step, c)
  OBVIOUS
<1>2. /\ \A i \in T : i \in 1 .. n
      /\ c \in T
      /\ \A i \in T : step[i] # 0 => step[i] \in T
      /\ \A i \in T : i = c \/ \E j \in T : step[j] = i
  <2>1. T \subseteq 1 .. n
    BY <1>1, TrailFacts
  <2> QED BY <1>1, <2>1, TrailFacts
<1>3. /\ \A j \in T : step[j] # c
      /\ \A j, k \in T : step[j] = step[k] => j = k
      /\ \E e \in T : step[e] = 0
  BY <1>1 DEF Once
<1>4. \A i : Source(step, c, i) = IF i \notin T THEN i ELSE IF step[i] = 0 THEN c ELSE step[i]
  BY <1>1 DEF Source
<1>5. \A i \in 1 .. n : Source(step, c, i) \in 1 .. n
  BY <1>2, <1>4
<1>6. \A i \in 1 .. n : Source(step, c, i) \in T <=> i \in T
  BY <1>2, <1>4
<1>7. ASSUME NEW i \in 1 .. n, NEW j \in 1 .. n, Source(step, c, i) = Source(step, c, j)
      PROVE  i = j
  <2>1. CASE i \notin T
    BY <1>4, <1>6, <1>7, <2>1
  <2>2. CASE i \in T
    <3>1. j \in T
      BY <1>6, <1>7, <2>2
    <3>2. step[i] = step[j]
      BY <1>2, <1>3, <1>4, <1>7, <2>2, <3>1
    <3> QED BY <1>3, <2>2, <3>1, <3>2
  <2> QED BY <2>1, <2>2
<1>8. ASSUME NEW i \in T PROVE \E j \in T : Source(step, c, j) = i
  <2>1. CASE i = c
    BY <1>3, <1>4, <2>1
  <2>2. CASE i # c
    <3>1. PICK j \in T : step[j] = i
      BY <1>2, <2>2
    <3>2. step[j] # 0
      BY <1>2, <3>1
    <3> QED BY <1>4, <3>1, <3>2
  <2> QED BY <2>1, <2>2
<1> QED BY <1>1, <1>5, <1>6, <1>7, <1>8

(* What heap_set() does along a trail: the array is permuted, the indexes  *)
(* follow, and the armed timers and their deadlines stay.                  *)
LEMMA HeapSetFacts ==
  ASSUME NEW h \in Heaps, Indexed(h), NEW t \in Timers, h.heap_idx[t] # -1,
         NEW step \in Steps(Len(h.data)), Once(step, h.heap_idx[t] + 1)
  PROVE  LET g == HeapSet(h, t, step)
             c == h.heap_idx[t] + 1
         IN  /\ g \in Heaps
             /\ Indexed(g)
             /\ SameTimers(g, h)
             /\ \A i \in 1 .. Len(h.data) : g.data[i] = h.data[Source(step, c, i)]
<1>1. PICK n : n = Len(h.data)
  OBVIOUS
<1>2. PICK c : c = h.heap_idx[t] + 1
  OBVIOUS
<1>3. PICK T : T = Trail(step, c)
  OBVIOUS
<1>4. PICK g : g = HeapSet(h, t, step)
  OBVIOUS
<1>5. /\ h.data \in Seq(Timers) /\ n \in Nat /\ DOMAIN h.data = 1 .. n
      /\ \A i \in 1 .. n : h.data[i] \in Timers
      /\ h.heap_idx \in [Timers -> Nat \cup {-1}]
      /\ h.deadline \in [Timers -> 0 .. MaxTime]
  BY <1>1, HeapParts
<1>6. /\ \A i \in 1 .. n : h.heap_idx[h.data[i]] = i - 1
      /\ \A u \in Timers : h.heap_idx[u] # -1 => h.heap_idx[u] < n /\ h.data[h.heap_idx[u] + 1] = u
  BY <1>1 DEF Indexed
<1>7. c \in 1 .. n /\ h.data[c] = t
  <2>1. h.heap_idx[t] \in Nat /\ h.heap_idx[t] < n
    BY <1>5, <1>6
  <2>2. c \in 1 .. n
    BY <1>2, <1>5, <2>1
  <2>3. h.data[c] = t
    BY Zenon, <1>2, <1>6
  <2> QED BY <2>2, <2>3
<1>8. step \in Steps(n) /\ Once(step, c)
  BY <1>1, <1>2
<1>9. /\ \A i \in 1 .. n : Source(step, c, i) \in 1 .. n
      /\ \A i \in 1 .. n : Source(step, c, i) \in T <=> i \in T
      /\ \A i, j \in 1 .. n : Source(step, c, i) = Source(step, c, j) => i = j
      /\ \A i \in T : \E j \in T : Source(step, c, j) = i
  <2>1. /\ \A i \in 1 .. n : Source(step, c, i) \in 1 .. n
        /\ \A i \in 1 .. n : Source(step, c, i) \in Trail(step, c) <=> i \in Trail(step, c)
    BY Zenon, <1>5, <1>7, <1>8, SourceFacts
  <2>2. \A i, j \in 1 .. n : Source(step, c, i) = Source(step, c, j) => i = j
    BY <1>5, <1>7, <1>8, SourceFacts
  <2>3. \A i \in Trail(step, c) : \E j \in Trail(step, c) : Source(step, c, j) = i
    BY <1>5, <1>7, <1>8, SourceFacts
  <2> QED BY Zenon, <1>3, <2>1, <2>2, <2>3
<1>10. \A i \in T : i \in 1 .. n
  <2>1. T \subseteq 1 .. n
    BY <1>3, <1>5, <1>7, <1>8, TrailFacts
  <2> QED BY <2>1
<1>11. PICK moved : moved = [i \in 1 .. n |-> h.data[Source(step, c, i)]]
  OBVIOUS
<1>12. moved = [i \in DOMAIN h.data |->
                  IF i \notin T THEN h.data[i] ELSE IF step[i] = 0 THEN t ELSE h.data[step[i]]]
  BY <1>3, <1>5, <1>7, <1>11 DEF Source
<1>13. g = [data |-> moved,
            heap_idx |-> [u \in DOMAIN h.heap_idx |->
                            IF \E i \in T : moved[i] = u
                            THEN (CHOOSE i \in T : moved[i] = u) - 1 ELSE h.heap_idx[u]],
            deadline |-> h.deadline]
  BY <1>2, <1>3, <1>4, <1>12 DEF HeapSet
<1>14. /\ moved \in [1 .. n -> Timers]
       /\ \A i \in 1 .. n : moved[i] = h.data[Source(step, c, i)]
  BY <1>5, <1>9, <1>11
<1>15. moved \in Seq(Timers) /\ Len(moved) = n
  BY <1>5, <1>14
<1>16. ASSUME NEW i \in 1 .. n, NEW j \in 1 .. n, moved[i] = moved[j] PROVE i = j
  <2>1. Source(step, c, i) - 1 = Source(step, c, j) - 1
    BY ZenonT(60), <1>6, <1>9, <1>14, <1>16
  <2>2. Source(step, c, i) = Source(step, c, j)
    BY <1>9, <2>1
  <2> QED BY <1>9, <2>2
<1>17. g.data = moved /\ g.deadline = h.deadline /\ DOMAIN g.heap_idx = Timers
  BY <1>5, <1>13
<1>18. ASSUME NEW i \in T PROVE g.heap_idx[moved[i]] = i - 1
  <2>1. moved[i] \in Timers
    BY <1>10, <1>14
  <2>2. i = CHOOSE j \in T : moved[j] = moved[i]
    BY <1>10, <1>16
  <2> QED BY <1>5, <1>13, <2>1, <2>2
<1>19. ASSUME NEW i \in 1 .. n, i \notin T PROVE g.heap_idx[moved[i]] = i - 1
  <2>1. moved[i] \in Timers /\ moved[i] = h.data[i]
    BY <1>3, <1>14, <1>19 DEF Source
  <2>2. \A j \in T : moved[j] # moved[i]
    BY <1>10, <1>16, <1>19
  <2> QED BY <1>5, <1>6, <1>13, <2>1, <2>2
<1>20. ASSUME NEW u \in Timers, \A i \in 1 .. n : moved[i] # u
       PROVE  h.heap_idx[u] = -1 /\ g.heap_idx[u] = -1
  <2>1. ASSUME h.heap_idx[u] # -1 PROVE FALSE
    <3>1. PICK k \in 1 .. n : h.data[k] = u
      <4>1. h.heap_idx[u] \in Nat /\ h.heap_idx[u] < n /\ h.data[h.heap_idx[u] + 1] = u
        BY <1>5, <1>6, <2>1
      <4>2. h.heap_idx[u] + 1 \in 1 .. n
        BY SMTT(40), <1>5, <4>1
      <4> QED BY <4>1, <4>2
    <3>2. CASE k \in T
      BY SMTT(40), <1>9, <1>10, <1>14, <1>20, <3>1, <3>2
    <3>3. CASE k \notin T
      BY <1>3, <1>14, <1>20, <3>1, <3>3 DEF Source
    <3> QED BY <3>2, <3>3
  <2>2. g.heap_idx[u] = h.heap_idx[u]
    BY <1>5, <1>10, <1>13, <1>20
  <2> QED BY <2>1, <2>2
<1>21. \A i \in 1 .. n : g.heap_idx[moved[i]] = i - 1
  BY <1>18, <1>19
<1>22. ASSUME NEW u \in Timers
       PROVE  /\ g.heap_idx[u] \in Nat \cup {-1}
              /\ g.heap_idx[u] # -1 => g.heap_idx[u] < n /\ moved[g.heap_idx[u] + 1] = u
              /\ g.heap_idx[u] = -1 <=> h.heap_idx[u] = -1
  <2>1. CASE \A i \in 1 .. n : moved[i] # u
    BY <1>20, <2>1
  <2>2. ASSUME NEW i \in 1 .. n, moved[i] = u
        PROVE  /\ g.heap_idx[u] \in Nat \cup {-1}
               /\ g.heap_idx[u] # -1 => g.heap_idx[u] < n /\ moved[g.heap_idx[u] + 1] = u
               /\ g.heap_idx[u] = -1 <=> h.heap_idx[u] = -1
    <3>1. g.heap_idx[u] = i - 1 /\ i - 1 \in Nat /\ i - 1 < n /\ (i - 1) + 1 = i
      BY SMTT(40), <1>5, <1>21, <2>2
    <3>2. h.heap_idx[u] = Source(step, c, i) - 1 /\ Source(step, c, i) - 1 \in Nat
      <4>1. PICK k \in 1 .. n : k = Source(step, c, i)
        BY <1>9
      <4>2. u = h.data[k]
        BY <1>14, <2>2, <4>1
      <4>3. h.heap_idx[u] = k - 1 /\ k - 1 \in Nat
        BY <1>5, <1>6, <4>2
      <4> QED BY <4>1, <4>3
    <3> QED BY <2>2, <3>1, <3>2
  <2> QED BY <2>1, <2>2
<1>23. g.heap_idx \in [Timers -> Nat \cup {-1}]
  BY <1>5, <1>13, <1>17, <1>22
<1>24. g \in Heaps
  <2>1. g = [data |-> g.data, heap_idx |-> g.heap_idx, deadline |-> g.deadline]
    BY <1>13
  <2> QED BY <1>5, <1>15, <1>17, <1>23, <2>1 DEF Heaps
<1>25. Indexed(g) /\ SameTimers(g, h)
  BY <1>1, <1>15, <1>17, <1>21, <1>22 DEF Indexed, SameTimers
<1> QED BY <1>1, <1>2, <1>4, <1>14, <1>17, <1>24, <1>25

-----------------------------------------------------------------------------
(* The order of a heap, and the order of one in which the timer at place c *)
(* got another deadline: there the parent and the children of c still are  *)
(* in order with each other.                                               *)
Key(h, i) == h.deadline[h.data[i]]

Ordered(h) == \A i \in 2 .. Len(h.data) : Key(h, i \div 2) <= Key(h, i)

OrderedBut(h, c) ==
  \A i \in 2 .. Len(h.data) :
    /\ i # c /\ i \div 2 # c => Key(h, i \div 2) <= Key(h, i)
    /\ i \div 2 = c /\ c > 1 => Key(h, c \div 2) <= Key(h, i)

AfterParent(h, c) == c > 1 => Key(h, c \div 2) <= Key(h, c)
BeforeChildren(h, c) == \A i \in 2 .. Len(h.data) : i \div 2 = c => Key(h, c) <= Key(h, i)

LEMMA Halves ==
  ASSUME NEW n \in Nat, NEW i \in 2 .. n
  PROVE  /\ i \in 1 .. n /\ i \div 2 \in 1 .. n /\ i \div 2 < i
         /\ i = 2 * (i \div 2) \/ i = 2 * (i \div 2) + 1
OBVIOUS

LEMMA OrderedAnywhere ==
  ASSUME NEW h \in Heaps, Ordered(h), NEW c \in 1 .. Len(h.data)
  PROVE  OrderedBut(h, c) /\ AfterParent(h, c) /\ BeforeChildren(h, c)
<1>1. Len(h.data) \in Nat /\ \A i \in 1 .. Len(h.data) : Key(h, i) \in 0 .. MaxTime
  BY HeapParts DEF Key
<1>2. \A i \in 2 .. Len(h.data) : /\ i \in 1 .. Len(h.data) /\ i \div 2 \in 1 .. Len(h.data)
                                  /\ Key(h, i \div 2) <= Key(h, i)
  BY <1>1, Halves DEF Ordered
<1>3. AfterParent(h, c)
  <2>1. c > 1 => c \in 2 .. Len(h.data)
    BY <1>1
  <2> QED BY <1>2, <2>1 DEF AfterParent
<1>4. BeforeChildren(h, c)
  BY <1>2 DEF BeforeChildren
<1>5. ASSUME NEW i \in 2 .. Len(h.data), i \div 2 = c, c > 1 PROVE Key(h, c \div 2) <= Key(h, i)
  <2>1. c \in 2 .. Len(h.data)
    BY <1>1, <1>5
  <2>2. Key(h, c \div 2) <= Key(h, c) /\ Key(h, c) <= Key(h, i) /\ c \div 2 \in 1 .. Len(h.data)
    BY <1>2, <1>5, <2>1
  <2>3. Key(h, c \div 2) \in 0 .. MaxTime /\ Key(h, c) \in 0 .. MaxTime /\ Key(h, i) \in 0 .. MaxTime
    BY <1>1, <1>2, <2>2
  <2> QED BY <2>2, <2>3, TimerHeapAssumption
<1> QED BY <1>2, <1>3, <1>4, <1>5 DEF OrderedBut

(* heap_sift_up() restores the order when the timer may be too early for   *)
(* its parent.                                                             *)
LEMMA SiftUpFacts ==
  ASSUME NEW h \in Heaps, Indexed(h), NEW t \in Timers, h.heap_idx[t] # -1,
         OrderedBut(h, h.heap_idx[t] + 1), BeforeChildren(h, h.heap_idx[t] + 1)
  PROVE  /\ SiftUp(h, t) \in Heaps
         /\ Indexed(SiftUp(h, t))
         /\ SameTimers(SiftUp(h, t), h)
         /\ Ordered(SiftUp(h, t))
<1>1. PICK n : n = Len(h.data)
  OBVIOUS
<1>2. PICK c : c = h.heap_idx[t] + 1
  OBVIOUS
<1>3. PICK step : step = Upwards(h, t)
  OBVIOUS
<1>4. PICK T : T = Trail(step, c)
  OBVIOUS
<1>5. PICK g : g = SiftUp(h, t)
  OBVIOUS
<1>6. /\ n \in Nat /\ DOMAIN h.data = 1 .. n
      /\ \A i \in 1 .. n : Key(h, i) \in 0 .. MaxTime
      /\ h.heap_idx \in [Timers -> Nat \cup {-1}]
  BY <1>1, HeapParts DEF Key
<1>7. c \in 1 .. n /\ h.data[c] = t
  <2>1. h.heap_idx[t] \in Nat /\ h.heap_idx[t] < n /\ h.data[h.heap_idx[t] + 1] = t
    BY <1>1, <1>6 DEF Indexed
  <2>2. c \in 1 .. n
    BY <1>2, <1>6, <2>1
  <2> QED BY <1>2, <2>1, <2>2
<1>8. step = [i \in 1 .. n |-> IF i > 1 /\ Key(h, c) < Key(h, i \div 2) THEN i \div 2 ELSE 0]
  BY <1>3, <1>6, <1>7 DEF Upwards, Key
<1>9. ASSUME NEW i \in 1 .. n
      PROVE  /\ step[i] \in 0 .. n /\ step[i] < i
             /\ step[i] # 0 => i > 1 /\ step[i] = i \div 2 /\ Key(h, c) < Key(h, i \div 2)
             /\ step[i] = 0 => i = 1 \/ ~(Key(h, c) < Key(h, i \div 2))
  <2>1. CASE i = 1
    BY <1>6, <1>8, <2>1
  <2>2. CASE i # 1
    <3>1. i \in 2 .. n
      BY <1>6, <2>2
    <3>2. i \div 2 \in 1 .. n /\ i \div 2 < i
      BY <1>6, <3>1, Halves
    <3> QED BY <1>6, <1>8, <3>1, <3>2
  <2> QED BY <2>1, <2>2
<1>10. step \in Steps(n)
  BY <1>8, <1>9 DEF Steps
<1>11. Once(step, c) /\ \A i \in T : i <= c
  BY <1>4, <1>6, <1>7, <1>9, <1>10, OnceUp
<1>12. /\ g \in Heaps
       /\ Indexed(g)
       /\ SameTimers(g, h)
       /\ \A i \in 1 .. n : g.data[i] = h.data[Source(step, c, i)]
  BY <1>1, <1>2, <1>3, <1>5, <1>10, <1>11, HeapSetFacts DEF SiftUp
<1>13. /\ \A i \in T : i \in 1 .. n
       /\ c \in T
       /\ \A i \in T : step[i] # 0 => step[i] \in T
       /\ \A i \in T : i = c \/ \E j \in T : step[j] = i
  <2>1. T \subseteq 1 .. n
    BY <1>4, <1>6, <1>7, <1>10, TrailFacts
  <2> QED BY <1>4, <1>6, <1>7, <1>10, <2>1, TrailFacts
<1>14. \A i \in 1 .. n : Key(g, i) = IF i \notin T THEN Key(h, i)
                                     ELSE IF step[i] = 0 THEN Key(h, c) ELSE Key(h, step[i])
  BY <1>4, <1>12 DEF Key, SameTimers, Source
<1>15. ASSUME NEW i \in 2 .. n
       PROVE  /\ i # c /\ i \div 2 # c => Key(h, i \div 2) <= Key(h, i)
              /\ i \div 2 = c /\ c > 1 => Key(h, c \div 2) <= Key(h, i)
              /\ i \div 2 = c => Key(h, c) <= Key(h, i)
              /\ i \in 1 .. n /\ i \div 2 \in 1 .. n /\ i \div 2 < i
  BY <1>1, <1>2, <1>6, Halves DEF OrderedBut, BeforeChildren
<1>16. ASSUME NEW i \in 2 .. n, i # c PROVE Key(h, i \div 2) <= Key(h, i)
  BY <1>15, <1>16
<1>17. ASSUME NEW p \in T, p # c PROVE Key(g, p) <= Key(h, p)
  <2>1. p \in 1 .. n
    BY <1>13
  <2>2. CASE step[p] = 0
    <3>1. PICK j \in T : step[j] = p
      BY <1>13, <1>17
    <3>2. Key(h, c) < Key(h, p)
      BY <1>9, <1>13, <2>1, <3>1
    <3> QED BY <1>6, <1>7, <1>14, <1>17, <2>1, <2>2, <3>2
  <2>3. CASE step[p] # 0
    <3>1. p \in 2 .. n /\ step[p] = p \div 2
      BY <1>6, <1>9, <2>1, <2>3
    <3>2. Key(h, p \div 2) <= Key(h, p)
      BY <1>16, <1>17, <3>1
    <3> QED BY <1>14, <1>17, <2>1, <2>3, <3>1, <3>2
  <2> QED BY <2>2, <2>3
<1>18. ASSUME NEW i \in 2 .. n PROVE Key(g, i \div 2) <= Key(g, i)
  <2>1. PICK p : p = i \div 2
    OBVIOUS
  <2>2. i \in 1 .. n /\ p \in 1 .. n /\ p < i
    BY <1>15, <2>1
  <2>3. Key(h, i) \in 0 .. MaxTime /\ Key(h, p) \in 0 .. MaxTime /\ Key(h, c) \in 0 .. MaxTime
    BY <1>6, <1>7, <2>2
  <2>4. Key(g, p) \in 0 .. MaxTime /\ Key(g, i) \in 0 .. MaxTime
    BY <1>1, <1>12, <2>2, HeapParts DEF Key, SameTimers
  <2>5. CASE i \in T
    <3>1. p # c
      BY <1>7, <1>11, <2>2, <2>5
    <3>2. p \in T => Key(g, p) <= Key(h, p)
      BY <1>17, <3>1
    <3>3. p \notin T => Key(g, p) = Key(h, p)
      BY <1>14, <2>2
    <3>4. CASE step[i] # 0
      <4>1. step[i] = p
        BY <1>9, <2>1, <2>2, <3>4
      <4> QED BY <1>14, <2>1, <2>2, <2>3, <2>4, <2>5, <3>2, <3>3, <3>4, <4>1
    <3>5. CASE step[i] = 0
      <4>1. ~(Key(h, c) < Key(h, p)) /\ Key(g, i) = Key(h, c)
        BY <1>9, <1>14, <2>1, <2>2, <2>5, <3>5
      <4> QED BY <2>1, <2>3, <2>4, <3>2, <3>3, <4>1
    <3> QED BY <3>4, <3>5
  <2>6. CASE i \notin T
    <3>1. i # c /\ Key(g, i) = Key(h, i)
      BY <1>13, <1>14, <2>2, <2>6
    <3>2. Key(h, p) <= Key(h, i)
      BY <1>16, <2>1, <3>1
    <3>3. CASE p \notin T
      BY <1>14, <2>1, <2>2, <3>1, <3>2, <3>3
    <3>4. CASE p \in T /\ p # c
      <4>1. Key(g, p) <= Key(h, p)
        BY <1>17, <3>4
      <4> QED BY <2>1, <2>3, <2>4, <3>1, <3>2, <4>1
    <3>5. CASE p = c
      <4>1. CASE step[c] = 0
        BY <1>7, <1>13, <1>14, <2>1, <3>1, <3>2, <3>5, <4>1
      <4>2. CASE step[c] # 0
        <5>1. c > 1 /\ step[c] = c \div 2
          BY <1>7, <1>9, <4>2
        <5>2. Key(h, c \div 2) <= Key(h, i)
          BY <1>15, <2>1, <3>5, <5>1
        <5> QED BY <1>7, <1>13, <1>14, <2>1, <3>1, <3>5, <4>2, <5>1, <5>2
      <4> QED BY <4>1, <4>2
    <3> QED BY <3>3, <3>4, <3>5
  <2> QED BY <2>5, <2>6
<1>19. Ordered(g)
  BY <1>1, <1>12, <1>18 DEF Ordered, SameTimers
<1> QED BY <1>5, <1>12, <1>19

(* heap_sift_down() restores the order when the timer may be too late for  *)
(* its children.                                                           *)
LEMMA ChildFacts ==
  ASSUME NEW h \in Heaps, NEW i \in 1 .. Len(h.data), 2 * i <= Len(h.data)
  PROVE  /\ Child(h, i) \in 2 .. Len(h.data) /\ Child(h, i) \div 2 = i /\ i < Child(h, i)
         /\ \A j \in 2 .. Len(h.data) : j \div 2 = i => Key(h, Child(h, i)) <= Key(h, j)
<1>1. PICK n : n = Len(h.data)
  OBVIOUS
<1>2. n \in Nat /\ \A j \in 1 .. n : Key(h, j) \in 0 .. MaxTime
  BY <1>1, HeapParts DEF Key
<1>3. i \in 1 .. n /\ 2 * i <= n
  BY <1>1
<1>4. Child(h, i) = IF 2 * i < n /\ Key(h, 2 * i + 1) < Key(h, 2 * i) THEN 2 * i + 1 ELSE 2 * i
  BY <1>1 DEF Child, Key
<1>5. /\ 2 * i \in 2 .. n /\ (2 * i) \div 2 = i /\ i < 2 * i
      /\ 2 * i < n => 2 * i + 1 \in 2 .. n /\ (2 * i + 1) \div 2 = i /\ i < 2 * i + 1
  BY <1>2, <1>3
<1>6. Child(h, i) \in 2 .. n /\ Child(h, i) \div 2 = i /\ i < Child(h, i)
  BY <1>4, <1>5
<1>7. ASSUME NEW j \in 2 .. n, j \div 2 = i PROVE Key(h, Child(h, i)) <= Key(h, j)
  <2>1. j = 2 * i \/ (j = 2 * i + 1 /\ 2 * i < n)
    BY <1>2, <1>3, <1>7, Halves
  <2>2. Key(h, 2 * i) \in 0 .. MaxTime /\ Key(h, j) \in 0 .. MaxTime
    BY <1>2, <1>5, <1>7
  <2>3. CASE j = 2 * i
    <3>1. CASE 2 * i < n /\ Key(h, 2 * i + 1) < Key(h, 2 * i)
      <4>1. Key(h, 2 * i + 1) \in 0 .. MaxTime
        BY <1>2, <1>5, <3>1
      <4> QED BY <1>4, <2>2, <2>3, <3>1, <4>1, TimerHeapAssumption
    <3>2. CASE ~(2 * i < n /\ Key(h, 2 * i + 1) < Key(h, 2 * i))
      BY <1>4, <2>2, <2>3, <3>2, TimerHeapAssumption
    <3> QED BY <3>1, <3>2
  <2>4. CASE j = 2 * i + 1 /\ 2 * i < n
    BY <1>4, <2>2, <2>4, TimerHeapAssumption
  <2> QED BY <2>1, <2>3, <2>4
<1> QED BY <1>1, <1>6, <1>7

(* The steps down from place i go to its earlier child while that is       *)
(* earlier than the timer at place c.                                      *)
LEMMA DownwardsFacts ==
  ASSUME NEW h \in Heaps, NEW c \in 1 .. Len(h.data), NEW t \in Timers, h.data[c] = t
  PROVE  LET step == Downwards(h, t)
         IN  /\ step \in Steps(Len(h.data))
             /\ \A i \in 1 .. Len(h.data) : step[i] = 0 \/ i < step[i]
             /\ \A i \in 1 .. Len(h.data) : step[i] # 0 =>
                  /\ step[i] \in 2 .. Len(h.data) /\ step[i] \div 2 = i
                  /\ Key(h, step[i]) < Key(h, c)
                  /\ \A j \in 2 .. Len(h.data) : j \div 2 = i => Key(h, step[i]) <= Key(h, j)
             /\ \A i \in 1 .. Len(h.data) : step[i] = 0 =>
                  \A j \in 2 .. Len(h.data) : j \div 2 = i => Key(h, c) <= Key(h, j)
<1>1. PICK n : n = Len(h.data)
  OBVIOUS
<1>2. PICK step : step = Downwards(h, t)
  OBVIOUS
<1>3. n \in Nat /\ DOMAIN h.data = 1 .. n /\ \A j \in 1 .. n : Key(h, j) \in 0 .. MaxTime
  BY <1>1, HeapParts DEF Key
<1>4. step = [i \in 1 .. n |->
                IF 2 * i <= n /\ Key(h, Child(h, i)) < Key(h, c) THEN Child(h, i) ELSE 0]
  BY <1>1, <1>2, <1>3 DEF Downwards, Key
<1>5. ASSUME NEW i \in 1 .. n, 2 * i <= n
      PROVE  /\ Child(h, i) \in 2 .. n /\ Child(h, i) \div 2 = i /\ i < Child(h, i)
             /\ \A j \in 2 .. n : j \div 2 = i => Key(h, Child(h, i)) <= Key(h, j)
  BY <1>1, <1>5, ChildFacts
<1>6. ASSUME NEW i \in 1 .. n, step[i] # 0
      PROVE  /\ step[i] \in 2 .. n /\ step[i] \div 2 = i /\ i < step[i]
             /\ Key(h, step[i]) < Key(h, c)
             /\ \A j \in 2 .. n : j \div 2 = i => Key(h, step[i]) <= Key(h, j)
  <2>1. 2 * i <= n /\ Key(h, Child(h, i)) < Key(h, c) /\ step[i] = Child(h, i)
    BY <1>4, <1>6
  <2> QED BY <1>5, <2>1
<1>7. ASSUME NEW i \in 1 .. n, step[i] = 0, NEW j \in 2 .. n, j \div 2 = i
      PROVE  Key(h, c) <= Key(h, j)
  <2>1. 2 * i <= n
    BY <1>3, <1>7, Halves
  <2>2. /\ Child(h, i) \in 2 .. n /\ Key(h, Child(h, i)) <= Key(h, j)
        /\ Child(h, i) \in 1 .. n /\ j \in 1 .. n
    BY SMTT(40), <1>3, <1>5, <1>7, <2>1
  <2>3. Child(h, i) # 0
    BY <2>2
  <2>4. ~(Key(h, Child(h, i)) < Key(h, c))
    BY <1>4, <1>7, <2>1, <2>3
  <2>5. Key(h, Child(h, i)) \in 0 .. MaxTime /\ Key(h, j) \in 0 .. MaxTime /\ Key(h, c) \in 0 .. MaxTime
    BY <1>1, <1>3, <2>2
  <2> QED BY <2>2, <2>4, <2>5, TimerHeapAssumption
<1>8. \A i \in 1 .. n : step[i] = 0 \/ i < step[i]
  BY <1>6
<1>9. step \in Steps(n)
  <2>1. \A i \in 1 .. n : step[i] \in 0 .. n
    BY <1>3, <1>6
  <2> QED BY <1>4, <2>1 DEF Steps
<1>10. \A i \in 1 .. n : step[i] # 0 =>
         /\ step[i] \in 2 .. n /\ step[i] \div 2 = i
         /\ Key(h, step[i]) < Key(h, c)
         /\ \A j \in 2 .. n : j \div 2 = i => Key(h, step[i]) <= Key(h, j)
  BY <1>6
<1>11. \A i \in 1 .. n : step[i] = 0 => \A j \in 2 .. n : j \div 2 = i => Key(h, c) <= Key(h, j)
  BY <1>7
<1> QED BY <1>1, <1>2, <1>8, <1>9, <1>10, <1>11

LEMMA SiftDownFacts ==
  ASSUME NEW h \in Heaps, Indexed(h), NEW t \in Timers, h.heap_idx[t] # -1
  PROVE  LET c == h.heap_idx[t] + 1
             g == SiftDown(h, t)
         IN  /\ g \in Heaps
             /\ Indexed(g)
             /\ SameTimers(g, h)
             /\ OrderedBut(h, c) /\ AfterParent(h, c) => Ordered(g)
             /\ BeforeChildren(h, c) => g.data = h.data
<1>1. PICK n : n = Len(h.data)
  OBVIOUS
<1>2. PICK c : c = h.heap_idx[t] + 1
  OBVIOUS
<1>3. PICK step : step = Downwards(h, t)
  OBVIOUS
<1>4. PICK T : T = Trail(step, c)
  OBVIOUS
<1>5. PICK g : g = SiftDown(h, t)
  OBVIOUS
<1>6. /\ n \in Nat /\ DOMAIN h.data = 1 .. n
      /\ \A i \in 1 .. n : Key(h, i) \in 0 .. MaxTime
      /\ h.heap_idx \in [Timers -> Nat \cup {-1}]
  BY <1>1, HeapParts DEF Key
<1>7. c \in 1 .. n /\ h.data[c] = t
  <2>1. h.heap_idx[t] \in Nat /\ h.heap_idx[t] < n /\ h.data[h.heap_idx[t] + 1] = t
    BY <1>1, <1>6 DEF Indexed
  <2>2. c \in 1 .. n
    BY <1>2, <1>6, <2>1
  <2> QED BY <1>2, <2>1, <2>2
<1>8. /\ step \in Steps(n)
      /\ \A i \in 1 .. n : step[i] = 0 \/ i < step[i]
      /\ \A i \in 1 .. n : step[i] # 0 =>
           /\ step[i] \in 2 .. n /\ step[i] \div 2 = i
           /\ Key(h, step[i]) < Key(h, c)
           /\ \A j \in 2 .. n : j \div 2 = i => Key(h, step[i]) <= Key(h, j)
      /\ \A i \in 1 .. n : step[i] = 0 => \A j \in 2 .. n : j \div 2 = i => Key(h, c) <= Key(h, j)
  <2>1. c \in 1 .. Len(h.data)
    BY <1>1, <1>7
  <2> QED BY <1>1, <1>3, <1>7, <2>1, DownwardsFacts
<1>9. Once(step, c) /\ \A i \in T : c <= i
  BY <1>4, <1>6, <1>7, <1>8, OnceDown
<1>10. /\ g \in Heaps
       /\ Indexed(g)
       /\ SameTimers(g, h)
       /\ \A i \in 1 .. n : g.data[i] = h.data[Source(step, c, i)]
  BY <1>1, <1>2, <1>3, <1>5, <1>8, <1>9, HeapSetFacts DEF SiftDown
<1>11. /\ \A i \in T : i \in 1 .. n
       /\ c \in T
       /\ \A i \in T : step[i] # 0 => step[i] \in T
       /\ \A i \in T : i = c \/ \E j \in T : step[j] = i
  <2>1. T \subseteq 1 .. n
    BY <1>4, <1>6, <1>7, <1>8, TrailFacts
  <2> QED BY <1>4, <1>6, <1>7, <1>8, <2>1, TrailFacts
<1>12. \A i \in 1 .. n : Key(g, i) = IF i \notin T THEN Key(h, i)
                                     ELSE IF step[i] = 0 THEN Key(h, c) ELSE Key(h, step[i])
  BY <1>4, <1>10 DEF Key, SameTimers, Source
<1>13. ASSUME NEW i \in T, i # c
       PROVE  i \div 2 \in T /\ step[i \div 2] = i
  <2>1. PICK j \in T : step[j] = i
    BY <1>11, <1>13
  <2>2. j \in 1 .. n /\ i \in 1 .. n
    BY <1>11, <2>1
  <2>3. i \div 2 = j
    BY <1>8, <2>1, <2>2
  <2> QED BY <2>1, <2>3
<1>14. ASSUME OrderedBut(h, c), AfterParent(h, c), NEW i \in 2 .. n
       PROVE  Key(g, i \div 2) <= Key(g, i)
  <2>1. PICK p : p = i \div 2
    OBVIOUS
  <2>2. i \in 1 .. n /\ p \in 1 .. n /\ p < i
    BY <1>6, <2>1, Halves
  <2>3. \A j \in 2 .. n : /\ j # c /\ j \div 2 # c => Key(h, j \div 2) <= Key(h, j)
                          /\ j \div 2 = c /\ c > 1 => Key(h, c \div 2) <= Key(h, j)
    BY <1>1, <1>14 DEF OrderedBut
  <2>4. Key(h, i) \in 0 .. MaxTime /\ Key(h, p) \in 0 .. MaxTime /\ Key(h, c) \in 0 .. MaxTime
    BY <1>6, <1>7, <2>2
  <2>5. CASE i \in T /\ i = c
    <3>1. p \notin T
      BY <1>7, <1>9, <2>2, <2>5
    <3>2. Key(g, p) = Key(h, p) /\ Key(h, p) <= Key(h, c)
      BY <1>7, <1>12, <1>14, <2>1, <2>2, <2>5, <3>1 DEF AfterParent
    <3>3. CASE step[i] = 0
      BY <1>12, <2>1, <2>2, <2>5, <3>2, <3>3
    <3>4. CASE step[i] # 0
      <4>1. step[i] \in 2 .. n /\ step[i] \div 2 = c /\ c > 1
        BY <1>8, <2>2, <2>5, <3>4
      <4>2. Key(h, p) <= Key(h, step[i])
        BY <2>1, <2>3, <2>5, <4>1
      <4> QED BY <1>12, <2>1, <2>2, <2>5, <3>2, <3>4, <4>2
    <3> QED BY <3>3, <3>4
  <2>6. CASE i \in T /\ i # c
    <3>1. p \in T /\ step[p] = i
      BY <1>13, <2>1, <2>6
    <3>2. Key(g, p) = Key(h, i) /\ Key(h, i) < Key(h, c)
      BY <1>8, <1>12, <2>2, <3>1
    <3>3. CASE step[i] = 0
      BY <1>12, <2>1, <2>2, <2>4, <2>6, <3>2, <3>3, TimerHeapAssumption
    <3>4. CASE step[i] # 0
      <4>1. step[i] \in 2 .. n /\ step[i] \div 2 = i /\ step[i] # c
        BY <1>6, <1>7, <1>8, <1>9, <2>2, <2>6, <3>4, Halves
      <4>2. Key(h, i) <= Key(h, step[i])
        BY <2>3, <2>6, <4>1
      <4> QED BY <1>12, <2>1, <2>2, <2>6, <3>2, <3>4, <4>2
    <3> QED BY <3>3, <3>4
  <2>7. CASE i \notin T
    <3>1. i # c /\ Key(g, i) = Key(h, i)
      BY <1>11, <1>12, <2>2, <2>7
    <3>2. CASE p \notin T
      <4>1. p # c
        BY <1>11, <3>2
      <4> QED BY <1>12, <2>1, <2>2, <2>3, <3>1, <3>2, <4>1
    <3>3. CASE p \in T /\ step[p] = 0
      BY <1>8, <1>12, <2>1, <2>2, <3>1, <3>3
    <3>4. CASE p \in T /\ step[p] # 0
      BY <1>8, <1>12, <2>1, <2>2, <3>1, <3>4
    <3> QED BY <3>2, <3>3, <3>4
  <2> QED BY <2>5, <2>6, <2>7
<1>15. OrderedBut(h, c) /\ AfterParent(h, c) => Ordered(g)
  BY <1>1, <1>10, <1>14 DEF Ordered, SameTimers
<1>16. ASSUME BeforeChildren(h, c) PROVE g.data = h.data
  <2>1. step[c] = 0
    <3>1. SUFFICES ASSUME step[c] # 0 PROVE FALSE
      OBVIOUS
    <3>2. step[c] \in 2 .. n /\ step[c] \div 2 = c /\ Key(h, step[c]) < Key(h, c)
      BY <1>7, <1>8, <3>1
    <3>3. Key(h, c) <= Key(h, step[c])
      BY <1>1, <1>16, <3>2 DEF BeforeChildren
    <3>4. Key(h, c) \in 0 .. MaxTime /\ Key(h, step[c]) \in 0 .. MaxTime
      BY <1>6, <1>7, <3>2
    <3> QED BY <3>2, <3>3, <3>4, TimerHeapAssumption
  <2>2. T \subseteq {c}
    <3>1. {c} \in SUBSET (1 .. n) /\ c \in {c} /\ Follows(step, {c})
      BY <1>7, <2>1 DEF Follows
    <3> QED BY <1>4, <1>6, <1>7, <1>8, <3>1, TrailLeast
  <2>3. \A i \in 1 .. n : g.data[i] = h.data[i]
    BY <1>4, <1>10, <2>1, <2>2 DEF Source
  <2>4. g.data \in Seq(Timers) /\ h.data \in Seq(Timers) /\ Len(g.data) = n /\ Len(h.data) = n
    BY <1>1, <1>10, HeapParts DEF SameTimers
  <2> QED BY <2>3, <2>4
<1> QED BY <1>2, <1>5, <1>10, <1>15, <1>16

-----------------------------------------------------------------------------
(* The operations on the heap: each keeps a heap in order, and changes the *)
(* deadline of its own timer only.                                         *)
GoodHeap(h) == h \in Heaps /\ Indexed(h) /\ Ordered(h)

SameOthers(g, h, t) ==
  \A u \in Timers \ {t} : /\ g.deadline[u] = h.deadline[u]
                          /\ g.heap_idx[u] = -1 <=> h.heap_idx[u] = -1

LEMMA PlaceFacts ==
  ASSUME NEW h \in Heaps, Indexed(h), NEW t \in Timers, h.heap_idx[t] # -1
  PROVE  /\ h.heap_idx[t] \in Nat
         /\ h.heap_idx[t] + 1 \in 1 .. Len(h.data)
         /\ h.data[h.heap_idx[t] + 1] = t
<1>1. Len(h.data) \in Nat /\ h.heap_idx[t] \in Nat \cup {-1}
  BY HeapParts
<1>2. h.heap_idx[t] \in Nat /\ h.heap_idx[t] < Len(h.data) /\ h.data[h.heap_idx[t] + 1] = t
  BY <1>1 DEF Indexed
<1> QED BY <1>1, <1>2

LEMMA Shorter ==
  ASSUME NEW s \in Seq(Timers), NEW n \in Nat, n = Len(s), n >= 1, NEW r, r = SubSeq(s, 1, n - 1)
  PROVE  r \in Seq(Timers) /\ Len(r) = n - 1 /\ \A i \in 1 .. n - 1 : i \in 1 .. n /\ r[i] = s[i]
<1>1. PICK m : m = n - 1
  OBVIOUS
<1>2. m \in Int /\ 1 \in Int /\ m - 1 + 1 = m /\ \A i \in 1 .. m : s[i] \in Timers
  BY <1>1
<1>3. /\ r \in Seq(Timers)
      /\ Len(r) = IF 1 <= m THEN m - 1 + 1 ELSE 0
      /\ \A i \in 1 .. m - 1 + 1 : r[i] = s[1 + i - 1]
  BY <1>1, <1>2, SubSeqProperties
<1>4. ASSUME NEW i \in 1 .. m PROVE r[i] = s[i] /\ i \in 1 .. n
  <2>1. 1 + i - 1 = i /\ i \in 1 .. n
    BY <1>1
  <2> QED BY <1>2, <1>3, <2>1
<1>5. Len(r) = m
  BY <1>1, <1>3
<1> QED BY <1>1, <1>3, <1>4, <1>5

LEMMA TakeOutLast ==
  ASSUME NEW h, GoodHeap(h), NEW t \in Timers, h.heap_idx[t] # -1, h.data[Len(h.data)] = t
  PROVE  LET g == TakeOut(h, t)
         IN  /\ GoodHeap(g)
             /\ Len(g.data) = Len(h.data) - 1
             /\ g.heap_idx[t] = -1
             /\ SameOthers(g, h, t)
<1>1. PICK n : n = Len(h.data)
  OBVIOUS
<1>2. PICK g : g = TakeOut(h, t)
  OBVIOUS
<1>3. h \in Heaps /\ Indexed(h) /\ Ordered(h)
  BY DEF GoodHeap
<1>4. /\ h.data \in Seq(Timers) /\ n \in Nat
      /\ \A i \in 1 .. n : h.data[i] \in Timers
      /\ h.heap_idx \in [Timers -> Nat \cup {-1}]
      /\ h.deadline \in [Timers -> 0 .. MaxTime]
  BY <1>1, <1>3, HeapParts
<1>5. /\ \A i \in 1 .. n : h.heap_idx[h.data[i]] = i - 1
      /\ \A u \in Timers : h.heap_idx[u] # -1 => h.heap_idx[u] < n /\ h.data[h.heap_idx[u] + 1] = u
  BY <1>1, <1>3 DEF Indexed
<1>6. n >= 1 /\ n - 1 \in Nat
  <2>1. h.heap_idx[t] + 1 \in 1 .. n
    BY <1>1, <1>3, PlaceFacts
  <2> QED BY <1>4, <2>1
<1>7. /\ g.data = SubSeq(h.data, 1, n - 1)
      /\ g.heap_idx = [h.heap_idx EXCEPT ![t] = -1]
      /\ g.deadline = [h.deadline EXCEPT ![t] = 0]
      /\ g = [data |-> g.data, heap_idx |-> g.heap_idx, deadline |-> g.deadline]
  BY <1>1, <1>2 DEF TakeOut
<1>8. /\ g.data \in Seq(Timers) /\ Len(g.data) = n - 1
      /\ \A i \in 1 .. n - 1 : i \in 1 .. n /\ g.data[i] = h.data[i]
  <2>1. g.data = SubSeq(h.data, 1, n - 1)
    BY <1>7
  <2> QED BY <1>1, <1>4, <1>6, <2>1, Shorter
<1>9. h.heap_idx[t] = n - 1 /\ \A i \in 1 .. n - 1 : h.data[i] # t
  <2>1. h.heap_idx[t] = n - 1
    <3>1. n \in 1 .. n /\ h.data[n] = t
      BY <1>1, <1>4, <1>6
    <3> QED BY <1>5, <3>1
  <2>2. ASSUME NEW i \in 1 .. n - 1 PROVE h.data[i] # t
    <3>1. i \in 1 .. n /\ i - 1 # n - 1
      BY <1>4
    <3> QED BY <1>5, <2>1, <3>1
  <2> QED BY <2>1, <2>2
<1>10. g \in Heaps
  <2>1. g.heap_idx \in [Timers -> Nat \cup {-1}] /\ g.deadline \in [Timers -> 0 .. MaxTime]
    BY <1>4, <1>7, TimerHeapAssumption
  <2> QED BY <1>7, <1>8, <2>1 DEF Heaps
<1>11. Indexed(g)
  <2>1. ASSUME NEW i \in 1 .. n - 1 PROVE g.heap_idx[g.data[i]] = i - 1
    BY SMTT(40), <1>4, <1>5, <1>7, <1>8, <1>9
  <2>2. ASSUME NEW u \in Timers, g.heap_idx[u] # -1
        PROVE  g.heap_idx[u] < n - 1 /\ g.data[g.heap_idx[u] + 1] = u
    <3>1. u # t /\ g.heap_idx[u] = h.heap_idx[u] /\ h.heap_idx[u] \in Nat
      BY <1>4, <1>7, <2>2
    <3>2. h.heap_idx[u] < n /\ h.data[h.heap_idx[u] + 1] = u
      BY <1>5, <2>2, <3>1
    <3>3. h.heap_idx[u] + 1 # n
      BY <1>1, <3>1, <3>2
    <3>4. h.heap_idx[u] + 1 \in 1 .. n - 1 /\ h.heap_idx[u] < n - 1
      BY SMTT(40), <1>4, <3>1, <3>2, <3>3
    <3> QED BY <1>8, <3>1, <3>2, <3>4
  <2> QED BY <1>8, <2>1, <2>2 DEF Indexed
<1>12. Ordered(g)
  <2> SUFFICES ASSUME NEW i \in 2 .. n - 1 PROVE Key(g, i \div 2) <= Key(g, i)
    BY <1>8 DEF Ordered
  <2>1. i \in 2 .. n /\ i \in 1 .. n - 1
    BY <1>4
  <2>2. i \div 2 \in 1 .. n - 1
    BY <1>6, Halves
  <2>3. Key(h, i \div 2) <= Key(h, i)
    BY <1>1, <1>3, <2>1 DEF Ordered
  <2>4. ASSUME NEW j \in 1 .. n - 1 PROVE Key(g, j) = Key(h, j)
    <3>1. g.data[j] = h.data[j] /\ h.data[j] \in Timers /\ h.data[j] # t
      BY <1>4, <1>8, <1>9
    <3> QED BY SMTT(40), <1>4, <1>7, <3>1 DEF Key
  <2> QED BY <2>1, <2>2, <2>3, <2>4
<1>13. g.heap_idx[t] = -1 /\ SameOthers(g, h, t)
  BY <1>4, <1>7 DEF SameOthers
<1> QED BY <1>1, <1>2, <1>8, <1>10, <1>11, <1>12, <1>13 DEF GoodHeap

LEMMA TakeOutOther ==
  ASSUME NEW h, GoodHeap(h), NEW t \in Timers, h.heap_idx[t] # -1, h.data[Len(h.data)] # t
  PROVE  LET g == TakeOut(h, t)
             last == h.data[Len(h.data)]
         IN  /\ g \in Heaps /\ Indexed(g)
             /\ Len(g.data) = Len(h.data) - 1
             /\ g.heap_idx[t] = -1
             /\ SameOthers(g, h, t)
             /\ last \in Timers /\ g.heap_idx[last] # -1
             /\ OrderedBut(g, g.heap_idx[last] + 1)
<1>1. PICK n : n = Len(h.data)
  OBVIOUS
<1>2. PICK g : g = TakeOut(h, t)
  OBVIOUS
<1>3. PICK c : c = h.heap_idx[t] + 1
  OBVIOUS
<1>4. PICK last : last = h.data[n]
  OBVIOUS
<1>5. h \in Heaps /\ Indexed(h) /\ Ordered(h)
  BY DEF GoodHeap
<1>6. /\ h.data \in Seq(Timers) /\ n \in Nat
      /\ \A i \in 1 .. n : h.data[i] \in Timers
      /\ h.heap_idx \in [Timers -> Nat \cup {-1}]
      /\ h.deadline \in [Timers -> 0 .. MaxTime]
  BY <1>1, <1>5, HeapParts
<1>7. /\ \A i \in 1 .. n : h.heap_idx[h.data[i]] = i - 1
      /\ \A u \in Timers : h.heap_idx[u] # -1 => h.heap_idx[u] < n /\ h.data[h.heap_idx[u] + 1] = u
  BY <1>1, <1>5 DEF Indexed
<1>8. h.heap_idx[t] = c - 1 /\ c \in 1 .. n /\ h.data[c] = t
  BY <1>1, <1>3, <1>5, PlaceFacts
<1>9. c \in 1 .. n - 1 /\ n - 1 \in Nat /\ n \in 1 .. n /\ last # t /\ last \in Timers
  BY <1>1, <1>4, <1>6, <1>8
<1>10. h.heap_idx[last] = n - 1
  BY <1>4, <1>7, <1>9
<1>11. /\ g.data = SubSeq([h.data EXCEPT ![c] = last], 1, n - 1)
       /\ g.heap_idx = [h.heap_idx EXCEPT ![t] = -1, ![last] = c - 1]
       /\ g.deadline = [h.deadline EXCEPT ![t] = 0]
       /\ g = [data |-> g.data, heap_idx |-> g.heap_idx, deadline |-> g.deadline]
  <2>1. c = h.heap_idx[t] + 1 /\ h.heap_idx[t] = c - 1
    BY <1>3, <1>8
  <2> QED BY <1>1, <1>2, <1>4, <1>9, <2>1 DEF TakeOut
<1>12. /\ g.data \in Seq(Timers) /\ Len(g.data) = n - 1
       /\ \A i \in 1 .. n - 1 : i \in 1 .. n /\ g.data[i] = IF i = c THEN last ELSE h.data[i]
  <2>1. PICK s : s = [h.data EXCEPT ![c] = last]
    OBVIOUS
  <2>2. s \in Seq(Timers) /\ Len(s) = n /\ \A i \in 1 .. n : s[i] = IF i = c THEN last ELSE h.data[i]
    BY <1>1, <1>6, <1>8, <1>9, <2>1
  <2>3. g.data = SubSeq(s, 1, n - 1)
    BY <1>11, <2>1
  <2>4. /\ g.data \in Seq(Timers) /\ Len(g.data) = n - 1
        /\ \A i \in 1 .. n - 1 : i \in 1 .. n /\ g.data[i] = s[i]
    <3>1. n >= 1
      BY <1>6, <1>9
    <3> QED BY <1>6, <2>2, <2>3, <3>1, Shorter
  <2> QED BY <2>2, <2>4
<1>13. \A u \in Timers : g.heap_idx[u] = IF u = last THEN c - 1 ELSE IF u = t THEN -1 ELSE h.heap_idx[u]
  BY <1>6, <1>9, <1>11
<1>14. \A i \in 1 .. n - 1 : g.data[i] # t /\ g.data[i] \in Timers
  <2> SUFFICES ASSUME NEW i \in 1 .. n - 1 PROVE g.data[i] # t /\ g.data[i] \in Timers
    OBVIOUS
  <2>1. CASE i = c
    BY <1>9, <1>12, <2>1
  <2>2. CASE i # c
    <3>1. g.data[i] = h.data[i] /\ h.heap_idx[h.data[i]] = i - 1 /\ h.data[i] \in Timers
      BY <1>6, <1>7, <1>12, <2>2
    <3>2. i - 1 # c - 1
      BY <1>9, <2>2
    <3> QED BY <1>8, <3>1, <3>2
  <2> QED BY <2>1, <2>2
<1>15. g \in Heaps
  <2>1. c - 1 \in Nat
    BY <1>9
  <2>2. g.heap_idx \in [Timers -> Nat \cup {-1}] /\ g.deadline \in [Timers -> 0 .. MaxTime]
    <3>1. \A u \in Timers : g.heap_idx[u] \in Nat \cup {-1}
      BY <1>6, <1>13, <2>1
    <3>2. DOMAIN g.heap_idx = Timers /\ g.heap_idx = [u \in Timers |-> g.heap_idx[u]]
      BY <1>6, <1>11
    <3>3. g.deadline \in [Timers -> 0 .. MaxTime]
      BY <1>6, <1>11, TimerHeapAssumption
    <3> QED BY <3>1, <3>2, <3>3
  <2> QED BY <1>11, <1>12, <2>2 DEF Heaps
<1>16. Indexed(g)
  <2>1. ASSUME NEW i \in 1 .. n - 1 PROVE g.heap_idx[g.data[i]] = i - 1
    <3>1. CASE i = c
      BY <1>9, <1>12, <1>13, <3>1
    <3>2. CASE i # c
      <4>1. g.data[i] = h.data[i] /\ h.heap_idx[h.data[i]] = i - 1 /\ i # n
        BY <1>6, <1>7, <1>12, <3>2
      <4>2. g.data[i] # last
        BY <1>6, <1>9, <1>10, <1>12, <4>1
      <4> QED BY <1>13, <1>14, <4>1, <4>2
    <3> QED BY <3>1, <3>2
  <2>2. ASSUME NEW u \in Timers, g.heap_idx[u] # -1
        PROVE  g.heap_idx[u] < n - 1 /\ g.data[g.heap_idx[u] + 1] = u
    <3>1. CASE u = last
      <4>1. g.heap_idx[u] = c - 1 /\ (c - 1) + 1 = c /\ c - 1 < n - 1
        BY <1>6, <1>9, <1>13, <3>1
      <4> QED BY <1>9, <1>12, <3>1, <4>1
    <3>2. CASE u # last
      <4>1. u # t /\ g.heap_idx[u] = h.heap_idx[u] /\ h.heap_idx[u] \in Nat
        BY <1>6, <1>13, <2>2, <3>2
      <4>2. h.heap_idx[u] < n /\ h.data[h.heap_idx[u] + 1] = u
        BY <1>7, <2>2, <4>1
      <4>3. h.heap_idx[u] + 1 # n /\ h.heap_idx[u] + 1 # c
        BY <1>4, <1>8, <3>2, <4>1, <4>2
      <4>4. h.heap_idx[u] + 1 \in 1 .. n - 1 /\ h.heap_idx[u] < n - 1
        BY SMTT(40), <1>6, <4>1, <4>2, <4>3
      <4> QED BY <1>12, <4>1, <4>2, <4>3, <4>4
    <3> QED BY <3>1, <3>2
  <2> QED BY <1>12, <2>1, <2>2 DEF Indexed
<1>17. \A i \in 1 .. n - 1 : i # c => Key(g, i) = Key(h, i)
  BY <1>6, <1>11, <1>12, <1>14 DEF Key
<1>18. OrderedBut(g, c)
  <2>1. \A i \in 2 .. n : Key(h, i \div 2) <= Key(h, i)
    BY <1>1, <1>5 DEF Ordered
  <2>2. ASSUME NEW i \in 2 .. n - 1
        PROVE  i \in 2 .. n /\ i \in 1 .. n - 1 /\ i \div 2 \in 1 .. n - 1 /\ i \div 2 < i
    BY <1>9, Halves
  <2>3. ASSUME NEW i \in 2 .. n - 1, i # c, i \div 2 # c PROVE Key(g, i \div 2) <= Key(g, i)
    BY <1>17, <2>1, <2>2, <2>3
  <2>4. ASSUME NEW i \in 2 .. n - 1, i \div 2 = c, c > 1 PROVE Key(g, c \div 2) <= Key(g, i)
    <3>1. c \in 2 .. n - 1
      BY <1>9, <2>4
    <3>2. c \in 2 .. n /\ c \div 2 \in 1 .. n - 1 /\ c \div 2 # c /\ i # c
      BY <2>2, <2>4, <3>1
    <3>3. OrderedBut(h, c)
      BY <1>1, <1>5, <1>8, OrderedAnywhere
    <3>4. Key(h, c \div 2) <= Key(h, i)
      BY <1>1, <2>2, <2>4, <3>3 DEF OrderedBut
    <3> QED BY <1>17, <2>2, <3>2, <3>4
  <2> QED BY <1>12, <2>3, <2>4 DEF OrderedBut
<1>19. g.heap_idx[t] = -1 /\ g.heap_idx[last] # -1 /\ g.heap_idx[last] + 1 = c
  BY <1>9, <1>13
<1>20. SameOthers(g, h, t)
  <2> SUFFICES ASSUME NEW u \in Timers \ {t}
               PROVE  g.deadline[u] = h.deadline[u] /\ (g.heap_idx[u] = -1 <=> h.heap_idx[u] = -1)
    BY DEF SameOthers
  <2>1. g.deadline[u] = h.deadline[u]
    BY <1>6, <1>11
  <2>2. n - 1 # -1 /\ c - 1 # -1
    BY <1>6, <1>9
  <2> QED BY <1>10, <1>13, <2>1, <2>2
<1> QED BY <1>1, <1>2, <1>4, <1>9, <1>12, <1>15, <1>16, <1>18, <1>19, <1>20

(* wl_timer_heap_disarm(): the entry that takes the place goes down or up. *)
LEMMA DisarmFacts ==
  ASSUME NEW h, GoodHeap(h), NEW t \in Timers, h.heap_idx[t] # -1
  PROVE  /\ GoodHeap(Disarm(h, t))
         /\ Len(Disarm(h, t).data) = Len(h.data) - 1
         /\ Disarm(h, t).heap_idx[t] = -1
         /\ SameOthers(Disarm(h, t), h, t)
<1>1. CASE h.data[Len(h.data)] = t
  BY <1>1, TakeOutLast DEF Disarm
<1>2. CASE h.data[Len(h.data)] # t
  <2>1. PICK last : last = h.data[Len(h.data)]
    OBVIOUS
  <2>2. PICK s : s = TakeOut(h, t)
    OBVIOUS
  <2>3. PICK d : d = SiftDown(s, last)
    OBVIOUS
  <2>4. PICK g : g = SiftUp(d, last)
    OBVIOUS
  <2>5. g = Disarm(h, t)
    BY <1>2, <2>1, <2>2, <2>3, <2>4 DEF Disarm
  <2>6. PICK c : c = s.heap_idx[last] + 1
    OBVIOUS
  <2>7. /\ s \in Heaps /\ Indexed(s)
        /\ Len(s.data) = Len(h.data) - 1
        /\ s.heap_idx[t] = -1
        /\ SameOthers(s, h, t)
        /\ last \in Timers /\ s.heap_idx[last] # -1
        /\ OrderedBut(s, c)
    BY <1>2, <2>1, <2>2, <2>6, TakeOutOther
  <2>8. /\ d \in Heaps /\ Indexed(d) /\ SameTimers(d, s)
        /\ AfterParent(s, c) => Ordered(d)
        /\ BeforeChildren(s, c) => d.data = s.data
    BY <2>3, <2>6, <2>7, SiftDownFacts
  <2>9. d.heap_idx[last] # -1
    BY <2>7, <2>8 DEF SameTimers
  <2>10. c \in 1 .. Len(s.data) /\ s.data[c] = last
    BY <2>6, <2>7, PlaceFacts
  <2>11. OrderedBut(d, d.heap_idx[last] + 1) /\ BeforeChildren(d, d.heap_idx[last] + 1)
    <3>1. CASE AfterParent(s, c)
      <4>1. d.heap_idx[last] + 1 \in 1 .. Len(d.data)
        BY <2>7, <2>8, <2>9, PlaceFacts
      <4> QED BY <2>8, <3>1, <4>1, OrderedAnywhere
    <3>2. CASE ~AfterParent(s, c)
      <4>1. Len(s.data) \in Nat /\ \A i \in 1 .. Len(s.data) : Key(s, i) \in 0 .. MaxTime
        BY <2>7, HeapParts DEF Key
      <4>2. c > 1 /\ ~(Key(s, c \div 2) <= Key(s, c))
        BY <3>2 DEF AfterParent
      <4>3. c \div 2 \in 1 .. Len(s.data)
        <5>1. c \in 2 .. Len(s.data)
          BY <2>10, <4>1, <4>2
        <5> QED BY <4>1, <5>1, Halves
      <4>4. BeforeChildren(s, c)
        <5> SUFFICES ASSUME NEW i \in 2 .. Len(s.data), i \div 2 = c
                     PROVE  Key(s, c) <= Key(s, i)
          BY DEF BeforeChildren
        <5>1. Key(s, c \div 2) <= Key(s, i) /\ i \in 1 .. Len(s.data)
          BY <2>7, <4>1, <4>2 DEF OrderedBut
        <5>2. Key(s, c) \in 0 .. MaxTime /\ Key(s, i) \in 0 .. MaxTime /\ Key(s, c \div 2) \in 0 .. MaxTime
          BY <2>10, <4>1, <4>3, <5>1
        <5> QED BY <4>2, <5>1, <5>2, TimerHeapAssumption
      <4>5. d.data = s.data /\ d.deadline = s.deadline
        BY <2>8, <4>4 DEF SameTimers
      <4>6. d.heap_idx[last] + 1 = c
        <5>1. d.heap_idx[d.data[c]] = c - 1
          BY <2>8, <2>10, <4>5 DEF Indexed
        <5> QED BY <2>10, <4>1, <4>5, <5>1
      <4>7. OrderedBut(d, c)
        BY <2>7, <4>5 DEF OrderedBut, Key
      <4>8. BeforeChildren(d, c)
        BY <4>4, <4>5 DEF BeforeChildren, Key
      <4> QED BY <4>6, <4>7, <4>8
    <3> QED BY <3>1, <3>2
  <2>12. g \in Heaps /\ Indexed(g) /\ SameTimers(g, d) /\ Ordered(g)
    BY <2>4, <2>7, <2>8, <2>9, <2>11, SiftUpFacts
  <2>13. Len(g.data) = Len(h.data) - 1 /\ g.heap_idx[t] = -1
    BY <2>7, <2>8, <2>12 DEF SameTimers
  <2>14. SameOthers(g, h, t)
    BY <2>7, <2>8, <2>12 DEF SameTimers, SameOthers
  <2> QED BY <2>5, <2>12, <2>13, <2>14 DEF GoodHeap
<1> QED BY <1>1, <1>2

(* wl_timer_heap_arm().                                                    *)
LEMMA ArmFacts ==
  ASSUME NEW h, GoodHeap(h), NEW t \in Timers, h.heap_idx[t] = -1, NEW time \in 0 .. MaxTime
  PROVE  /\ GoodHeap(Arm(h, t, time))
         /\ Len(Arm(h, t, time).data) = Len(h.data) + 1
         /\ Arm(h, t, time).heap_idx[t] # -1
         /\ Arm(h, t, time).deadline[t] = time
         /\ SameOthers(Arm(h, t, time), h, t)
<1>1. PICK n : n = Len(h.data)
  OBVIOUS
<1>2. PICK s : s = [data |-> Append(h.data, t),
                    heap_idx |-> [h.heap_idx EXCEPT ![t] = n],
                    deadline |-> [h.deadline EXCEPT ![t] = time]]
  OBVIOUS
<1>3. PICK g : g = SiftUp(s, t)
  OBVIOUS
<1>4. g = Arm(h, t, time)
  BY <1>1, <1>2, <1>3 DEF Arm
<1>5. h \in Heaps /\ Indexed(h) /\ Ordered(h)
  BY DEF GoodHeap
<1>6. /\ h.data \in Seq(Timers) /\ n \in Nat
      /\ \A i \in 1 .. n : h.data[i] \in Timers
      /\ h.heap_idx \in [Timers -> Nat \cup {-1}]
      /\ h.deadline \in [Timers -> 0 .. MaxTime]
  BY <1>1, <1>5, HeapParts
<1>7. /\ \A i \in 1 .. n : h.heap_idx[h.data[i]] = i - 1
      /\ \A u \in Timers : h.heap_idx[u] # -1 => h.heap_idx[u] < n /\ h.data[h.heap_idx[u] + 1] = u
  BY <1>1, <1>5 DEF Indexed
<1>8. /\ s.data \in Seq(Timers) /\ Len(s.data) = n + 1
      /\ s.data[n + 1] = t
      /\ \A i \in 1 .. n : s.data[i] = h.data[i]
  BY <1>1, <1>2, <1>6
<1>9. /\ s.heap_idx = [h.heap_idx EXCEPT ![t] = n]
      /\ s.deadline = [h.deadline EXCEPT ![t] = time]
  BY <1>2
<1>10. s \in Heaps
  BY <1>2, <1>6, <1>8 DEF Heaps
<1>11. \A i \in 1 .. n : h.data[i] # t
  <2> SUFFICES ASSUME NEW i \in 1 .. n, h.data[i] = t PROVE FALSE
    OBVIOUS
  <2>1. i - 1 = -1
    BY <1>7
  <2> QED BY <2>1
<1>12. Indexed(s)
  <2>1. ASSUME NEW i \in 1 .. n + 1 PROVE s.heap_idx[s.data[i]] = i - 1
    <3>1. CASE i = n + 1
      BY <1>6, <1>8, <1>9, <3>1
    <3>2. CASE i # n + 1
      <4>1. i \in 1 .. n
        BY <1>6, <3>2
      <4>2. s.data[i] = h.data[i] /\ h.data[i] \in Timers /\ h.data[i] # t
        BY <1>6, <1>8, <1>11, <4>1
      <4> QED BY <1>6, <1>7, <1>9, <4>1, <4>2
    <3> QED BY <3>1, <3>2
  <2>2. ASSUME NEW u \in Timers, s.heap_idx[u] # -1
        PROVE  s.heap_idx[u] < n + 1 /\ s.data[s.heap_idx[u] + 1] = u
    <3>1. CASE u = t
      BY <1>6, <1>8, <1>9, <3>1
    <3>2. CASE u # t
      <4>1. s.heap_idx[u] = h.heap_idx[u] /\ h.heap_idx[u] \in Nat
        BY <1>6, <1>9, <2>2, <3>2
      <4>2. h.heap_idx[u] < n /\ h.data[h.heap_idx[u] + 1] = u
        BY <1>7, <2>2, <4>1
      <4>3. h.heap_idx[u] + 1 \in 1 .. n /\ h.heap_idx[u] < n + 1
        BY <1>6, <4>1, <4>2
      <4> QED BY <1>8, <4>1, <4>2, <4>3
    <3> QED BY <3>1, <3>2
  <2> QED BY <1>8, <2>1, <2>2 DEF Indexed
<1>13. s.heap_idx[t] # -1 /\ s.heap_idx[t] + 1 = n + 1
  BY <1>6, <1>9
<1>14. ASSUME NEW i \in 2 .. n + 1
       PROVE  i \div 2 # n + 1 /\ (i # n + 1 => Key(s, i \div 2) <= Key(s, i))
  <2>1. i \div 2 < i /\ i \div 2 \in 1 .. n + 1
    BY <1>6, Halves
  <2>2. ASSUME i # n + 1 PROVE Key(s, i \div 2) <= Key(s, i)
    <3>1. i \in 2 .. n /\ i \in 1 .. n /\ i \div 2 \in 1 .. n
      BY <1>6, <2>1, <2>2
    <3>2. Key(h, i \div 2) <= Key(h, i)
      BY <1>1, <1>5, <3>1 DEF Ordered
    <3>3. ASSUME NEW j \in 1 .. n PROVE Key(s, j) = Key(h, j)
      <4>1. s.data[j] = h.data[j] /\ h.data[j] \in Timers /\ h.data[j] # t
        BY <1>6, <1>8, <1>11
      <4> QED BY <1>6, <1>9, <4>1 DEF Key
    <3> QED BY <3>1, <3>2, <3>3
  <2> QED BY <1>6, <2>1, <2>2
<1>15. OrderedBut(s, n + 1) /\ BeforeChildren(s, n + 1)
  BY <1>8, <1>14 DEF OrderedBut, BeforeChildren
<1>16. g \in Heaps /\ Indexed(g) /\ SameTimers(g, s) /\ Ordered(g)
  BY <1>3, <1>10, <1>12, <1>13, <1>15, SiftUpFacts
<1>17. s.deadline[t] = time /\ SameOthers(s, h, t)
  BY <1>6, <1>9 DEF SameOthers
<1>18. /\ Len(g.data) = n + 1 /\ g.heap_idx[t] # -1 /\ g.deadline[t] = time
       /\ SameOthers(g, h, t)
  BY <1>8, <1>13, <1>16, <1>17 DEF SameTimers, SameOthers
<1> QED BY <1>1, <1>4, <1>16, <1>18 DEF GoodHeap

(* A timer that is armed again goes up or down, never both.                *)
LEMMA RearmFacts ==
  ASSUME NEW h, GoodHeap(h), NEW t \in Timers, h.heap_idx[t] # -1, NEW time \in 0 .. MaxTime
  PROVE  /\ GoodHeap(Rearm(h, t, time))
         /\ Len(Rearm(h, t, time).data) = Len(h.data)
         /\ Rearm(h, t, time).heap_idx[t] # -1
         /\ Rearm(h, t, time).deadline[t] = time
         /\ SameOthers(Rearm(h, t, time), h, t)
<1>1. PICK n : n = Len(h.data)
  OBVIOUS
<1>2. PICK c : c = h.heap_idx[t] + 1
  OBVIOUS
<1>3. PICK s : s = [h EXCEPT !.deadline[t] = time]
  OBVIOUS
<1>4. h \in Heaps /\ Indexed(h) /\ Ordered(h)
  BY DEF GoodHeap
<1>5. /\ h.data \in Seq(Timers) /\ n \in Nat
      /\ \A i \in 1 .. n : h.data[i] \in Timers
      /\ h.heap_idx \in [Timers -> Nat \cup {-1}]
      /\ h.deadline \in [Timers -> 0 .. MaxTime]
      /\ \A i \in 1 .. n : Key(h, i) \in 0 .. MaxTime
  BY <1>1, <1>4, HeapParts DEF Key
<1>6. /\ s.data = h.data /\ s.heap_idx = h.heap_idx
      /\ s.deadline = [h.deadline EXCEPT ![t] = time]
      /\ s \in Heaps
  BY <1>3, <1>4, <1>5 DEF Heaps
<1>7. Indexed(s)
  BY <1>4, <1>6 DEF Indexed
<1>8. c \in 1 .. n /\ h.data[c] = t
  BY <1>1, <1>2, <1>4, PlaceFacts
<1>9. Key(h, c) = h.deadline[t] /\ Key(s, c) = time
  BY <1>5, <1>6, <1>8 DEF Key
<1>10. ASSUME NEW i \in 1 .. n, i # c PROVE Key(s, i) = Key(h, i)
  <2>1. h.heap_idx[h.data[i]] = i - 1 /\ h.heap_idx[h.data[c]] = c - 1
    BY <1>1, <1>4, <1>8 DEF Indexed
  <2>2. h.data[i] # t /\ h.data[i] \in Timers
    BY <1>5, <1>8, <1>10, <2>1
  <2> QED BY <1>5, <1>6, <2>2 DEF Key
<1>11. OrderedBut(h, c) /\ AfterParent(h, c) /\ BeforeChildren(h, c)
  BY <1>1, <1>4, <1>8, OrderedAnywhere
<1>12. ASSUME NEW i \in 2 .. n PROVE i \in 1 .. n /\ i \div 2 \in 1 .. n /\ i \div 2 < i
  BY <1>5, Halves
<1>13. c > 1 => c \in 2 .. n /\ c \div 2 \in 1 .. n /\ c \div 2 # c
  <2>1. c > 1 => c \in 2 .. n
    BY <1>5, <1>8
  <2> QED BY <1>8, <1>12, <2>1
<1>14. OrderedBut(s, c)
  <2> SUFFICES ASSUME NEW i \in 2 .. n
               PROVE  /\ i # c /\ i \div 2 # c => Key(s, i \div 2) <= Key(s, i)
                      /\ i \div 2 = c /\ c > 1 => Key(s, c \div 2) <= Key(s, i)
    BY <1>1, <1>6 DEF OrderedBut
  <2>1. /\ i # c /\ i \div 2 # c => Key(h, i \div 2) <= Key(h, i)
        /\ i \div 2 = c /\ c > 1 => Key(h, c \div 2) <= Key(h, i)
    BY <1>1, <1>11 DEF OrderedBut
  <2> QED BY <1>10, <1>12, <1>13, <2>1
<1>15. PICK g : g = Rearm(h, t, time)
  OBVIOUS
<1>16. g \in Heaps /\ Indexed(g) /\ SameTimers(g, s) /\ Ordered(g)
  <2>1. CASE time < h.deadline[t]
    <3>1. BeforeChildren(s, c)
      <4> SUFFICES ASSUME NEW i \in 2 .. n, i \div 2 = c PROVE Key(s, c) <= Key(s, i)
        BY <1>1, <1>6 DEF BeforeChildren
      <4>1. Key(h, c) <= Key(h, i) /\ i # c /\ i \in 1 .. n
        BY <1>1, <1>11, <1>12 DEF BeforeChildren
      <4>2. Key(s, i) = Key(h, i) /\ Key(h, i) \in 0 .. MaxTime /\ Key(h, c) \in 0 .. MaxTime
        BY <1>5, <1>8, <1>10, <4>1
      <4> QED BY <1>9, <2>1, <4>1, <4>2, TimerHeapAssumption
    <3>2. g = SiftUp(s, t)
      BY <1>3, <1>15, <2>1 DEF Rearm
    <3> QED BY <1>2, <1>6, <1>7, <1>14, <3>1, <3>2, SiftUpFacts
  <2>2. CASE ~(time < h.deadline[t])
    <3>1. AfterParent(s, c)
      <4> SUFFICES ASSUME c > 1 PROVE Key(s, c \div 2) <= Key(s, c)
        BY DEF AfterParent
      <4>1. Key(h, c \div 2) <= Key(h, c)
        BY <1>11 DEF AfterParent
      <4>2. /\ Key(s, c \div 2) = Key(h, c \div 2)
            /\ Key(h, c \div 2) \in 0 .. MaxTime /\ Key(h, c) \in 0 .. MaxTime
        BY <1>5, <1>8, <1>10, <1>13
      <4> QED BY <1>9, <2>2, <4>1, <4>2, TimerHeapAssumption
    <3>2. g = SiftDown(s, t)
      BY <1>3, <1>15, <2>2 DEF Rearm
    <3> QED BY <1>2, <1>6, <1>7, <1>14, <3>1, <3>2, SiftDownFacts
  <2> QED BY <2>1, <2>2
<1>17. s.deadline[t] = time /\ s.heap_idx[t] # -1 /\ SameOthers(s, h, t)
  BY <1>5, <1>6 DEF SameOthers
<1>18. /\ Len(g.data) = n /\ g.heap_idx[t] # -1 /\ g.deadline[t] = time
       /\ SameOthers(g, h, t)
  BY <1>1, <1>6, <1>16, <1>17 DEF SameTimers, SameOthers
<1> QED BY <1>1, <1>15, <1>16, <1>18 DEF GoodHeap

(* The root is the earliest timer.                                         *)
LEMMA RootIsLeast ==
  ASSUME NEW h, GoodHeap(h), NEW t \in Timers, h.heap_idx[t] # -1
  PROVE  /\ Len(h.data) >= 1
         /\ h.data[1] \in Timers /\ h.heap_idx[h.data[1]] = 0
         /\ h.deadline[h.data[1]] <= h.deadline[t]
<1>1. PICK n : n = Len(h.data)
  OBVIOUS
<1>2. h \in Heaps /\ Indexed(h) /\ Ordered(h)
  BY DEF GoodHeap
<1>3. /\ n \in Nat
      /\ \A i \in 1 .. n : h.data[i] \in Timers
      /\ \A i \in 1 .. n : Key(h, i) \in 0 .. MaxTime
  BY <1>1, <1>2, HeapParts DEF Key
<1>4. PICK c \in 1 .. n : h.data[c] = t
  BY <1>1, <1>2, PlaceFacts
<1>5. n >= 1 /\ 1 \in 1 .. n /\ h.heap_idx[h.data[1]] = 0
  <2>1. n >= 1 /\ 1 \in 1 .. n
    BY <1>3, <1>4
  <2>2. h.heap_idx[h.data[1]] = 1 - 1
    BY <1>1, <1>2, <2>1 DEF Indexed
  <2> QED BY <2>1, <2>2
<1>6. \A i \in 1 .. n : Key(h, 1) <= Key(h, i)
  <2> DEFINE B == {i \in 1 .. n : ~(Key(h, 1) <= Key(h, i))}
  <2>1. SUFFICES ASSUME B # {} PROVE FALSE
    OBVIOUS
  <2>2. B \subseteq Nat
    OBVIOUS
  <2>3. PICK m \in B : \A i \in B : m <= i
    <3> HIDE DEF B
    <3> QED BY <2>1, <2>2, LeastPlace
  <2>4. m \in 2 .. n
    BY <1>3, <1>5
  <2>5. m \div 2 \in 1 .. n /\ m \div 2 < m
    BY <1>3, <2>4, Halves
  <2>6. Key(h, m \div 2) <= Key(h, m)
    BY <1>1, <1>2, <2>4 DEF Ordered
  <2>7. m \div 2 \notin B
    BY <2>3, <2>5
  <2>8. Key(h, 1) <= Key(h, m \div 2)
    BY <2>5, <2>7
  <2>9. Key(h, 1) \in 0 .. MaxTime /\ Key(h, m) \in 0 .. MaxTime /\ Key(h, m \div 2) \in 0 .. MaxTime
    BY <1>3, <1>5, <2>5
  <2> QED BY <2>6, <2>8, <2>9, TimerHeapAssumption
<1> QED BY <1>1, <1>3, <1>4, <1>5, <1>6 DEF Key

-----------------------------------------------------------------------------
(* The inductive invariant. While the due timers are collected, those on   *)
(* the list are no longer armed, are no later than any that is, and make   *)
(* up what was due together with the armed ones whose time has come.       *)
Armed == {t \in Timers : heap_idx[t] # -1}
EntryOf(t) == [timer |-> t, deadline |-> deadline[t]]
OnList == {due[i] : i \in DOMAIN due}
ArmedAndDue == {EntryOf(t) : t \in {u \in Armed : deadline[u] <= now}}

ArmedCovered ==
  \A t \in Armed : t \in existing /\ deadline[t] >= 1 /\ timerfd # 0 /\ timerfd <= deadline[t]

SpaceInv == IsFiniteSet(existing) /\ count = Cardinality(existing) /\ count <= space

ListInOrder ==
  \A i, j \in DOMAIN due : i < j => due[i].deadline <= due[j].deadline /\ due[i].timer # due[j].timer

ListBeforeArmed ==
  \A i \in DOMAIN due : /\ due[i].timer \notin Armed
                        /\ \A t \in Armed : due[i].deadline <= deadline[t]

ListExists == \A i \in DOMAIN due : due[i].timer \in existing

DispatchInv ==
  /\ dispatching = "no" => due = <<>>
  /\ dispatching = "collecting" => /\ ListInOrder /\ ListBeforeArmed /\ ListExists
                                  /\ expired = OnList \cup ArmedAndDue
  /\ dispatching = "collected" => ListInOrder /\ ListExists /\ expired = OnList

TimersInv == TimersTypeOK /\ GoodHeap(Heap) /\ ArmedCovered /\ SpaceInv /\ DispatchInv

LEMMA HeapNow ==
  /\ Heap.data = data /\ Heap.heap_idx = heap_idx /\ Heap.deadline = deadline
  /\ \A t \in Timers : t \in Armed <=> Heap.heap_idx[t] # -1
BY DEF Heap, Armed

LEMMA HeapNext ==
  ASSUME NEW g \in Heaps, SetHeap(g)
  PROVE  /\ Heap' = g
         /\ data' \in Seq(Timers)
         /\ heap_idx' \in [Timers -> Nat \cup {-1}]
         /\ deadline' \in [Timers -> 0 .. MaxTime]
<1>1. g = [data |-> g.data, heap_idx |-> g.heap_idx, deadline |-> g.deadline]
  BY DEF Heaps
<1>2. data' = g.data /\ heap_idx' = g.heap_idx /\ deadline' = g.deadline
  BY DEF SetHeap
<1>3. Heap' = g
  BY <1>1, <1>2 DEF Heap
<1> QED BY <1>2, <1>3, HeapParts

(* What an operation leaves of the heap's part of the invariant.           *)
HeapNextOK(t) ==
  /\ data' \in Seq(Timers)
  /\ heap_idx' \in [Timers -> Nat \cup {-1}]
  /\ deadline' \in [Timers -> 0 .. MaxTime]
  /\ GoodHeap(Heap')
  /\ \A u \in Timers \ {t} : deadline'[u] = deadline[u] /\ (u \in Armed' <=> u \in Armed)

LEMMA DisarmStep ==
  ASSUME TimersInv, NEW t \in Timers, t \in Armed, SetHeap(Disarm(Heap, t))
  PROVE  HeapNextOK(t) /\ t \notin Armed'
<1>1. PICK h : h = Heap
  OBVIOUS
<1>2. PICK g : g = Disarm(h, t)
  OBVIOUS
<1>3. GoodHeap(h) /\ h.heap_idx[t] # -1 /\ h.heap_idx = heap_idx /\ h.deadline = deadline
  BY <1>1, HeapNow DEF TimersInv
<1>4. GoodHeap(g) /\ g.heap_idx[t] = -1 /\ SameOthers(g, h, t)
  BY <1>2, <1>3, DisarmFacts
<1>5. g \in Heaps /\ SetHeap(g)
  BY <1>1, <1>2, <1>4 DEF GoodHeap
<1>6. /\ Heap' = g
      /\ data' \in Seq(Timers)
      /\ heap_idx' \in [Timers -> Nat \cup {-1}]
      /\ deadline' \in [Timers -> 0 .. MaxTime]
  BY <1>5, HeapNext
<1>7. heap_idx' = g.heap_idx /\ deadline' = g.deadline
  BY <1>5 DEF SetHeap
<1>8. \A u \in Timers \ {t} : deadline'[u] = deadline[u] /\ (u \in Armed' <=> u \in Armed)
  BY <1>3, <1>4, <1>7 DEF SameOthers, Armed
<1>9. t \notin Armed'
  BY <1>4, <1>7 DEF Armed
<1>10. GoodHeap(Heap')
  BY <1>4, <1>6
<1> QED BY <1>6, <1>8, <1>9, <1>10 DEF HeapNextOK

LEMMA ArmStep ==
  ASSUME TimersInv, NEW t \in Timers, NEW time \in 0 .. MaxTime,
         SetHeap(IF heap_idx[t] = -1 THEN Arm(Heap, t, time) ELSE Rearm(Heap, t, time))
  PROVE  HeapNextOK(t) /\ t \in Armed' /\ deadline'[t] = time
<1>1. PICK h : h = Heap
  OBVIOUS
<1>2. PICK g : g = IF heap_idx[t] = -1 THEN Arm(h, t, time) ELSE Rearm(h, t, time)
  OBVIOUS
<1>3. GoodHeap(h) /\ h.heap_idx = heap_idx /\ h.deadline = deadline
  BY <1>1, HeapNow DEF TimersInv
<1>4. GoodHeap(g) /\ g.heap_idx[t] # -1 /\ g.deadline[t] = time /\ SameOthers(g, h, t)
  <2>1. CASE heap_idx[t] = -1
    BY <1>2, <1>3, <2>1, ArmFacts
  <2>2. CASE heap_idx[t] # -1
    BY <1>2, <1>3, <2>2, RearmFacts
  <2> QED BY <2>1, <2>2
<1>5. g \in Heaps /\ SetHeap(g)
  BY <1>1, <1>2, <1>4 DEF GoodHeap
<1>6. /\ Heap' = g
      /\ data' \in Seq(Timers)
      /\ heap_idx' \in [Timers -> Nat \cup {-1}]
      /\ deadline' \in [Timers -> 0 .. MaxTime]
  BY <1>5, HeapNext
<1>7. heap_idx' = g.heap_idx /\ deadline' = g.deadline
  BY <1>5 DEF SetHeap
<1>8. \A u \in Timers \ {t} : deadline'[u] = deadline[u] /\ (u \in Armed' <=> u \in Armed)
  BY <1>3, <1>4, <1>7 DEF SameOthers, Armed
<1>9. t \in Armed' /\ deadline'[t] = time
  BY <1>4, <1>7 DEF Armed
<1>10. GoodHeap(Heap')
  BY <1>4, <1>6
<1> QED BY <1>6, <1>8, <1>9, <1>10 DEF HeapNextOK

(* The first entry of a good heap, of any and of the one before or after a *)
(* step.                                                                   *)
LEMMA RootFacts ==
  ASSUME NEW h, GoodHeap(h)
  PROVE  /\ h.data \in Seq(Timers)
         /\ h.data # <<>> => /\ h.data[1] \in Timers /\ h.heap_idx[h.data[1]] # -1
                            /\ \A t \in Timers : h.heap_idx[t] # -1
                                                 => h.deadline[h.data[1]] <= h.deadline[t]
         /\ h.data = <<>> => \A t \in Timers : h.heap_idx[t] = -1
         /\ \A t \in Timers : h.heap_idx[t] = 0 => h.data # <<>> /\ h.data[1] = t
<1>1. h \in Heaps /\ Indexed(h)
  BY DEF GoodHeap
<1>2. h.data \in Seq(Timers) /\ Len(h.data) \in Nat
  BY <1>1, HeapParts
<1>3. ASSUME NEW t \in Timers, h.heap_idx[t] # -1
      PROVE  Len(h.data) >= 1 /\ h.deadline[h.data[1]] <= h.deadline[t]
  BY <1>3, RootIsLeast
<1>4. h.data # <<>> => h.data[1] \in Timers /\ h.heap_idx[h.data[1]] # -1
  <2> SUFFICES ASSUME h.data # <<>> PROVE h.data[1] \in Timers /\ h.heap_idx[h.data[1]] # -1
    OBVIOUS
  <2>1. 1 \in 1 .. Len(h.data) /\ h.data[1] \in Timers
    BY <1>2
  <2>2. h.heap_idx[h.data[1]] = 1 - 1
    BY <1>1, <2>1 DEF Indexed
  <2> QED BY <2>1, <2>2
<1>5. ASSUME h.data = <<>>, NEW t \in Timers PROVE h.heap_idx[t] = -1
  <2>1. Len(h.data) = 0
    BY <1>5
  <2> QED BY <1>3, <2>1
<1>6. ASSUME NEW t \in Timers, h.heap_idx[t] = 0 PROVE h.data # <<>> /\ h.data[1] = t
  <2>1. 0 < Len(h.data) /\ h.data[0 + 1] = t
    BY <1>1, <1>6 DEF Indexed
  <2> QED BY <1>2, <2>1
<1> QED BY <1>2, <1>3, <1>4, <1>5, <1>6

LEMMA RootNow ==
  ASSUME GoodHeap(Heap)
  PROVE  /\ data \in Seq(Timers)
         /\ data # <<>> => data[1] \in Armed /\ \A t \in Armed : deadline[data[1]] <= deadline[t]
         /\ data = <<>> => Armed = {}
<1>1. PICK h : h = Heap
  OBVIOUS
<1>2. GoodHeap(h) /\ h.data = data /\ h.heap_idx = heap_idx /\ h.deadline = deadline
  BY <1>1, HeapNow
<1> QED BY <1>2, RootFacts DEF Armed

LEMMA RootNext ==
  ASSUME GoodHeap(Heap')
  PROVE  /\ data' # <<>> => /\ data'[1] \in Armed'
                            /\ \A t \in Armed' : deadline'[data'[1]] <= deadline'[t]
         /\ data' = <<>> => Armed' = {}
         /\ \A t \in Armed' : heap_idx'[t] = 0 => data' # <<>> /\ data'[1] = t
<1>1. PICK h : h = Heap'
  OBVIOUS
<1>2. GoodHeap(h) /\ h.data = data' /\ h.heap_idx = heap_idx' /\ h.deadline = deadline'
  BY <1>1 DEF Heap
<1> QED BY <1>2, RootFacts DEF Armed

-----------------------------------------------------------------------------
(* The actions, one by one.                                                *)
LEMMA TimersInitOK == TimersInit => TimersInv
<1> SUFFICES ASSUME TimersInit PROVE TimersInv
  OBVIOUS
<1>1. TimersTypeOK
  BY TimerHeapAssumption DEF TimersInit, TimersTypeOK
<1>2. PICK h : h = Heap
  OBVIOUS
<1>3. h.data = <<>> /\ h.heap_idx = heap_idx /\ h.deadline = deadline
  BY <1>2 DEF Heap, TimersInit
<1>4. h \in Heaps
  BY <1>1, <1>2 DEF Heap, Heaps, TimersTypeOK
<1>5. Len(h.data) = 0
  BY <1>3
<1>6. Indexed(h) /\ Ordered(h)
  BY <1>3, <1>5 DEF Indexed, Ordered, TimersInit
<1>7. GoodHeap(Heap)
  BY <1>2, <1>4, <1>6 DEF GoodHeap
<1>8. Armed = {}
  BY DEF Armed, TimersInit
<1>9. SpaceInv
  BY FS_EmptySet DEF SpaceInv, TimersInit
<1>10. DispatchInv
  BY DEF DispatchInv, TimersInit
<1> QED BY <1>1, <1>7, <1>8, <1>9, <1>10 DEF TimersInv, ArmedCovered

(* Between dispatches and in the functions of timers, only that the list   *)
(* is empty between them matters.                                          *)
LEMMA UserCodeKeepsList ==
  ASSUME TimersInv, UserCode, UNCHANGED dueVars
  PROVE  DispatchInv'
BY DEF TimersInv, DispatchInv, UserCode, dueVars

LEMMA HeapStays ==
  ASSUME TimersInv, UNCHANGED heapVars
  PROVE  Heap' = Heap /\ GoodHeap(Heap)' /\ Armed' = Armed /\ data' = data /\ deadline' = deadline
BY DEF TimersInv, heapVars, Heap, Armed, GoodHeap, Heaps, Indexed, Ordered, Key

LEMMA AddTimerStep ==
  ASSUME TimersInv, NEW t \in Timers, AddTimer(t)
  PROVE  TimersInv'
<1>1. /\ UserCode /\ t \notin existing \cup removed
      /\ existing' = existing \cup {t}
      /\ count' = count + 1
      /\ space' = IF count + 1 <= space THEN space
                  ELSE IF space >= MinSpace THEN 2 * space ELSE MinSpace
      /\ UNCHANGED heapVars /\ UNCHANGED <<removed, timerfd, now>> /\ UNCHANGED dueVars
  BY DEF AddTimer, dueVars
<1>2. Heap' = Heap /\ GoodHeap(Heap)' /\ Armed' = Armed /\ deadline' = deadline
  BY <1>1, HeapStays
<1>3. count \in Nat /\ space \in Nat /\ MinSpace \in Nat /\ MinSpace # 0
  BY TimerHeapAssumption DEF TimersInv, TimersTypeOK
<1>4. SpaceInv'
  <2>1. IsFiniteSet(existing') /\ Cardinality(existing') = Cardinality(existing) + 1
    BY <1>1, FS_AddElement DEF TimersInv, SpaceInv
  <2>2. count <= space /\ count = Cardinality(existing)
    BY DEF TimersInv, SpaceInv
  <2>3. count + 1 <= space'
    BY <1>1, <1>3, <2>2
  <2> QED BY <1>1, <2>1, <2>2, <2>3 DEF SpaceInv
<1>5. TimersTypeOK'
  <2>1. count' \in Nat /\ space' \in Nat
    BY <1>1, <1>3
  <2>2. existing' \subseteq Timers /\ removed' \subseteq Timers \ existing'
    BY <1>1 DEF TimersInv, TimersTypeOK
  <2> QED BY <1>1, <2>1, <2>2 DEF TimersInv, TimersTypeOK, heapVars, dueVars
<1>6. ArmedCovered'
  BY <1>1, <1>2 DEF TimersInv, ArmedCovered
<1>7. DispatchInv'
  BY <1>1, UserCodeKeepsList
<1> QED BY <1>2, <1>4, <1>5, <1>6, <1>7 DEF TimersInv

LEMMA TimerArmStep ==
  ASSUME TimersInv, NEW t \in Timers, NEW delay \in 1 .. MaxTime, TimerArm(t, delay)
  PROVE  TimersInv'
<1>1. PICK time : time = now + delay
  OBVIOUS
<1>2. time \in 0 .. MaxTime /\ time >= 1
  BY <1>1, TimerHeapAssumption DEF TimersInv, TimersTypeOK, TimerArm
<1>3. /\ UserCode /\ t \in existing
      /\ SetHeap(IF heap_idx[t] = -1 THEN Arm(Heap, t, time) ELSE Rearm(Heap, t, time))
      /\ timerfd' = IF heap_idx'[t] = 0 THEN time ELSE timerfd
      /\ UNCHANGED spaceVars /\ UNCHANGED lifeVars /\ now' = now /\ UNCHANGED dueVars
  BY <1>1 DEF TimerArm
<1>4. HeapNextOK(t) /\ t \in Armed' /\ deadline'[t] = time
  BY <1>2, <1>3, ArmStep
<1>5. /\ data' \in Seq(Timers)
      /\ heap_idx' \in [Timers -> Nat \cup {-1}]
      /\ deadline' \in [Timers -> 0 .. MaxTime]
      /\ GoodHeap(Heap')
      /\ \A u \in Timers \ {t} : deadline'[u] = deadline[u] /\ (u \in Armed' <=> u \in Armed)
  BY <1>4 DEF HeapNextOK
<1>6. PICK r : r = data'[1]
  OBVIOUS
<1>7. /\ r \in Armed' /\ \A u \in Armed' : deadline'[r] <= deadline'[u]
      /\ heap_idx'[t] = 0 => r = t
  BY <1>4, <1>5, <1>6, RootNext
<1>8. ArmedCovered'
  <2> SUFFICES ASSUME NEW u \in Armed'
               PROVE  u \in existing' /\ deadline'[u] >= 1 /\ timerfd' # 0 /\ timerfd' <= deadline'[u]
    BY DEF ArmedCovered
  <2>1. u \in Timers /\ r \in Timers /\ existing' = existing
    BY <1>3, <1>7 DEF Armed, lifeVars
  <2>2. u \in existing' /\ deadline'[u] >= 1
    <3>1. CASE u = t
      BY <1>2, <1>3, <1>4, <2>1, <3>1
    <3>2. CASE u # t
      BY <1>5, <2>1, <3>2 DEF TimersInv, ArmedCovered
    <3> QED BY <3>1, <3>2
  <2>3. CASE heap_idx'[t] = 0
    BY <1>2, <1>3, <1>4, <1>7, <2>2, <2>3
  <2>4. CASE heap_idx'[t] # 0
    <3>1. timerfd' = timerfd
      BY <1>3, <2>4
    <3>2. CASE r # t
      <4>1. deadline'[r] = deadline[r] /\ r \in Armed
        BY <1>5, <1>7, <2>1, <3>2
      <4>2. timerfd # 0 /\ timerfd <= deadline[r]
        BY <4>1 DEF TimersInv, ArmedCovered
      <4>3. deadline'[r] <= deadline'[u]
        BY <1>7
      <4>4. timerfd \in Nat /\ deadline'[r] \in Nat /\ deadline'[u] \in Nat
        BY <1>5, <2>1, TimerHeapAssumption DEF TimersInv, TimersTypeOK
      <4> QED BY <2>2, <3>1, <4>1, <4>2, <4>3, <4>4
    <3>3. CASE r = t
      <4>1. PICK h : h = Heap'
        OBVIOUS
      <4>2. h.data = data' /\ h.heap_idx = heap_idx' /\ GoodHeap(h)
        BY <1>5, <4>1 DEF Heap
      <4>3. t \in Timers /\ h.heap_idx[t] # -1
        BY <1>4, <4>2 DEF Armed
      <4>4. h.heap_idx[h.data[1]] = 0
        BY <4>2, <4>3, RootIsLeast
      <4> QED BY <1>6, <2>4, <3>3, <4>2, <4>4
    <3> QED BY <3>2, <3>3
  <2> QED BY <2>3, <2>4
<1>9. TimersTypeOK'
  <2>1. timerfd' \in 0 .. MaxTime
    BY <1>2, <1>3 DEF TimersInv, TimersTypeOK
  <2> QED BY <1>3, <1>5, <2>1 DEF TimersInv, TimersTypeOK, spaceVars, lifeVars, dueVars
<1>10. SpaceInv'
  BY <1>3 DEF TimersInv, SpaceInv, spaceVars, lifeVars
<1>11. DispatchInv'
  BY <1>3, UserCodeKeepsList
<1> QED BY <1>5, <1>8, <1>9, <1>10, <1>11 DEF TimersInv

LEMMA TimerDisarmStep ==
  ASSUME TimersInv, NEW t \in Timers, TimerDisarm(t)
  PROVE  /\ HeapNextOK(t) /\ t \notin Armed'
         /\ timerfd' \in 0 .. MaxTime
         /\ \A u \in Armed' : u \in Armed /\ deadline'[u] = deadline[u] /\ timerfd' = timerfd
<1>1. CASE heap_idx[t] = -1 /\ UNCHANGED <<heapVars, timerfd>>
  <2>1. Heap' = Heap /\ Armed' = Armed /\ deadline' = deadline /\ t \notin Armed
    BY <1>1, HeapStays DEF Armed
  <2>2. GoodHeap(Heap')
    BY <2>1 DEF TimersInv
  <2> QED BY <1>1, <2>1, <2>2 DEF TimersInv, TimersTypeOK, HeapNextOK, heapVars
<1>2. CASE heap_idx[t] # -1 /\ SetHeap(Disarm(Heap, t)) /\ timerfd' = IF data' = <<>> THEN 0 ELSE timerfd
  <2>1. HeapNextOK(t) /\ t \notin Armed'
    BY <1>2, DisarmStep DEF Armed
  <2>2. data' = <<>> => Armed' = {}
    BY <2>1, RootNext DEF HeapNextOK
  <2>3. timerfd' \in 0 .. MaxTime
    BY <1>2, TimerHeapAssumption DEF TimersInv, TimersTypeOK
  <2>4. ASSUME NEW u \in Armed' PROVE u \in Armed /\ deadline'[u] = deadline[u] /\ timerfd' = timerfd
    <3>1. u \in Timers \ {t}
      BY <2>1 DEF Armed
    <3> QED BY <1>2, <2>1, <2>2, <3>1 DEF HeapNextOK
  <2> QED BY <2>1, <2>3, <2>4
<1> QED BY <1>1, <1>2 DEF TimerDisarm

LEMMA DisarmTimerStep ==
  ASSUME TimersInv, NEW t \in Timers, DisarmTimer(t)
  PROVE  TimersInv'
<1>1. /\ UserCode /\ t \in existing /\ TimerDisarm(t)
      /\ UNCHANGED spaceVars /\ UNCHANGED lifeVars /\ now' = now /\ UNCHANGED dueVars
  BY DEF DisarmTimer
<1>2. /\ HeapNextOK(t)
      /\ timerfd' \in 0 .. MaxTime
      /\ \A u \in Armed' : u \in Armed /\ deadline'[u] = deadline[u] /\ timerfd' = timerfd
  BY <1>1, TimerDisarmStep
<1>3. TimersTypeOK'
  BY <1>1, <1>2 DEF TimersInv, TimersTypeOK, HeapNextOK, spaceVars, lifeVars, dueVars
<1>4. ArmedCovered'
  BY <1>1, <1>2 DEF TimersInv, ArmedCovered, lifeVars
<1>5. SpaceInv'
  BY <1>1 DEF TimersInv, SpaceInv, spaceVars, lifeVars
<1>6. DispatchInv'
  BY <1>1, UserCodeKeepsList
<1>7. GoodHeap(Heap)'
  BY <1>2 DEF HeapNextOK
<1> QED BY <1>3, <1>4, <1>5, <1>6, <1>7 DEF TimersInv

LEMMA RemoveTimerStep ==
  ASSUME TimersInv, NEW t \in Timers, RemoveTimer(t)
  PROVE  TimersInv'
<1>1. /\ UserCode /\ t \in existing /\ TimerDisarm(t) /\ Unreserve
      /\ existing' = existing \ {t}
      /\ removed' = removed \cup {t}
      /\ now' = now /\ UNCHANGED dueVars
  BY DEF RemoveTimer
<1>2. /\ HeapNextOK(t) /\ t \notin Armed'
      /\ timerfd' \in 0 .. MaxTime
      /\ \A u \in Armed' : u \in Armed /\ deadline'[u] = deadline[u] /\ timerfd' = timerfd
  BY <1>1, TimerDisarmStep
<1>3. count \in Nat /\ space \in Nat /\ MinSpace \in Nat /\ MinSpace # 0
  BY TimerHeapAssumption DEF TimersInv, TimersTypeOK
<1>4. /\ IsFiniteSet(existing') /\ Cardinality(existing') = count - 1
      /\ Cardinality(existing') \in Nat /\ count <= space
  <2>1. IsFiniteSet(existing) /\ count = Cardinality(existing) /\ count <= space
    BY DEF TimersInv, SpaceInv
  <2>2. IsFiniteSet(existing') /\ Cardinality(existing') = Cardinality(existing) - 1
    BY <1>1, <2>1, FS_RemoveElement
  <2> QED BY <2>1, <2>2, FS_CardinalityType
<1>5. count' = count - 1 /\ count' \in Nat /\ space' \in Nat /\ count' <= space'
  <2>1. count' = count - 1 /\ (space' = space \/ (space >= 4 * (count - 1) /\ space' = space \div 2))
    BY <1>1 DEF Unreserve
  <2> QED BY <1>3, <1>4, <2>1
<1>6. SpaceInv'
  BY <1>4, <1>5 DEF SpaceInv
<1>7. TimersTypeOK'
  <2>1. existing' \subseteq Timers /\ removed' \subseteq Timers \ existing'
    BY <1>1 DEF TimersInv, TimersTypeOK
  <2> QED BY <1>1, <1>2, <1>5, <2>1 DEF TimersInv, TimersTypeOK, HeapNextOK, dueVars
<1>8. ArmedCovered'
  BY <1>1, <1>2 DEF TimersInv, ArmedCovered
<1>9. DispatchInv'
  BY <1>1, UserCodeKeepsList
<1>10. GoodHeap(Heap)'
  BY <1>2 DEF HeapNextOK
<1> QED BY <1>6, <1>7, <1>8, <1>9, <1>10 DEF TimersInv

LEMMA TickStep ==
  ASSUME TimersInv, Tick
  PROVE  TimersInv'
<1>1. /\ dispatching # "collecting" /\ now < MaxTime /\ now' = now + 1
      /\ UNCHANGED heapVars /\ UNCHANGED spaceVars /\ UNCHANGED lifeVars /\ timerfd' = timerfd
      /\ UNCHANGED dueVars
  BY DEF Tick
<1>2. GoodHeap(Heap)' /\ Armed' = Armed /\ deadline' = deadline
  BY <1>1, HeapStays
<1>3. TimersTypeOK'
  <2>1. now' \in 1 .. MaxTime
    BY <1>1, TimerHeapAssumption DEF TimersInv, TimersTypeOK
  <2> QED BY <1>1, <2>1 DEF TimersInv, TimersTypeOK, heapVars, spaceVars, lifeVars, dueVars
<1>4. ArmedCovered' /\ SpaceInv'
  BY <1>1, <1>2 DEF TimersInv, ArmedCovered, SpaceInv, spaceVars, lifeVars
<1>5. DispatchInv'
  BY <1>1 DEF TimersInv, DispatchInv, dueVars, lifeVars, ListInOrder, ListExists, OnList
<1> QED BY <1>2, <1>3, <1>4, <1>5 DEF TimersInv

(* A dispatch reads the clock: what is due is what is armed and due.       *)
LEMMA ReadClockStep ==
  ASSUME TimersInv, ReadClock
  PROVE  TimersInv'
<1>1. /\ dispatching = "no" /\ dispatching' = "collecting"
      /\ expired' = ArmedAndDue
      /\ UNCHANGED heapVars /\ UNCHANGED spaceVars /\ UNCHANGED lifeVars
      /\ timerfd' = timerfd /\ now' = now /\ due' = due
  BY DEF ReadClock, ArmedAndDue, EntryOf, Armed
<1>2. GoodHeap(Heap)' /\ Armed' = Armed /\ deadline' = deadline
  BY <1>1, HeapStays
<1>3. due = <<>>
  BY <1>1 DEF TimersInv, DispatchInv
<1>4. ArmedAndDue' = ArmedAndDue
  BY <1>1, <1>2 DEF ArmedAndDue, EntryOf
<1>5. TimersTypeOK'
  <2>1. ArmedAndDue \subseteq Due
    <3> SUFFICES ASSUME NEW t \in Armed PROVE EntryOf(t) \in Due
      BY DEF ArmedAndDue
    <3>1. t \in Timers /\ deadline[t] \in 0 .. MaxTime /\ deadline[t] >= 1
      BY DEF TimersInv, TimersTypeOK, ArmedCovered, Armed
    <3>2. deadline[t] \in 1 .. MaxTime
      BY <3>1, TimerHeapAssumption
    <3> QED BY <3>1, <3>2 DEF EntryOf, Due
  <2> QED BY <1>1, <2>1 DEF TimersInv, TimersTypeOK, heapVars, spaceVars, lifeVars
<1>6. ArmedCovered' /\ SpaceInv'
  BY <1>1, <1>2 DEF TimersInv, ArmedCovered, SpaceInv, spaceVars, lifeVars
<1>7. DispatchInv'
  <2>1. DOMAIN due' = {} /\ OnList' = {}
    BY <1>1, <1>3 DEF OnList
  <2> QED BY <1>1, <1>4, <2>1 DEF DispatchInv, ListInOrder, ListBeforeArmed, ListExists
<1> QED BY <1>2, <1>5, <1>6, <1>7 DEF TimersInv

(* The root goes to the end of the list.                                   *)
LEMMA TakeDueStep ==
  ASSUME TimersInv, TakeDue
  PROVE  TimersInv'
<1>1. PICK r : r = data[1]
  OBVIOUS
<1>2. PICK e : e = EntryOf(r)
  OBVIOUS
<1>3. /\ dispatching = "collecting" /\ data # <<>> /\ deadline[r] <= now
      /\ due' = Append(due, e)
      /\ SetHeap(Disarm(Heap, r))
      /\ UNCHANGED spaceVars /\ UNCHANGED lifeVars /\ timerfd' = timerfd /\ now' = now
      /\ expired' = expired /\ dispatching' = dispatching
  BY <1>1, <1>2 DEF TakeDue, RootIsDue, EntryOf
<1>4. r \in Armed /\ r \in Timers /\ \A t \in Armed : deadline[r] <= deadline[t]
  BY <1>1, <1>3, RootNow DEF TimersInv, Armed
<1>5. HeapNextOK(r) /\ r \notin Armed'
  BY <1>3, <1>4, DisarmStep
<1>6. ASSUME NEW t
      PROVE  t \in Armed' <=> t \in Armed /\ t # r
  <2>1. t \in Armed' => t \in Timers
    BY DEF Armed
  <2>2. t \in Armed => t \in Timers
    BY DEF Armed
  <2> QED BY <1>5, <2>1, <2>2 DEF HeapNextOK
<1>7. ASSUME NEW t \in Armed' PROVE t \in Armed /\ t # r /\ t \in Timers /\ deadline'[t] = deadline[t]
  <2>1. t \in Timers \ {r}
    BY <1>5 DEF Armed
  <2> QED BY <1>5, <1>6, <2>1 DEF HeapNextOK
<1>8. e \in Due /\ e.timer = r /\ e.deadline = deadline[r]
  <2>1. deadline[r] \in 0 .. MaxTime /\ deadline[r] >= 1
    BY <1>4 DEF TimersInv, TimersTypeOK, ArmedCovered
  <2>2. deadline[r] \in 1 .. MaxTime
    BY <2>1, TimerHeapAssumption
  <2> QED BY <1>2, <1>4, <2>2 DEF EntryOf, Due
<1>9. /\ due \in Seq(Due) /\ Len(due) \in Nat /\ due' \in Seq(Due)
      /\ DOMAIN due = 1 .. Len(due) /\ DOMAIN due' = 1 .. Len(due) + 1
      /\ \A i \in 1 .. Len(due) : due'[i] = due[i]
      /\ due'[Len(due) + 1] = e
  BY <1>3, <1>8 DEF TimersInv, TimersTypeOK
<1>10. ListInOrder /\ ListBeforeArmed /\ ListExists /\ expired = OnList \cup ArmedAndDue
  BY <1>3 DEF TimersInv, DispatchInv
<1>11. TimersTypeOK'
  BY <1>3, <1>5, <1>9 DEF TimersInv, TimersTypeOK, HeapNextOK, spaceVars, lifeVars
<1>12. ArmedCovered'
  BY <1>3, <1>7 DEF TimersInv, ArmedCovered, lifeVars
<1>13. SpaceInv'
  BY <1>3 DEF TimersInv, SpaceInv, spaceVars, lifeVars
<1>14. ListInOrder'
  <2> SUFFICES ASSUME NEW i \in DOMAIN due', NEW j \in DOMAIN due', i < j
               PROVE  due'[i].deadline <= due'[j].deadline /\ due'[i].timer # due'[j].timer
    BY DEF ListInOrder
  <2>1. i \in 1 .. Len(due) /\ due'[i] = due[i]
    BY <1>9
  <2>2. CASE j = Len(due) + 1
    <3>1. due[i].timer \notin Armed /\ due[i].deadline <= deadline[r]
      BY <1>4, <1>9, <1>10, <2>1 DEF ListBeforeArmed
    <3> QED BY <1>4, <1>8, <1>9, <2>1, <2>2, <3>1
  <2>3. CASE j # Len(due) + 1
    <3>1. j \in 1 .. Len(due)
      BY <1>9, <2>3
    <3> QED BY <1>9, <1>10, <2>1, <3>1 DEF ListInOrder
  <2> QED BY <2>2, <2>3
<1>15. ListBeforeArmed'
  <2> SUFFICES ASSUME NEW i \in DOMAIN due'
               PROVE  due'[i].timer \notin Armed' /\ \A t \in Armed' : due'[i].deadline <= deadline'[t]
    BY DEF ListBeforeArmed
  <2>1. CASE i = Len(due) + 1
    BY <1>4, <1>5, <1>7, <1>8, <1>9, <2>1
  <2>2. CASE i # Len(due) + 1
    <3>1. i \in 1 .. Len(due) /\ due'[i] = due[i]
      BY <1>9, <2>2
    <3>2. due[i].timer \notin Armed /\ \A t \in Armed : due[i].deadline <= deadline[t]
      BY <1>9, <1>10, <3>1 DEF ListBeforeArmed
    <3> QED BY <1>6, <1>7, <3>1, <3>2
  <2> QED BY <2>1, <2>2
<1>16. OnList' = OnList \cup {e}
  <2>1. \A x \in OnList' : x \in OnList \cup {e}
    <3> SUFFICES ASSUME NEW i \in DOMAIN due' PROVE due'[i] \in OnList \cup {e}
      BY DEF OnList
    <3>1. i = Len(due) + 1 \/ i \in 1 .. Len(due)
      BY <1>9
    <3> QED BY <1>9, <3>1 DEF OnList
  <2>2. e \in OnList'
    <3>1. Len(due) + 1 \in DOMAIN due'
      BY <1>9
    <3> QED BY <1>9, <3>1 DEF OnList
  <2>3. \A x \in OnList : x \in OnList'
    <3> SUFFICES ASSUME NEW i \in DOMAIN due PROVE due[i] \in OnList'
      BY DEF OnList
    <3>1. i \in DOMAIN due' /\ due'[i] = due[i]
      BY <1>9
    <3> QED BY <3>1 DEF OnList
  <2> QED BY <2>1, <2>2, <2>3
<1>17. ArmedAndDue = ArmedAndDue' \cup {e}
  <2>1. e \in ArmedAndDue
    BY <1>2, <1>3, <1>4 DEF ArmedAndDue
  <2>2. ASSUME NEW t \in Armed, deadline[t] <= now PROVE EntryOf(t) \in ArmedAndDue' \cup {e}
    <3>1. CASE t = r
      BY <1>2, <3>1
    <3>2. CASE t # r
      <4>1. t \in Armed' /\ deadline'[t] = deadline[t]
        BY <1>6, <1>7, <3>2
      <4>2. deadline'[t] <= now' /\ EntryOf(t) = EntryOf(t)'
        BY <1>3, <2>2, <4>1 DEF EntryOf
      <4> QED BY <4>1, <4>2 DEF ArmedAndDue
    <3> QED BY <3>1, <3>2
  <2>3. ASSUME NEW t \in Armed', deadline'[t] <= now' PROVE EntryOf(t)' \in ArmedAndDue
    <3>1. t \in Armed /\ deadline'[t] = deadline[t] /\ deadline[t] <= now
      BY <1>3, <1>7, <2>3
    <3>2. EntryOf(t)' = EntryOf(t)
      BY <3>1 DEF EntryOf
    <3> QED BY <3>1, <3>2 DEF ArmedAndDue
  <2>4. \A x \in ArmedAndDue : x \in ArmedAndDue' \cup {e}
    BY <2>2 DEF ArmedAndDue
  <2>5. \A x \in ArmedAndDue' : x \in ArmedAndDue
    BY <2>3 DEF ArmedAndDue
  <2> QED BY <2>1, <2>4, <2>5
<1>18. ListExists'
  <2> SUFFICES ASSUME NEW i \in DOMAIN due' PROVE due'[i].timer \in existing
    BY <1>3 DEF ListExists, lifeVars
  <2>1. CASE i = Len(due) + 1
    BY <1>4, <1>8, <1>9, <2>1 DEF TimersInv, ArmedCovered
  <2>2. CASE i # Len(due) + 1
    <3>1. i \in 1 .. Len(due) /\ due'[i] = due[i]
      BY <1>9, <2>2
    <3> QED BY <1>9, <1>10, <3>1 DEF ListExists
  <2> QED BY <2>1, <2>2
<1>19. DispatchInv'
  BY <1>3, <1>10, <1>14, <1>15, <1>16, <1>17, <1>18 DEF DispatchInv
<1>20. GoodHeap(Heap)'
  BY <1>5 DEF HeapNextOK
<1> QED BY <1>11, <1>12, <1>13, <1>19, <1>20 DEF TimersInv

(* Nothing is due any more: no armed timer is, and the timerfd is set for  *)
(* the earliest.                                                           *)
LEMMA SetTimerStep ==
  ASSUME TimersInv, SetTimer
  PROVE  TimersInv'
<1>1. /\ dispatching = "collecting" /\ ~RootIsDue /\ dispatching' = "collected"
      /\ timerfd' = IF data = <<>> THEN 0 ELSE deadline[data[1]]
      /\ UNCHANGED heapVars /\ UNCHANGED spaceVars /\ UNCHANGED lifeVars
      /\ now' = now /\ due' = due /\ expired' = expired
  BY DEF SetTimer
<1>2. GoodHeap(Heap)' /\ Armed' = Armed /\ deadline' = deadline
  BY <1>1, HeapStays
<1>3. /\ data # <<>> => data[1] \in Armed /\ \A t \in Armed : deadline[data[1]] <= deadline[t]
      /\ data = <<>> => Armed = {}
  BY RootNow DEF TimersInv
<1>4. \A t \in Armed : t \in Timers /\ deadline[t] \in 0 .. MaxTime /\ deadline[t] >= 1 /\ t \in existing
  BY DEF TimersInv, TimersTypeOK, ArmedCovered, Armed
<1>5. TimersTypeOK'
  <2>1. timerfd' \in 0 .. MaxTime
    BY <1>1, <1>3, <1>4, TimerHeapAssumption
  <2> QED BY <1>1, <2>1 DEF TimersInv, TimersTypeOK, heapVars, spaceVars, lifeVars
<1>6. ArmedCovered'
  <2> SUFFICES ASSUME NEW t \in Armed
               PROVE  t \in existing' /\ deadline[t] >= 1 /\ timerfd' # 0 /\ timerfd' <= deadline[t]
    BY <1>2 DEF ArmedCovered
  <2>1. data # <<>> /\ timerfd' = deadline[data[1]] /\ data[1] \in Armed
    BY <1>1, <1>3
  <2>2. timerfd' # 0 /\ timerfd' <= deadline[t]
    BY <1>3, <1>4, <2>1
  <2> QED BY <1>1, <1>4, <2>2 DEF lifeVars
<1>7. SpaceInv'
  BY <1>1 DEF TimersInv, SpaceInv, spaceVars, lifeVars
<1>8. ArmedAndDue = {}
  <2> SUFFICES ASSUME NEW t \in Armed, deadline[t] <= now PROVE FALSE
    BY DEF ArmedAndDue
  <2>1. data # <<>> /\ data[1] \in Armed /\ deadline[data[1]] <= deadline[t]
    BY <1>3
  <2>2. ~(deadline[data[1]] <= now)
    BY <1>1, <2>1 DEF RootIsDue
  <2>3. deadline[data[1]] \in 0 .. MaxTime /\ deadline[t] \in 0 .. MaxTime /\ now \in 1 .. MaxTime
    BY <1>4, <2>1 DEF TimersInv, TimersTypeOK
  <2> QED BY <2>1, <2>2, <2>3, TimerHeapAssumption
<1>9. DispatchInv'
  <2>1. ListInOrder /\ ListExists /\ expired = OnList
    BY <1>1, <1>8 DEF TimersInv, DispatchInv
  <2>2. ListInOrder' /\ ListExists' /\ OnList' = OnList
    BY <1>1, <2>1 DEF ListInOrder, ListExists, OnList, lifeVars
  <2> QED BY <1>1, <2>1, <2>2 DEF DispatchInv
<1> QED BY <1>2, <1>5, <1>6, <1>7, <1>9 DEF TimersInv

(* The first call always happens: nothing was removed since the clock was  *)
(* read.                                                                   *)
LEMMA CallDueStep ==
  ASSUME TimersInv, CallDue
  PROVE  TimersInv'
<1>1. /\ dispatching \in {"collected", "calling"} /\ due # <<>> /\ due' = Tail(due)
      /\ dispatching' = IF Head(due).timer \in removed THEN dispatching ELSE "calling"
      /\ UNCHANGED heapVars /\ UNCHANGED spaceVars /\ UNCHANGED lifeVars
      /\ timerfd' = timerfd /\ now' = now /\ expired' = expired
  BY DEF CallDue
<1>2. GoodHeap(Heap)' /\ Armed' = Armed /\ deadline' = deadline
  BY <1>1, HeapStays
<1>3. dispatching' = "calling"
  <2>1. CASE dispatching = "collected"
    <3>1. 1 \in DOMAIN due /\ Head(due) = due[1]
      BY <1>1 DEF TimersInv, TimersTypeOK
    <3>2. Head(due).timer \in existing
      BY <2>1, <3>1 DEF TimersInv, DispatchInv, ListExists
    <3>3. Head(due).timer \notin removed
      BY <3>2 DEF TimersInv, TimersTypeOK
    <3> QED BY <1>1, <3>3
  <2>2. CASE dispatching = "calling"
    BY <1>1, <2>2
  <2> QED BY <1>1, <2>1, <2>2
<1>4. TimersTypeOK'
  <2>1. due' \in Seq(Due)
    BY <1>1 DEF TimersInv, TimersTypeOK
  <2> QED BY <1>1, <1>3, <2>1 DEF TimersInv, TimersTypeOK, heapVars, spaceVars, lifeVars
<1>5. ArmedCovered' /\ SpaceInv'
  BY <1>1, <1>2 DEF TimersInv, ArmedCovered, SpaceInv, spaceVars, lifeVars
<1>6. DispatchInv'
  BY <1>3 DEF DispatchInv
<1> QED BY <1>2, <1>4, <1>5, <1>6 DEF TimersInv

LEMMA EndDispatchStep ==
  ASSUME TimersInv, EndDispatch
  PROVE  TimersInv'
<1>1. /\ due = <<>> /\ dispatching' = "no" /\ removed' = {} /\ expired' = {}
      /\ UNCHANGED heapVars /\ UNCHANGED spaceVars /\ existing' = existing
      /\ timerfd' = timerfd /\ now' = now /\ due' = due
  BY DEF EndDispatch
<1>2. GoodHeap(Heap)' /\ Armed' = Armed /\ deadline' = deadline
  BY <1>1, HeapStays
<1>3. TimersTypeOK'
  BY <1>1 DEF TimersInv, TimersTypeOK, heapVars, spaceVars
<1>4. ArmedCovered' /\ SpaceInv'
  BY <1>1, <1>2 DEF TimersInv, ArmedCovered, SpaceInv, spaceVars
<1>5. DispatchInv'
  BY <1>1 DEF DispatchInv
<1> QED BY <1>2, <1>3, <1>4, <1>5 DEF TimersInv

(* The invariant is inductive.                                             *)
LEMMA TimersStep == TimersInv /\ [TimersNext]_timerVars => TimersInv'
<1> SUFFICES ASSUME TimersInv, [TimersNext]_timerVars PROVE TimersInv'
  OBVIOUS
<1>1. ASSUME NEW t \in Timers, AddTimer(t) PROVE TimersInv'
  BY <1>1, AddTimerStep
<1>2. ASSUME NEW t \in Timers, NEW delay \in 1 .. MaxTime, TimerArm(t, delay) PROVE TimersInv'
  BY <1>2, TimerArmStep
<1>3. ASSUME NEW t \in Timers, DisarmTimer(t) PROVE TimersInv'
  BY <1>3, DisarmTimerStep
<1>4. ASSUME NEW t \in Timers, RemoveTimer(t) PROVE TimersInv'
  BY <1>4, RemoveTimerStep
<1>5. CASE Tick
  BY <1>5, TickStep
<1>6. CASE ReadClock
  BY <1>6, ReadClockStep
<1>7. CASE TakeDue
  BY <1>7, TakeDueStep
<1>8. CASE SetTimer
  BY <1>8, SetTimerStep
<1>9. CASE CallDue
  BY <1>9, CallDueStep
<1>10. CASE EndDispatch
  BY <1>10, EndDispatchStep
<1>11. CASE UNCHANGED timerVars
  <2>1. /\ UNCHANGED heapVars /\ UNCHANGED spaceVars /\ UNCHANGED lifeVars
        /\ timerfd' = timerfd /\ now' = now /\ UNCHANGED dueVars
    BY <1>11 DEF timerVars
  <2>2. GoodHeap(Heap)' /\ Armed' = Armed /\ deadline' = deadline
    BY <2>1, HeapStays
  <2>3. TimersTypeOK'
    BY <2>1 DEF TimersInv, TimersTypeOK, heapVars, spaceVars, lifeVars, dueVars
  <2>4. ArmedCovered' /\ SpaceInv'
    BY <2>1, <2>2 DEF TimersInv, ArmedCovered, SpaceInv, spaceVars, lifeVars
  <2>5. DispatchInv'
    <3>1. ArmedAndDue' = ArmedAndDue /\ OnList' = OnList
      BY <2>1, <2>2 DEF ArmedAndDue, EntryOf, OnList, dueVars
    <3> QED BY <2>1, <2>2, <3>1
            DEF TimersInv, DispatchInv, dueVars, lifeVars, ListInOrder, ListBeforeArmed, ListExists
  <2> QED BY <2>2, <2>3, <2>4, <2>5 DEF TimersInv
<1> QED BY <1>1, <1>2, <1>3, <1>4, <1>5, <1>6, <1>7, <1>8, <1>9, <1>10, <1>11 DEF TimersNext

LEMMA TimersAlways == TimersSpec => []TimersInv
BY TimersInitOK, TimersStep, PTL DEF TimersSpec

(* What the invariant says.                                                *)
LEMMA InvImpliesHeapOK == TimersInv => HeapOK
<1> SUFFICES ASSUME TimersInv PROVE HeapOK
  OBVIOUS
<1>1. PICK h : h = Heap
  OBVIOUS
<1>2. h \in Heaps /\ Indexed(h) /\ Ordered(h)
  BY <1>1 DEF TimersInv, GoodHeap
<1>3. h.data = data /\ h.heap_idx = heap_idx /\ h.deadline = deadline
  BY <1>1, HeapNow
<1>4. DOMAIN data = 1 .. Len(data)
  BY <1>2, <1>3, HeapParts
<1>5. \A i \in DOMAIN data : heap_idx[data[i]] = i - 1
  BY <1>2, <1>3, <1>4 DEF Indexed
<1>6. \A t \in Timers : heap_idx[t] # -1 =>
        t \in existing /\ heap_idx[t] < Len(data) /\ data[heap_idx[t] + 1] = t
  BY <1>2, <1>3 DEF Indexed, TimersInv, ArmedCovered, Armed
<1>7. \A i \in 2 .. Len(data) : deadline[data[i \div 2]] <= deadline[data[i]]
  BY <1>2, <1>3 DEF Ordered, Key
<1> QED BY <1>5, <1>6, <1>7 DEF HeapOK

LEMMA InvImpliesRoomForAll == TimersInv => RoomForAll
<1> SUFFICES ASSUME TimersInv PROVE RoomForAll
  OBVIOUS
<1>1. PICK h : h = Heap
  OBVIOUS
<1>2. h \in Heaps /\ Indexed(h) /\ h.data = data /\ h.heap_idx = heap_idx
  BY <1>1, HeapNow DEF TimersInv, GoodHeap
<1>3. PICK n : n = Len(data)
  OBVIOUS
<1>4. data \in [1 .. n -> Timers] /\ n \in Nat
  BY <1>2, <1>3, HeapParts
<1>5. \A i \in 1 .. n : heap_idx[data[i]] = i - 1 /\ data[i] \in existing
  <2>1. \A i \in 1 .. n : heap_idx[data[i]] = i - 1 /\ i - 1 # -1
    BY <1>2, <1>3, <1>4 DEF Indexed
  <2> QED BY <1>4, <2>1 DEF TimersInv, ArmedCovered, Armed
<1>6. data \in Injection(1 .. n, existing)
  <2>1. data \in [1 .. n -> existing]
    BY <1>4, <1>5
  <2>2. ASSUME NEW i \in 1 .. n, NEW j \in 1 .. n, data[i] = data[j] PROVE i = j
    <3>1. i - 1 = j - 1
      BY <1>5, <2>2
    <3> QED BY <3>1
  <2> QED BY <2>1, <2>2 DEF Injection, IsInjective
<1>7. Cardinality(1 .. n) <= Cardinality(existing)
  BY <1>6, FS_Injection DEF TimersInv, SpaceInv
<1>8. Cardinality(1 .. n) = n
  BY <1>4, FS_Interval
<1> QED BY <1>3, <1>7, <1>8 DEF TimersInv, SpaceInv, RoomForAll

LEMMA InvImpliesTimerfdCovers == TimersInv => TimerfdCovers
BY RootNow DEF TimersInv, ArmedCovered, TimerfdCovers

LEMMA InvImpliesDispatchExact == TimersInv => DispatchExact
BY DEF TimersInv, DispatchInv, DispatchExact, ListInOrder, OnList

(* The array of timers and the indexes kept in the timers agree and the    *)
(* array is a heap, after every sequence of additions, updates, removals   *)
(* and dispatches.                                                         *)
THEOREM TimersInHeap == TimersSpec => []HeapOK
BY TimersAlways, InvImpliesHeapOK, PTL

(* The array has room for every timer that may be armed, though arming     *)
(* never checks.                                                           *)
THEOREM TimersHaveRoom == TimersSpec => []RoomForAll
BY TimersAlways, InvImpliesRoomForAll, PTL

(* The timerfd expires no later than the earliest deadline.                *)
THEOREM TimersAreWoken == TimersSpec => []TimerfdCovers
BY TimersAlways, InvImpliesTimerfdCovers, PTL

(* A dispatch lists exactly the timers that were due, in order.            *)
THEOREM TimersDispatched == TimersSpec => []DispatchExact
BY TimersAlways, InvImpliesDispatchExact, PTL
=============================================================================
