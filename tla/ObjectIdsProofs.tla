-------------------------- MODULE ObjectIdsProofs ---------------------------
(***************************************************************************)
(* Proofs about ObjectIds: the two ends of a connection never mistake one  *)
(* object for another although they reuse ids, and no id is lost or handed *)
(* out twice.                                                              *)
(***************************************************************************)
EXTENDS ObjectIds, FiniteSetTheorems, TLAPS

Objects == 1 .. Len(kind)

(* The state is well-typed, and no message names an object that does not   *)
(* exist.                                                                  *)
Typed ==
    /\ TypeOK
    /\ \A k \in DOMAIN toServer : toServer[k].obj \in Objects
    /\ \A k \in DOMAIN toClient : toClient[k].obj \in 0 .. Len(kind)

-----------------------------------------------------------------------------
(* What is on its way to the server. Messages are named by their place.    *)

(* A create finds its id free, and nothing was sent to that id before.     *)
CreatesFresh ==
    /\ \A k \in DOMAIN toServer : toServer[k].op = "create" =>
        /\ toServer[k].id \in ClientIds /\ resources[toServer[k].id] = None
        /\ kind[toServer[k].obj] # "offer"
    /\ \A j, k \in DOMAIN toServer : j < k /\ toServer[k].op = "create" =>
        toServer[j].id # toServer[k].id

(* Any other request goes to an object that is registered or about to be.  *)
RequestsMeet ==
    \A k \in DOMAIN toServer : toServer[k].op # "create" =>
        /\ kind[toServer[k].obj] \in {"object", "offer"}
        /\ \/ resources[toServer[k].id] = toServer[k].obj
           \/ \E j \in DOMAIN toServer :
                /\ j < k /\ toServer[j].op = "create"
                /\ toServer[j].id = toServer[k].id /\ toServer[j].obj = toServer[k].obj

(* Nothing is sent to an object after its destructor request.              *)
DestroysLast ==
    \A j, k \in DOMAIN toServer : j < k /\ toServer[j].op = "destroy" =>
        toServer[j].id # toServer[k].id

(* The server's own ids: each is registered or waits for reuse, once.      *)
ServerIdsInv ==
    /\ \A id \in ServerIds : resources[id] # None => kind[resources[id]] = "offer" /\ id < nextId
    /\ \A id \in ClientIds : resources[id] # None => kind[resources[id]] \in {"object", "callback"}
    /\ \A i \in DOMAIN serverRecycled : resources[serverRecycled[i]] = None /\ serverRecycled[i] < nextId
    /\ \A i, j \in DOMAIN serverRecycled : serverRecycled[i] = serverRecycled[j] => i = j
    /\ \A id \in ServerIdBase .. nextId - 1 :
        resources[id] # None \/ \E i \in DOMAIN serverRecycled : serverRecycled[i] = id

ServerInv == ~serverClosed => CreatesFresh /\ RequestsMeet /\ DestroysLast /\ ServerIdsInv

-----------------------------------------------------------------------------
(* What is on its way to the client.                                       *)

(* An id of the client that was handed out and is not waiting for reuse.   *)
Waits(id) == \E i \in DOMAIN recycledIds : recycledIds[i] = id
Taken(id) == id \in ClientIds /\ id <= lastId /\ ~Waits(id)

(* How a message m fits, when those of the set `before` come before it.    *)
(* An event reaches its object or none, though an offer of the object may  *)
(* still come before; the id of the object is not reused before.           *)
EventFits(m, before) ==
    /\ m.obj # None
    /\ proxies[m.id] \in {None, m.obj}
    /\ m.id \in ClientIds => Taken(m.id)
    /\ \A e \in before : e.id = m.id =>
        e.op # "delete_id" /\ (e.op = "offer" => e.obj = m.obj)

(* A done event finds its callback, once.                                  *)
DoneFits(m, before) ==
    /\ Taken(m.id)
    /\ m.obj # None
    /\ proxies[m.id] = m.obj
    /\ kind[m.obj] \in {"callback", "sync"}
    /\ m.obj \notin fired
    /\ \A e \in before : e.id = m.id => e.op \notin {"done", "delete_id"}

(* A new object of the server finds its id free.                           *)
OfferFits(m, before) ==
    /\ m.id \in ServerIds
    /\ m.obj # None /\ kind[m.obj] = "offer"
    /\ proxies[m.id] = None
    /\ \A e \in before : e.id = m.id => e.op # "offer"

(* An id comes back once, when the client has no use for it but a callback *)
(* that is done.                                                           *)
DeleteFits(m, before) ==
    /\ Taken(m.id) /\ m.id \notin lost
    /\ \A e \in before : e.id = m.id => e.op # "delete_id"
    /\ \/ proxies[m.id] \in {None} \cup fired
       \/ \E e \in before : e.op = "done" /\ e.id = m.id

Fits(m, before) ==
    /\ m.op = "event" => EventFits(m, before)
    /\ m.op = "done" => DoneFits(m, before)
    /\ m.op = "offer" => OfferFits(m, before)
    /\ m.op = "delete_id" => DeleteFits(m, before)

Before(q, k) == {q[j] : j \in {i \in DOMAIN q : i < k}}
AllFit(q) == \A k \in DOMAIN q : Fits(q[k], Before(q, k))

(* The client's ids and proxies.                                           *)
ClientIdsInv ==
    /\ \A i \in DOMAIN recycledIds :
        recycledIds[i] <= lastId /\ proxies[recycledIds[i]] \in {None} \cup fired
    /\ \A i, j \in DOMAIN recycledIds : recycledIds[i] = recycledIds[j] => i = j
    /\ \A id \in ClientIds : proxies[id] # None => id <= lastId /\ kind[proxies[id]] # "offer"
    /\ \A id \in ServerIds : proxies[id] # None => kind[proxies[id]] = "offer"
    /\ \A id1, id2 \in ClientIds : proxies[id1] = proxies[id2] /\ proxies[id1] # None => id1 = id2
    /\ \A id \in lost : id <= lastId /\ ~Waits(id)

ClientInv == ~clientClosed => ClientIdsInv /\ AllFit(toClient)

-----------------------------------------------------------------------------
(* How the two ends fit together while both are open.                      *)

(* The object that an id stands for at the server, now or soon.            *)
CreateComes(id, obj) ==
    \E m \in Range(toServer) : m.op = "create" /\ m.id = id /\ m.obj = obj
Alive(id, obj) == resources[id] = obj \/ CreateComes(id, obj)

(* An id of the client that is in use at the server is nowhere else, and   *)
(* the client does not use it for anything else.                           *)
AliveInUse ==
    \A id \in ClientIds, obj \in Objects : Alive(id, obj) =>
        /\ Taken(id) /\ id \notin lost
        /\ proxies[id] \in {None, obj}
        /\ kind[obj] # "object" => proxies[id] = obj /\ obj \notin fired
        /\ \A e \in Range(toClient) : e.op \in {"done", "delete_id"} => e.id # id

(* What the client may still send requests to is alive.                    *)
ProxiesAlive ==
    \A id \in Ids : proxies[id] # None /\ kind[proxies[id]] \in {"object", "offer"} =>
        /\ Alive(id, proxies[id])
        /\ \A m \in Range(toServer) : m.op = "destroy" => m.id # id

(* The client has not sent anything to an object it has not yet received.  *)
OffersUnknown ==
    \A e \in Range(toClient) : e.op = "offer" =>
        /\ resources[e.id] = e.obj
        /\ \A m \in Range(toServer) : m.id # e.id

(* No id of the client is forgotten.                                       *)
NoneForgotten ==
    \A id \in 2 .. lastId :
        \/ \E obj \in Objects : Alive(id, obj)
        \/ id \in lost
        \/ \E e \in Range(toClient) : e.op = "delete_id" /\ e.id = id
        \/ Waits(id)

LinkInv ==
    ~clientClosed /\ ~serverClosed => AliveInUse /\ ProxiesAlive /\ OffersUnknown /\ NoneForgotten

(* A closed end has forgotten its objects.                                 *)
ClosedEmpty ==
    /\ clientClosed => \A id \in Ids : proxies[id] = None
    /\ serverClosed => \A id \in Ids : resources[id] = None

IdsInv == Typed /\ ServerInv /\ ClientInv /\ LinkInv /\ ClosedEmpty

-----------------------------------------------------------------------------
(* Sequences.                                                              *)
LEMMA TailOf ==
  ASSUME NEW S, NEW s \in Seq(S), s # <<>>, NEW t, t = Tail(s)
  PROVE  /\ 1 \in DOMAIN s /\ Head(s) = s[1] /\ Head(s) \in S
         /\ t \in Seq(S)
         /\ \A k \in DOMAIN t : k \in Nat /\ k + 1 \in DOMAIN s /\ t[k] = s[k + 1]
         /\ \A k \in DOMAIN s : k \in Nat /\ (k # 1 => k - 1 \in DOMAIN t /\ t[k - 1] = s[k])
<1>1. Len(s) \in Nat /\ Len(s) # 0 /\ DOMAIN s = 1 .. Len(s)
  OBVIOUS
<1>2. t \in Seq(S) /\ Len(t) = Len(s) - 1 /\ \A k \in 1 .. Len(t) : t[k] = s[k + 1]
  BY <1>1
<1>3. DOMAIN t = 1 .. Len(s) - 1
  BY <1>2
<1> QED BY <1>1, <1>2, <1>3

LEMMA AppendOf ==
  ASSUME NEW S, NEW s \in Seq(S), NEW m \in S, NEW t, t = Append(s, m)
  PROVE  /\ t \in Seq(S)
         /\ Len(s) \in Nat /\ Len(t) = Len(s) + 1
         /\ DOMAIN s = 1 .. Len(s) /\ DOMAIN t = 1 .. Len(s) + 1
         /\ Len(t) \in DOMAIN t /\ t[Len(t)] = m
         /\ \A k \in DOMAIN s : k \in Nat /\ k < Len(t) /\ k \in DOMAIN t /\ t[k] = s[k]
         /\ \A k \in DOMAIN t : k # Len(t) => k \in DOMAIN s
OBVIOUS

LEMMA PrefixOf ==
  ASSUME NEW S, NEW s \in Seq(S), NEW n \in 0 .. Len(s), NEW t, t = SubSeq(s, 1, n)
  PROVE  /\ t \in Seq(S)
         /\ \A k \in DOMAIN t : k \in DOMAIN s /\ t[k] = s[k]
         /\ \A k \in DOMAIN t : \A j \in DOMAIN s : j < k => j \in DOMAIN t /\ t[j] = s[j]
<1>1. Len(s) \in Nat /\ DOMAIN s = 1 .. Len(s)
  OBVIOUS
<1>2. t \in Seq(S) /\ Len(t) = n /\ \A k \in 1 .. n : t[k] = s[k]
  BY <1>1
<1>3. DOMAIN t = 1 .. n
  BY <1>2
<1> QED BY <1>1, <1>2, <1>3

-----------------------------------------------------------------------------
LEMMA IdFacts ==
  /\ ClientIds \subseteq Nat /\ ServerIds \subseteq Nat /\ Ids \subseteq Nat
  /\ Ids = ClientIds \cup ServerIds
  /\ \A id \in ClientIds : id >= 2 /\ id <= MaxClientId /\ id < ServerIdBase /\ ~(id >= ServerIdBase) /\ id \notin ServerIds
  /\ \A id \in ServerIds : id >= ServerIdBase /\ id <= MaxServerId /\ id \notin ClientIds
BY ObjectIdsAssumption DEF ClientIds, ServerIds, Ids

(* What the types say about the tables and the messages.                   *)
LEMMA TypeFacts ==
  ASSUME Typed
  PROVE  /\ kind \in Seq(Kinds) /\ Len(kind) \in Nat /\ Len(kind) <= MaxObjects /\ DOMAIN kind = Objects
         /\ \A obj \in Objects : kind[obj] \in Kinds /\ obj \in Nat /\ obj # None
         /\ \A id \in Ids : proxies[id] \in 0 .. Len(kind) /\ resources[id] \in 0 .. Len(kind)
         /\ \A id \in Ids : proxies[id] # None => proxies[id] \in Objects
         /\ \A id \in Ids : resources[id] # None => resources[id] \in Objects
<1>1. kind \in Seq(Kinds) /\ Len(kind) <= MaxObjects /\ proxies \in [Ids -> 0 .. Len(kind)]
      /\ resources \in [Ids -> 0 .. Len(kind)]
  BY DEF Typed, TypeOK
<1>2. Len(kind) \in Nat /\ DOMAIN kind = Objects
  BY <1>1 DEF Objects
<1>3. \A obj \in Objects : kind[obj] \in Kinds /\ obj \in Nat /\ obj # None
  BY <1>1, <1>2 DEF Objects, None
<1>4. \A n \in 0 .. Len(kind) : n # None => n \in Objects
  BY <1>2 DEF Objects, None
<1> QED BY <1>1, <1>2, <1>3, <1>4

LEMMA ToServerFacts ==
  ASSUME Typed
  PROVE  /\ toServer \in Seq(Request)
         /\ \A k \in DOMAIN toServer : /\ toServer[k] \in Request /\ k \in Nat
                                       /\ toServer[k].id \in Ids
                                       /\ toServer[k].op \in {"create", "destroy", "request"}
                                       /\ toServer[k].obj \in Objects
<1>1. toServer \in Seq(Request)
  BY DEF Typed, TypeOK
<1>2. \A k \in DOMAIN toServer : toServer[k] \in Request /\ k \in Nat
  BY <1>1
<1>3. \A m \in Request : m.id \in Ids /\ m.op \in {"create", "destroy", "request"}
  BY DEF Request
<1> QED BY <1>1, <1>2, <1>3 DEF Typed

LEMMA ToClientFacts ==
  ASSUME Typed
  PROVE  /\ toClient \in Seq(Event)
         /\ \A k \in DOMAIN toClient : /\ toClient[k] \in Event /\ k \in Nat
                                       /\ toClient[k].id \in Ids
                                       /\ toClient[k].op \in {"event", "done", "offer", "delete_id", "error"}
                                       /\ toClient[k].obj \in 0 .. Len(kind)
                                       /\ toClient[k].obj # None => toClient[k].obj \in Objects
<1>1. toClient \in Seq(Event)
  BY DEF Typed, TypeOK
<1>2. \A k \in DOMAIN toClient : toClient[k] \in Event /\ k \in Nat
  BY <1>1
<1>3. \A m \in Event : m.id \in Ids /\ m.op \in {"event", "done", "offer", "delete_id", "error"}
  BY DEF Event
<1>4. \A n \in 0 .. Len(kind) : n # None => n \in Objects
  BY TypeFacts DEF Objects, None
<1> QED BY <1>1, <1>2, <1>3, <1>4 DEF Typed

-----------------------------------------------------------------------------
(* The server's part of the invariant.                                     *)

(* The same server, and objects keep their kinds.                          *)
SameServer == UNCHANGED serverVars /\ \A obj \in Objects : kind'[obj] = kind[obj]

LEMMA SameServerIds ==
  ASSUME Typed, ServerIdsInv, SameServer
  PROVE  ServerIdsInv'
<1>1. \A id \in Ids : resources[id] # None => kind'[resources[id]] = kind[resources[id]]
  BY TypeFacts DEF SameServer
<1>2. UNCHANGED <<resources, serverRecycled, nextId>>
  BY DEF SameServer, serverVars
<1>3. \A id \in ServerIds : resources'[id] # None => kind'[resources'[id]] = "offer" /\ id < nextId'
  BY <1>1, <1>2, IdFacts DEF ServerIdsInv
<1>4. \A id \in ClientIds : resources'[id] # None => kind'[resources'[id]] \in {"object", "callback"}
  BY <1>1, <1>2, IdFacts DEF ServerIdsInv
<1> QED BY <1>2, <1>3, <1>4 DEF ServerIdsInv

(* Nothing of it changes.                                                  *)
LEMMA ServerKeeps ==
  ASSUME Typed, ServerInv, SameServer, UNCHANGED toServer
  PROVE  ServerInv'
<1> SUFFICES ASSUME ~serverClosed
             PROVE  (CreatesFresh /\ RequestsMeet /\ DestroysLast /\ ServerIdsInv)'
  BY DEF ServerInv, SameServer, serverVars
<1>1. CreatesFresh /\ RequestsMeet /\ DestroysLast /\ ServerIdsInv
  BY DEF ServerInv
<1>2. UNCHANGED <<resources, toServer>>
  BY DEF SameServer, serverVars
<1>3. CreatesFresh' /\ DestroysLast'
  BY <1>1, <1>2, ToServerFacts DEF CreatesFresh, DestroysLast, SameServer
<1>4. RequestsMeet'
  BY <1>1, <1>2, ToServerFacts DEF RequestsMeet, SameServer
<1> QED BY <1>1, <1>3, <1>4, SameServerIds

(* The client sends a request.                                             *)
LEMMA ServerGets ==
  ASSUME Typed, ServerInv, SameServer,
         NEW m \in Request, toServer' = Append(toServer, m),
         ~serverClosed =>
            /\ m.op = "create" => /\ m.id \in ClientIds /\ resources[m.id] = None
                                  /\ kind'[m.obj] # "offer"
                                  /\ \A r \in Range(toServer) : r.id # m.id
            /\ m.op # "create" => /\ kind'[m.obj] \in {"object", "offer"}
                                  /\ resources[m.id] = m.obj \/ CreateComes(m.id, m.obj)
                                  /\ \A r \in Range(toServer) : r.op = "destroy" => r.id # m.id
  PROVE  ServerInv'
<1> SUFFICES ASSUME ~serverClosed
             PROVE  (CreatesFresh /\ RequestsMeet /\ DestroysLast /\ ServerIdsInv)'
  BY DEF ServerInv, SameServer, serverVars
<1>1. CreatesFresh /\ RequestsMeet /\ DestroysLast /\ ServerIdsInv
  BY DEF ServerInv
<1>2. UNCHANGED resources
  BY DEF SameServer, serverVars
<1>3. toServer \in Seq(Request)
  BY ToServerFacts
<1>4. PICK last : last = Len(toServer')
  OBVIOUS
<1>5. /\ last \in DOMAIN toServer' /\ toServer'[last] = m
      /\ \A k \in DOMAIN toServer : k \in Nat /\ k < last /\ k \in DOMAIN toServer' /\ toServer'[k] = toServer[k]
      /\ \A k \in DOMAIN toServer' : k # last => k \in DOMAIN toServer
  BY <1>3, <1>4, AppendOf
<1> \A k \in DOMAIN toServer : toServer[k] \in Range(toServer)
  BY DEF Range
<1>6. CreatesFresh'
  <2>1. \A k \in DOMAIN toServer' : toServer'[k].op = "create" =>
            /\ toServer'[k].id \in ClientIds /\ resources[toServer'[k].id] = None
            /\ kind'[toServer'[k].obj] # "offer"
    BY <1>1, <1>5, ToServerFacts DEF CreatesFresh, SameServer
  <2>2. ASSUME NEW j \in DOMAIN toServer', NEW k \in DOMAIN toServer', j < k, toServer'[k].op = "create"
        PROVE  toServer'[j].id # toServer'[k].id
    <3>1. CASE k = last
      BY <1>5, <2>2, <3>1
    <3>2. CASE k # last
      <4>1. j # last
        BY <1>5, <2>2, <3>2
      <4> QED BY <1>1, <1>5, <2>2, <3>2, <4>1 DEF CreatesFresh
    <3> QED BY <3>1, <3>2
  <2> QED BY <1>2, <2>1, <2>2 DEF CreatesFresh
<1>7. RequestsMeet'
  <2> SUFFICES ASSUME NEW k \in DOMAIN toServer', toServer'[k].op # "create"
               PROVE  /\ kind'[toServer'[k].obj] \in {"object", "offer"}
                      /\ \/ resources[toServer'[k].id] = toServer'[k].obj
                         \/ \E j \in DOMAIN toServer' :
                              /\ j < k /\ toServer'[j].op = "create"
                              /\ toServer'[j].id = toServer'[k].id /\ toServer'[j].obj = toServer'[k].obj
    BY <1>2 DEF RequestsMeet
  <2>1. CASE k = last
    <3>1. CreateComes(m.id, m.obj) =>
            \E j \in DOMAIN toServer : toServer[j].op = "create" /\ toServer[j].id = m.id /\ toServer[j].obj = m.obj
      BY DEF CreateComes, Range
    <3> QED BY <1>5, <2>1, <3>1
  <2>2. CASE k # last
    <3>1. k \in DOMAIN toServer /\ toServer'[k] = toServer[k] /\ toServer[k].obj \in Objects
      BY <1>5, <2>2, ToServerFacts
    <3>2. /\ kind[toServer[k].obj] \in {"object", "offer"}
          /\ \/ resources[toServer[k].id] = toServer[k].obj
             \/ \E j \in DOMAIN toServer :
                  /\ j < k /\ toServer[j].op = "create"
                  /\ toServer[j].id = toServer[k].id /\ toServer[j].obj = toServer[k].obj
      BY <1>1, <3>1 DEF RequestsMeet
    <3> QED BY <1>5, <3>1, <3>2 DEF SameServer
  <2> QED BY <2>1, <2>2
<1>8. DestroysLast'
  <2> SUFFICES ASSUME NEW j \in DOMAIN toServer', NEW k \in DOMAIN toServer', j < k, toServer'[j].op = "destroy"
               PROVE  toServer'[j].id # toServer'[k].id
    BY DEF DestroysLast
  <2>1. j # last
    BY <1>5
  <2>2. CASE k = last
    BY <1>5, <2>1, <2>2
  <2>3. CASE k # last
    BY <1>1, <1>5, <2>1, <2>3 DEF DestroysLast
  <2> QED BY <2>2, <2>3
<1> QED BY <1>1, <1>6, <1>7, <1>8, SameServerIds

(* The client closes: some of what it sent last is lost.                   *)
LEMMA ServerLoses ==
  ASSUME Typed, ServerInv, SameServer,
         NEW n \in 0 .. Len(toServer), toServer' = SubSeq(toServer, 1, n)
  PROVE  ServerInv'
<1> SUFFICES ASSUME ~serverClosed
             PROVE  (CreatesFresh /\ RequestsMeet /\ DestroysLast /\ ServerIdsInv)'
  BY DEF ServerInv, SameServer, serverVars
<1>1. CreatesFresh /\ RequestsMeet /\ DestroysLast /\ ServerIdsInv
  BY DEF ServerInv
<1>2. UNCHANGED resources
  BY DEF SameServer, serverVars
<1>3. toServer \in Seq(Request)
  BY ToServerFacts
<1>4. /\ \A k \in DOMAIN toServer' : k \in DOMAIN toServer /\ toServer'[k] = toServer[k]
      /\ \A k \in DOMAIN toServer' : \A j \in DOMAIN toServer : j < k => j \in DOMAIN toServer' /\ toServer'[j] = toServer[j]
  BY <1>3, PrefixOf
<1>5. CreatesFresh' /\ DestroysLast'
  BY <1>1, <1>2, <1>4, ToServerFacts DEF CreatesFresh, DestroysLast, SameServer
<1>6. RequestsMeet'
  <2> SUFFICES ASSUME NEW k \in DOMAIN toServer', toServer'[k].op # "create"
               PROVE  /\ kind'[toServer'[k].obj] \in {"object", "offer"}
                      /\ \/ resources[toServer'[k].id] = toServer'[k].obj
                         \/ \E j \in DOMAIN toServer' :
                              /\ j < k /\ toServer'[j].op = "create"
                              /\ toServer'[j].id = toServer'[k].id /\ toServer'[j].obj = toServer'[k].obj
    BY <1>2 DEF RequestsMeet
  <2>1. k \in DOMAIN toServer /\ toServer'[k] = toServer[k] /\ toServer[k].obj \in Objects
    BY <1>4, ToServerFacts
  <2>2. /\ kind[toServer[k].obj] \in {"object", "offer"}
        /\ \/ resources[toServer[k].id] = toServer[k].obj
           \/ \E j \in DOMAIN toServer :
                /\ j < k /\ toServer[j].op = "create"
                /\ toServer[j].id = toServer[k].id /\ toServer[j].obj = toServer[k].obj
    BY <1>1, <2>1 DEF RequestsMeet
  <2> QED BY ZenonT(60), <1>4, <2>1, <2>2 DEF SameServer
<1> QED BY <1>1, <1>5, <1>6, SameServerIds

(* The server takes a request m: it registers the object of a create, but  *)
(* for a sync, and unregisters that of a destructor request.               *)
LEMMA ServerTakes ==
  ASSUME Typed, CreatesFresh, RequestsMeet, DestroysLast,
         toServer # <<>>, toServer' = Tail(toServer), NEW m, m = Head(toServer),
         UNCHANGED kind,
         \A id \in Ids : id # m.id => resources'[id] = resources[id],
         m.op = "create" => \/ resources'[m.id] = m.obj
                            \/ kind[m.obj] \notin {"object", "offer"},
         m.op = "request" => resources'[m.id] = resources[m.id]
  PROVE  (CreatesFresh /\ RequestsMeet /\ DestroysLast)'
<1>1. toServer \in Seq(Request)
  BY ToServerFacts
<1>2. /\ 1 \in DOMAIN toServer /\ m = toServer[1]
      /\ \A k \in DOMAIN toServer' : k \in Nat /\ k + 1 \in DOMAIN toServer /\ toServer'[k] = toServer[k + 1]
      /\ \A k \in DOMAIN toServer : k \in Nat /\ (k # 1 => k - 1 \in DOMAIN toServer' /\ toServer'[k - 1] = toServer[k])
  BY <1>1, TailOf
<1>3. \A k \in DOMAIN toServer' : 1 < k + 1
  <2>1. \A k \in DOMAIN toServer' : k # 0
    BY <1>1
  <2> QED BY <1>2, <2>1
<1>4. \A k \in DOMAIN toServer' : toServer'[k].op = "create" => toServer'[k].id # m.id
  BY <1>2, <1>3 DEF CreatesFresh
<1>5. CreatesFresh'
  <2>1. \A k \in DOMAIN toServer' : toServer'[k].op = "create" =>
            /\ toServer'[k].id \in ClientIds /\ resources'[toServer'[k].id] = None
            /\ kind'[toServer'[k].obj] # "offer"
    <3> SUFFICES ASSUME NEW k \in DOMAIN toServer', toServer'[k].op = "create"
                 PROVE  /\ toServer'[k].id \in ClientIds /\ resources'[toServer'[k].id] = None
                        /\ kind[toServer'[k].obj] # "offer"
      OBVIOUS
    <3>1. /\ toServer'[k].id \in ClientIds /\ resources[toServer'[k].id] = None
          /\ kind[toServer'[k].obj] # "offer"
      BY <1>2 DEF CreatesFresh
    <3> QED BY <1>4, <3>1, IdFacts
  <2>2. ASSUME NEW j \in DOMAIN toServer', NEW k \in DOMAIN toServer', j < k, toServer'[k].op = "create"
        PROVE  toServer'[j].id # toServer'[k].id
    <3>1. j + 1 < k + 1 /\ j + 1 \in DOMAIN toServer /\ k + 1 \in DOMAIN toServer
      BY <1>2, <2>2
    <3> QED BY <1>2, <2>2, <3>1 DEF CreatesFresh
  <2> QED BY <2>1, <2>2 DEF CreatesFresh
<1>6. DestroysLast'
  BY <1>2 DEF DestroysLast
<1>7. RequestsMeet'
  <2> SUFFICES ASSUME NEW k \in DOMAIN toServer', toServer'[k].op # "create"
               PROVE  /\ kind[toServer'[k].obj] \in {"object", "offer"}
                      /\ \/ resources'[toServer'[k].id] = toServer'[k].obj
                         \/ \E j \in DOMAIN toServer' :
                              /\ j < k /\ toServer'[j].op = "create"
                              /\ toServer'[j].id = toServer'[k].id /\ toServer'[j].obj = toServer'[k].obj
    BY DEF RequestsMeet
  <2>1. PICK r : r = toServer[k + 1]
    OBVIOUS
  <2>2. k + 1 \in DOMAIN toServer /\ toServer'[k] = r /\ r.id \in Ids /\ r.obj \in Objects /\ r.obj # None
    BY <1>2, <2>1, ToServerFacts, TypeFacts
  <2>3. /\ kind[r.obj] \in {"object", "offer"}
        /\ \/ resources[r.id] = r.obj
           \/ \E j \in DOMAIN toServer : /\ j < k + 1 /\ toServer[j].op = "create"
                                         /\ toServer[j].id = r.id /\ toServer[j].obj = r.obj
    BY <2>1, <2>2 DEF RequestsMeet
  <2>4. ASSUME NEW j \in DOMAIN toServer, j # 1, j < k + 1, toServer[j].op = "create",
               toServer[j].id = r.id, toServer[j].obj = r.obj
        PROVE  \E i \in DOMAIN toServer' : /\ i < k /\ toServer'[i].op = "create"
                                           /\ toServer'[i].id = r.id /\ toServer'[i].obj = r.obj
    <3>1. j - 1 \in DOMAIN toServer' /\ toServer'[j - 1] = toServer[j] /\ j - 1 < k
      BY <1>2, <2>4
    <3> QED BY <2>4, <3>1
  <2>5. CASE r.id # m.id
    <3>1. resources'[r.id] = resources[r.id]
      BY <2>2, <2>5
    <3>2. \A j \in DOMAIN toServer : toServer[j].id = r.id => j # 1
      BY <1>2, <2>5
    <3> QED BY <2>2, <2>3, <2>4, <3>1, <3>2
  <2>6. CASE r.id = m.id /\ m.op # "create"
    <3>1. m.op # "destroy"
      BY <1>2, <1>3, <2>1, <2>2, <2>6 DEF DestroysLast
    <3>2. resources'[r.id] = resources[r.id]
      BY <1>2, <2>6, <3>1, ToServerFacts
    <3>3. \A j \in DOMAIN toServer : toServer[j].op = "create" => j # 1
      BY <1>2, <2>6
    <3> QED BY <2>2, <2>3, <2>4, <3>2, <3>3
  <2>7. CASE r.id = m.id /\ m.op = "create"
    <3>1. resources[r.id] = None
      BY <1>2, <2>7 DEF CreatesFresh
    <3>2. PICK j \in DOMAIN toServer : toServer[j].op = "create" /\ toServer[j].id = r.id /\ toServer[j].obj = r.obj
      BY <2>2, <2>3, <3>1
    <3>3. j = 1
      <4>1. ~(1 < j)
        BY <1>2, <2>7, <3>2 DEF CreatesFresh
      <4>2. j \in 1 .. Len(toServer)
        BY <1>1
      <4> QED BY <4>1, <4>2
    <3>4. r.obj = m.obj
      BY <1>2, <3>2, <3>3
    <3> QED BY <2>2, <2>3, <2>7, <3>4
  <2> QED BY <2>5, <2>6, <2>7
<1> QED BY <1>5, <1>6, <1>7

(* A resource is unregistered: its id comes back.                          *)
LEMMA UnregisterKeepsIds ==
  ASSUME Typed, ServerIdsInv, UNCHANGED kind,
         NEW id \in Ids, resources[id] # None, NEW queue, UnregisterResource(id, queue)
  PROVE  ServerIdsInv'
<1>1. resources' = [resources EXCEPT ![id] = None] /\ UNCHANGED nextId
  BY DEF UnregisterResource
<1>2. \A i \in Ids : resources'[i] = IF i = id THEN None ELSE resources[i]
  BY <1>1 DEF Typed, TypeOK
<1>3. serverRecycled \in Seq(ServerIds)
  BY DEF Typed, TypeOK
<1>4. \A i \in DOMAIN serverRecycled : serverRecycled[i] \in ServerIds /\ serverRecycled[i] # id
  BY <1>3 DEF ServerIdsInv
<1>5. \A i \in Ids : resources'[i] # None => kind'[resources'[i]] = kind[resources[i]] /\ resources[i] # None
  BY <1>2
<1>6. \A i \in ServerIds : resources'[i] # None => kind'[resources'[i]] = "offer" /\ i < nextId'
  BY <1>1, <1>5, IdFacts DEF ServerIdsInv
<1>7. \A i \in ClientIds : resources'[i] # None => kind'[resources'[i]] \in {"object", "callback"}
  BY <1>5, IdFacts DEF ServerIdsInv
<1>8. ServerIdBase .. nextId - 1 \subseteq Ids
  BY ObjectIdsAssumption DEF Typed, TypeOK, Ids, ServerIds
<1>9. CASE id < ServerIdBase
  <2>1. serverRecycled' = serverRecycled
    BY <1>9, IdFacts, ObjectIdsAssumption DEF UnregisterResource
  <2>2. \A i \in DOMAIN serverRecycled : resources'[serverRecycled[i]] = None
    BY <1>2, <1>4, IdFacts DEF ServerIdsInv
  <2>3. \A i \in ServerIdBase .. nextId - 1 : i # id
    BY <1>9, IdFacts, ObjectIdsAssumption DEF Typed, TypeOK
  <2>4. \A i \in ServerIdBase .. nextId - 1 : resources'[i] # None \/ \E j \in DOMAIN serverRecycled : serverRecycled[j] = i
    BY <1>2, <1>8, <2>3 DEF ServerIdsInv
  <2> QED BY <1>1, <1>6, <1>7, <2>1, <2>2, <2>4 DEF ServerIdsInv
<1>10. CASE ~(id < ServerIdBase)
  <2>1. id \in ServerIds /\ id < nextId
    BY <1>10, IdFacts DEF ServerIdsInv
  <2>2. serverRecycled' = Append(serverRecycled, id)
    BY <1>10, IdFacts, ObjectIdsAssumption DEF UnregisterResource
  <2>3. PICK last : last = Len(serverRecycled')
    OBVIOUS
  <2>4. /\ last \in DOMAIN serverRecycled' /\ serverRecycled'[last] = id
        /\ \A k \in DOMAIN serverRecycled : k \in DOMAIN serverRecycled' /\ serverRecycled'[k] = serverRecycled[k]
        /\ \A k \in DOMAIN serverRecycled' : k # last => k \in DOMAIN serverRecycled
    BY <1>3, <2>1, <2>2, <2>3, AppendOf
  <2>5. ASSUME NEW i \in DOMAIN serverRecycled'
        PROVE  resources'[serverRecycled'[i]] = None /\ serverRecycled'[i] < nextId
    <3>1. CASE i = last
      BY <1>2, <2>1, <2>4, <3>1
    <3>2. CASE i # last
      <4>1. i \in DOMAIN serverRecycled /\ serverRecycled'[i] = serverRecycled[i] /\ serverRecycled[i] \in Ids
        BY <1>4, <2>4, <3>2, IdFacts
      <4> QED BY <1>2, <4>1 DEF ServerIdsInv
    <3> QED BY <3>1, <3>2
  <2>6. \A i, j \in DOMAIN serverRecycled' : serverRecycled'[i] = serverRecycled'[j] => i = j
    BY <1>4, <2>4 DEF ServerIdsInv
  <2>7. ASSUME NEW i \in ServerIdBase .. nextId - 1
        PROVE  resources'[i] # None \/ \E j \in DOMAIN serverRecycled' : serverRecycled'[j] = i
    <3>1. CASE i = id
      BY <2>4, <3>1
    <3>2. CASE i # id
      <4>1. resources'[i] = resources[i]
        BY <1>2, <1>8, <3>2
      <4>2. resources[i] # None \/ \E j \in DOMAIN serverRecycled : serverRecycled[j] = i
        BY DEF ServerIdsInv
      <4> QED BY <2>4, <4>1, <4>2
    <3> QED BY <3>1, <3>2
  <2> QED BY <1>1, <1>6, <1>7, <2>5, <2>6, <2>7 DEF ServerIdsInv
<1> QED BY <1>9, <1>10

-----------------------------------------------------------------------------
(* The client's part of the invariant: queues of messages.                 *)

(* The queue r is q with a message m at its end.                           *)
Extends(r, q, m) ==
    /\ \A k \in DOMAIN q : r[k] = q[k] /\ Before(r, k) = Before(q, k)
    /\ r[Len(r)] = m /\ Before(r, Len(r)) = Range(q)
    /\ \A k \in DOMAIN r : k \in DOMAIN q \/ k = Len(r)

LEMMA BeforeAppended ==
  ASSUME NEW S, NEW q \in Seq(S), NEW m \in S
  PROVE  Extends(Append(q, m), q, m)
<1>0. PICK r : r = Append(q, m)
  OBVIOUS
<1>1. /\ Len(q) \in Nat /\ DOMAIN q = 1 .. Len(q) /\ DOMAIN r = 1 .. Len(q) + 1 /\ Len(r) = Len(q) + 1
      /\ r[Len(q) + 1] = m /\ \A k \in DOMAIN q : r[k] = q[k]
  BY <1>0, AppendOf
<1>2. ASSUME NEW k \in DOMAIN q
      PROVE  Before(r, k) = Before(q, k)
  <2>1. {i \in DOMAIN r : i < k} = {i \in DOMAIN q : i < k}
    BY <1>1
  <2>2. \A x : x \in Before(r, k) <=> x \in Before(q, k)
    BY <1>1, <2>1 DEF Before
  <2> QED BY <2>2
<1>3. Before(r, Len(q) + 1) = Range(q)
  <2>1. {i \in DOMAIN r : i < Len(q) + 1} = DOMAIN q
    BY <1>1
  <2>2. \A x : x \in Before(r, Len(q) + 1) <=> x \in Range(q)
    BY <1>1, <2>1 DEF Before, Range
  <2> QED BY <2>2
<1>4. Extends(r, q, m)
  BY <1>1, <1>2, <1>3 DEF Extends
<1> QED BY <1>0, <1>4

LEMMA FitAppended ==
  ASSUME NEW S, NEW q \in Seq(S), AllFit(q),
         NEW m \in S, Fits(m, Range(q)), NEW r, r = Append(q, m)
  PROVE  AllFit(r)
<1>1. Extends(r, q, m)
  BY BeforeAppended
<1>2. \A k \in DOMAIN q : Fits(r[k], Before(r, k))
  BY <1>1 DEF AllFit, Extends
<1>3. Fits(r[Len(r)], Before(r, Len(r)))
  BY <1>1 DEF Extends
<1> QED BY <1>1, <1>2, <1>3 DEF AllFit, Extends

LEMMA FitPrefix ==
  ASSUME NEW S, NEW q \in Seq(S), AllFit(q), NEW n \in 0 .. Len(q), NEW r, r = SubSeq(q, 1, n)
  PROVE  AllFit(r)
<1>1. /\ \A k \in DOMAIN r : k \in DOMAIN q /\ r[k] = q[k]
      /\ \A k \in DOMAIN r : \A j \in DOMAIN q : j < k => j \in DOMAIN r /\ r[j] = q[j]
  BY PrefixOf
<1>2. ASSUME NEW k \in DOMAIN r
      PROVE  Before(r, k) = Before(q, k)
  <2>1. \A x : x \in Before(r, k) <=> x \in Before(q, k)
    BY <1>1 DEF Before
  <2> QED BY <2>1
<1> QED BY <1>1, <1>2 DEF AllFit

LEMMA FitTail ==
  ASSUME NEW S, NEW q \in Seq(S), AllFit(q), q # <<>>, NEW r, r = Tail(q), NEW h, h = Head(q)
  PROVE  /\ Fits(h, {})
         /\ \A k \in DOMAIN r : Fits(r[k], Before(r, k) \cup {h})
<1>1. /\ 1 \in DOMAIN q /\ h = q[1]
      /\ \A k \in DOMAIN r : k \in Nat /\ k + 1 \in DOMAIN q /\ r[k] = q[k + 1]
      /\ \A k \in DOMAIN q : k \in Nat /\ (k # 1 => k - 1 \in DOMAIN r /\ r[k - 1] = q[k])
  BY TailOf
<1>2. \A k \in DOMAIN q : ~(k < 1)
  OBVIOUS
<1>3. \A k \in DOMAIN r : 1 < k + 1
  <2>1. \A k \in DOMAIN r : k # 0
    OBVIOUS
  <2> QED BY <1>1, <2>1
<1>4. Before(q, 1) = {}
  BY <1>2 DEF Before
<1>5. ASSUME NEW k \in DOMAIN r
      PROVE  Before(q, k + 1) = Before(r, k) \cup {h}
  <2>1. ASSUME NEW x \in Before(q, k + 1)
        PROVE  x \in Before(r, k) \cup {h}
    <3>1. PICK j \in DOMAIN q : j < k + 1 /\ x = q[j]
      BY <2>1 DEF Before
    <3>2. CASE j = 1
      BY <1>1, <3>1, <3>2
    <3>3. CASE j # 1
      <4>1. j - 1 \in DOMAIN r /\ r[j - 1] = x /\ j - 1 < k
        BY <1>1, <3>1, <3>3
      <4> QED BY <4>1 DEF Before
    <3> QED BY <3>2, <3>3
  <2>2. ASSUME NEW x \in Before(r, k)
        PROVE  x \in Before(q, k + 1)
    <3>1. PICK j \in DOMAIN r : j < k /\ x = r[j]
      BY <2>2 DEF Before
    <3>2. j + 1 \in DOMAIN q /\ q[j + 1] = x /\ j + 1 < k + 1
      BY <1>1, <3>1
    <3> QED BY <3>2 DEF Before
  <2>3. h \in Before(q, k + 1)
    BY <1>1, <1>3 DEF Before
  <2> QED BY <2>1, <2>2, <2>3
<1>6. Fits(h, {})
  BY <1>1, <1>4 DEF AllFit
<1>7. \A k \in DOMAIN r : Fits(r[k], Before(r, k) \cup {h})
  BY <1>1, <1>5 DEF AllFit
<1> QED BY <1>6, <1>7

-----------------------------------------------------------------------------
(* The client's part: what it may do while messages are on their way.      *)

(* A message of the server about objects that exist.                       *)
IsMessage(m) == m.id \in Ids /\ (m.obj # None => m.obj \in Objects)

LEMMA MessagesKnown ==
  ASSUME Typed, NEW k \in DOMAIN toClient
  PROVE  IsMessage(toClient[k])
BY ToClientFacts DEF IsMessage

SameClient == UNCHANGED <<proxies, recycledIds, lastId, fired, lost>> /\ \A obj \in Objects : kind'[obj] = kind[obj]

LEMMA SameClientFits ==
  ASSUME SameClient, NEW m, NEW before, IsMessage(m), Fits(m, before)
  PROVE  Fits(m, before)'
<1>1. UNCHANGED <<proxies, recycledIds, lastId, fired, lost>> /\ (m.obj # None => kind'[m.obj] = kind[m.obj])
  BY DEF SameClient, IsMessage
<1>2. Taken(m.id)' <=> Taken(m.id)
  BY <1>1 DEF Taken, Waits
<1>3. m.op = "event" => EventFits(m, before)'
  BY <1>1, <1>2 DEF Fits, EventFits
<1>4. m.op = "done" => DoneFits(m, before)'
  BY <1>1, <1>2 DEF Fits, DoneFits
<1>5. m.op = "offer" => OfferFits(m, before)'
  BY <1>1 DEF Fits, OfferFits
<1>6. m.op = "delete_id" => DeleteFits(m, before)'
  BY <1>1, <1>2 DEF Fits, DeleteFits
<1> QED BY <1>3, <1>4, <1>5, <1>6 DEF Fits

LEMMA SameClientIds ==
  ASSUME Typed, ClientIdsInv, SameClient
  PROVE  ClientIdsInv'
<1>1. \A id \in Ids : proxies[id] # None => kind'[proxies[id]] = kind[proxies[id]]
  BY TypeFacts DEF SameClient
<1>2. UNCHANGED <<proxies, recycledIds, lastId, fired, lost>>
  BY DEF SameClient
<1>3. \A id : Waits(id)' <=> Waits(id)
  BY <1>2 DEF Waits
<1>4. \A id \in ClientIds : proxies'[id] # None => id <= lastId' /\ kind'[proxies'[id]] # "offer"
  BY <1>1, <1>2, IdFacts DEF ClientIdsInv
<1>5. \A id \in ServerIds : proxies'[id] # None => kind'[proxies'[id]] = "offer"
  BY <1>1, <1>2, IdFacts DEF ClientIdsInv
<1>6. \A id \in lost' : id <= lastId' /\ ~Waits(id)'
  BY <1>2, <1>3 DEF ClientIdsInv
<1> QED BY <1>2, <1>4, <1>5, <1>6 DEF ClientIdsInv

(* The server adds messages that fit, or none, or loses some.              *)
LEMMA ClientGets ==
  ASSUME Typed, ClientInv, SameClient, UNCHANGED clientClosed,
         NEW q, toClient' = q, \A k \in DOMAIN q : IsMessage(q[k]),
         ~clientClosed => AllFit(q)
  PROVE  ClientInv'
<1> SUFFICES ASSUME ~clientClosed
             PROVE  (ClientIdsInv /\ AllFit(toClient))'
  BY DEF ClientInv
<1>1. ClientIdsInv'
  BY SameClientIds DEF ClientInv
<1>2. \A k \in DOMAIN q : Fits(q[k], Before(q, k))
  BY DEF AllFit
<1>3. ASSUME NEW k \in DOMAIN q
      PROVE  Fits(q[k], Before(q, k))'
  <2>1. PICK m, before : m = q[k] /\ before = Before(q, k)
    OBVIOUS
  <2>2. IsMessage(m) /\ Fits(m, before)
    BY <1>2, <2>1
  <2>3. Fits(m, before)'
    BY <2>2, SameClientFits
  <2> QED BY <2>1, <2>3
<1> QED BY <1>1, <1>3 DEF AllFit

(* generateNextId() hands out an id that is not in use.                    *)
LEMMA IdHandedOut ==
  ASSUME Typed, ClientIdsInv, NEW id \in ClientIds, GenerateNextId(id)
  PROVE  /\ ~Taken(id) /\ Taken(id)' /\ id \notin lost
         /\ \A x : Taken(x) => Taken(x)'
         /\ \A x : Waits(x)' => Waits(x)
         /\ recycledIds' \in Seq(ClientIds) /\ lastId' \in 1 .. MaxClientId /\ lastId <= lastId'
         /\ \A i, j \in DOMAIN recycledIds' : recycledIds'[i] = recycledIds'[j] => i = j
         /\ \A x \in 2 .. lastId' : x # id => x \in 2 .. lastId /\ (Waits(x) => Waits(x)')
<1>1. recycledIds \in Seq(ClientIds) /\ lastId \in 1 .. MaxClientId /\ MaxClientId \in Nat
  BY ObjectIdsAssumption DEF Typed, TypeOK
<1>2. CASE recycledIds # <<>> /\ id = Head(recycledIds) /\ recycledIds' = Tail(recycledIds) /\ UNCHANGED lastId
  <2>1. /\ 1 \in DOMAIN recycledIds /\ id = recycledIds[1]
        /\ recycledIds' \in Seq(ClientIds)
        /\ \A k \in DOMAIN recycledIds' : k \in Nat /\ k + 1 \in DOMAIN recycledIds /\ recycledIds'[k] = recycledIds[k + 1]
        /\ \A k \in DOMAIN recycledIds :
              k \in Nat /\ (k # 1 => k - 1 \in DOMAIN recycledIds' /\ recycledIds'[k - 1] = recycledIds[k])
    BY <1>1, <1>2, TailOf
  <2>2. \A k \in DOMAIN recycledIds' : k # 0
    BY <2>1
  <2>3. Waits(id) /\ id <= lastId
    BY <2>1 DEF Waits, ClientIdsInv
  <2>4. ~Waits(id)'
    <3> SUFFICES ASSUME NEW k \in DOMAIN recycledIds', recycledIds'[k] = id
                 PROVE  FALSE
      BY DEF Waits
    <3>1. k + 1 = 1
      BY <2>1 DEF ClientIdsInv
    <3> QED BY <2>1, <2>2, <3>1
  <2>5. \A x : Waits(x)' => Waits(x)
    BY <2>1 DEF Waits
  <2>6. \A x : x # id /\ Waits(x) => Waits(x)'
    BY <2>1 DEF Waits
  <2>7. ASSUME NEW i \in DOMAIN recycledIds', NEW j \in DOMAIN recycledIds', recycledIds'[i] = recycledIds'[j]
        PROVE  i = j
    <3>1. i + 1 = j + 1
      BY <2>1, <2>7 DEF ClientIdsInv
    <3> QED BY <2>1, <3>1
  <2>8. id \notin lost
    BY <2>3 DEF ClientIdsInv
  <2> QED BY <1>1, <1>2, <2>1, <2>3, <2>4, <2>5, <2>6, <2>7, <2>8 DEF Taken
<1>3. CASE recycledIds = <<>> /\ lastId < MaxClientId /\ id = lastId + 1 /\ lastId' = id /\ UNCHANGED recycledIds
  <2>1. \A x : ~Waits(x) /\ ~Waits(x)'
    BY <1>3 DEF Waits
  <2>2. id \notin lost
    BY <1>1, <1>3 DEF ClientIdsInv
  <2>3. \A x : Taken(x) => Taken(x)'
    BY <1>1, <1>3, <2>1, IdFacts DEF Taken
  <2>4. ~Taken(id) /\ Taken(id)'
    BY <1>1, <1>3, <2>1 DEF Taken
  <2>5. \A x \in 2 .. lastId' : x # id => x \in 2 .. lastId
    BY <1>1, <1>3
  <2> QED BY <1>1, <1>3, <2>1, <2>2, <2>3, <2>4, <2>5 DEF ClientIdsInv
<1> QED BY <1>2, <1>3 DEF GenerateNextId

(* An id is handed out, for a proxy or in vain.                            *)
LEMMA CreateFits ==
  ASSUME Typed, ClientIdsInv, NEW id \in ClientIds, GenerateNextId(id),
         \A obj \in Objects : kind'[obj] = kind[obj],
         \A x \in Ids : x # id => proxies'[x] = proxies[x],
         fired' = fired, lost' \subseteq lost \cup {id},
         NEW m, NEW before, IsMessage(m), Fits(m, before)
  PROVE  Fits(m, before)'
<1>1. ~Taken(id) /\ \A x : Taken(x) => Taken(x)'
  BY IdHandedOut
<1>2. m.id \in Ids /\ (m.obj # None => kind'[m.obj] = kind[m.obj])
  BY DEF IsMessage
<1>3. m.op = "event" => EventFits(m, before)'
  <2> SUFFICES ASSUME m.op = "event"
               PROVE  EventFits(m, before)'
    OBVIOUS
  <2>1. EventFits(m, before)
    BY DEF Fits
  <2>2. m.id # id
    BY <1>1, <2>1 DEF EventFits
  <2> QED BY <1>1, <1>2, <2>1, <2>2 DEF EventFits
<1>4. m.op = "done" => DoneFits(m, before)'
  <2> SUFFICES ASSUME m.op = "done"
               PROVE  DoneFits(m, before)'
    OBVIOUS
  <2>1. DoneFits(m, before)
    BY DEF Fits
  <2>2. m.id # id
    BY <1>1, <2>1 DEF DoneFits
  <2> QED BY <1>1, <1>2, <2>1, <2>2 DEF DoneFits
<1>5. m.op = "offer" => OfferFits(m, before)'
  <2> SUFFICES ASSUME m.op = "offer"
               PROVE  OfferFits(m, before)'
    OBVIOUS
  <2>1. OfferFits(m, before)
    BY DEF Fits
  <2>2. m.id # id
    BY <2>1, IdFacts DEF OfferFits
  <2> QED BY <1>1, <1>2, <2>1, <2>2 DEF OfferFits
<1>6. m.op = "delete_id" => DeleteFits(m, before)'
  <2> SUFFICES ASSUME m.op = "delete_id"
               PROVE  DeleteFits(m, before)'
    OBVIOUS
  <2>1. DeleteFits(m, before)
    BY DEF Fits
  <2>2. m.id # id
    BY <1>1, <2>1 DEF DeleteFits
  <2> QED BY <1>1, <1>2, <2>1, <2>2 DEF DeleteFits
<1> QED BY <1>3, <1>4, <1>5, <1>6 DEF Fits

(* A proxy is unregistered that no done event is on its way to.            *)
LEMMA DestroyFits ==
  ASSUME Typed, ClientIdsInv, NEW id \in Ids, proxies[id] # None,
         kind[proxies[id]] \in {"object", "offer"} \/ proxies[id] \in fired,
         proxies' = [proxies EXCEPT ![id] = None],
         fired' \in {fired, fired \ {proxies[id]}},
         UNCHANGED <<kind, recycledIds, lastId, lost>>,
         NEW m, NEW before, IsMessage(m), Fits(m, before)
  PROVE  Fits(m, before)'
<1>1. \A x \in Ids : proxies'[x] = IF x = id THEN None ELSE proxies[x]
  BY DEF Typed, TypeOK
<1>2. m.id \in Ids
  BY DEF IsMessage
<1>3. Taken(m.id)' <=> Taken(m.id)
  BY DEF Taken, Waits
<1>4. m.op = "event" => EventFits(m, before)'
  BY <1>1, <1>2, <1>3 DEF Fits, EventFits
<1>5. m.op = "done" => DoneFits(m, before)'
  <2> SUFFICES ASSUME m.op = "done"
               PROVE  DoneFits(m, before)'
    OBVIOUS
  <2>1. DoneFits(m, before)
    BY DEF Fits
  <2>2. m.id # id
    BY <2>1 DEF DoneFits
  <2> QED BY <1>1, <1>2, <1>3, <2>1, <2>2 DEF DoneFits
<1>6. m.op = "offer" => OfferFits(m, before)'
  BY <1>1, <1>2 DEF Fits, OfferFits
<1>7. m.op = "delete_id" => DeleteFits(m, before)'
  <2> SUFFICES ASSUME m.op = "delete_id"
               PROVE  DeleteFits(m, before)'
    OBVIOUS
  <2>1. DeleteFits(m, before)
    BY DEF Fits
  <2>2. m.id \in ClientIds
    BY <2>1 DEF DeleteFits, Taken
  <2>3. m.id # id /\ proxies[m.id] # None => proxies[m.id] # proxies[id]
    BY <2>2, IdFacts DEF ClientIdsInv
  <2>4. proxies[m.id] \in {None} \cup fired => proxies'[m.id] \in {None} \cup fired'
    BY <1>1, <1>2, <2>3
  <2> QED BY <1>3, <2>1, <2>4 DEF DeleteFits
<1> QED BY <1>4, <1>5, <1>6, <1>7 DEF Fits

LEMMA DestroyIds ==
  ASSUME Typed, ClientIdsInv, NEW id \in Ids, proxies[id] # None,
         proxies' = [proxies EXCEPT ![id] = None],
         fired' \in {fired, fired \ {proxies[id]}},
         UNCHANGED <<kind, recycledIds, lastId, lost>>
  PROVE  ClientIdsInv'
<1>1. \A x \in Ids : proxies'[x] = IF x = id THEN None ELSE proxies[x]
  BY DEF Typed, TypeOK
<1>2. \A i \in DOMAIN recycledIds : recycledIds[i] \in ClientIds /\ recycledIds[i] \in Ids
  BY IdFacts DEF Typed, TypeOK
<1>3. \A i \in DOMAIN recycledIds : proxies'[recycledIds[i]] \in {None} \cup fired'
  <2> SUFFICES ASSUME NEW i \in DOMAIN recycledIds
               PROVE  proxies'[recycledIds[i]] \in {None} \cup fired'
    OBVIOUS
  <2>1. proxies[recycledIds[i]] \in {None} \cup fired
    BY DEF ClientIdsInv
  <2>2. recycledIds[i] # id /\ proxies[recycledIds[i]] # None => proxies[recycledIds[i]] # proxies[id]
    BY <1>2, IdFacts DEF ClientIdsInv
  <2> QED BY <1>1, <1>2, <2>1, <2>2
<1>4. \A x \in ClientIds : proxies'[x] # None => x <= lastId /\ kind[proxies'[x]] # "offer"
  BY <1>1, IdFacts DEF ClientIdsInv
<1>5. \A x \in ServerIds : proxies'[x] # None => kind[proxies'[x]] = "offer"
  BY <1>1, IdFacts DEF ClientIdsInv
<1>6. \A x, y \in ClientIds : proxies'[x] = proxies'[y] /\ proxies'[x] # None => x = y
  BY <1>1, IdFacts DEF ClientIdsInv
<1>7. \A x \in lost : x <= lastId /\ ~Waits(x)'
  BY DEF ClientIdsInv, Waits
<1> QED BY <1>3, <1>4, <1>5, <1>6, <1>7 DEF ClientIdsInv

(* The message h is handled: m, which follows, still fits. An event.       *)
LEMMA EventTaken ==
  ASSUME NEW h, NEW m, NEW before, Fits(m, before \cup {h}), h.op = "event",
         UNCHANGED <<kind, proxies, recycledIds, lastId, fired, lost>>
  PROVE  Fits(m, before)'
<1>1. Taken(m.id)' <=> Taken(m.id)
  BY DEF Taken, Waits
<1>2. m.op = "event" => EventFits(m, before)'
  BY <1>1 DEF Fits, EventFits
<1>3. m.op = "done" => DoneFits(m, before)'
  BY <1>1 DEF Fits, DoneFits
<1>4. m.op = "offer" => OfferFits(m, before)'
  BY DEF Fits, OfferFits
<1>5. m.op = "delete_id" => DeleteFits(m, before)'
  BY <1>1 DEF Fits, DeleteFits
<1> QED BY <1>2, <1>3, <1>4, <1>5 DEF Fits

(* A done event: the callback is destroyed, or done.                       *)
LEMMA DoneTaken ==
  ASSUME Typed, ClientIdsInv, NEW h, DoneFits(h, {}), h.op = "done",
         \/ proxies' = [proxies EXCEPT ![h.id] = None] /\ fired' = fired
         \/ proxies' = proxies /\ fired' = fired \cup {proxies[h.id]},
         UNCHANGED <<kind, recycledIds, lastId, lost>>,
         NEW m, NEW before, IsMessage(m), Fits(m, before \cup {h})
  PROVE  Fits(m, before)'
<1>1. h.id \in ClientIds /\ proxies[h.id] = h.obj /\ h.obj # None
  BY DEF DoneFits, Taken
<1>2. /\ \A x \in Ids : x # h.id => proxies'[x] = proxies[x]
      /\ proxies'[h.id] \in {None, proxies[h.id]}
      /\ proxies'[h.id] \in {None} \cup fired'
      /\ fired \subseteq fired' /\ fired' \subseteq fired \cup {h.obj}
  BY <1>1, IdFacts DEF Typed, TypeOK
<1>3. m.id \in Ids
  BY DEF IsMessage
<1>4. Taken(m.id)' <=> Taken(m.id)
  BY DEF Taken, Waits
<1>5. m.op = "event" => EventFits(m, before)'
  <2> SUFFICES ASSUME m.op = "event"
               PROVE  EventFits(m, before)'
    OBVIOUS
  <2>1. EventFits(m, before \cup {h})
    BY DEF Fits
  <2>2. proxies'[m.id] \in {None, m.obj}
    BY <1>2, <1>3, <2>1 DEF EventFits
  <2> QED BY <1>4, <2>1, <2>2 DEF EventFits
<1>6. m.op = "done" => DoneFits(m, before)'
  <2> SUFFICES ASSUME m.op = "done"
               PROVE  DoneFits(m, before)'
    OBVIOUS
  <2>1. DoneFits(m, before \cup {h})
    BY DEF Fits
  <2>2. m.id # h.id
    BY <2>1 DEF DoneFits
  <2>3. m.obj # h.obj
    BY <1>1, <2>1, <2>2 DEF DoneFits, Taken, ClientIdsInv
  <2>4. proxies'[m.id] = m.obj /\ m.obj \notin fired'
    BY <1>2, <1>3, <2>1, <2>2, <2>3 DEF DoneFits
  <2> QED BY <1>4, <2>1, <2>4 DEF DoneFits
<1>7. m.op = "offer" => OfferFits(m, before)'
  <2> SUFFICES ASSUME m.op = "offer"
               PROVE  OfferFits(m, before)'
    OBVIOUS
  <2>1. OfferFits(m, before \cup {h})
    BY DEF Fits
  <2>2. m.id # h.id
    BY <1>1, <2>1, IdFacts DEF OfferFits
  <2> QED BY <1>2, <1>3, <2>1, <2>2 DEF OfferFits
<1>8. m.op = "delete_id" => DeleteFits(m, before)'
  <2> SUFFICES ASSUME m.op = "delete_id"
               PROVE  DeleteFits(m, before)'
    OBVIOUS
  <2>1. DeleteFits(m, before \cup {h})
    BY DEF Fits
  <2>2. CASE m.id = h.id
    BY <1>2, <1>4, <2>1, <2>2 DEF DeleteFits
  <2>3. CASE m.id # h.id
    <3>1. proxies'[m.id] = proxies[m.id]
      BY <1>2, <1>3, <2>3
    <3>2. \/ proxies[m.id] \in {None} \cup fired
          \/ \E e \in before : e.op = "done" /\ e.id = m.id
      BY <2>1, <2>3 DEF DeleteFits
    <3>3. \/ proxies'[m.id] \in {None} \cup fired'
          \/ \E e \in before : e.op = "done" /\ e.id = m.id
      BY <1>2, <3>1, <3>2
    <3> QED BY <1>4, <2>1, <3>3 DEF DeleteFits
  <2> QED BY <2>2, <2>3
<1> QED BY <1>5, <1>6, <1>7, <1>8 DEF Fits

(* A new object: its proxy is registered.                                  *)
LEMMA OfferTaken ==
  ASSUME Typed, NEW h, OfferFits(h, {}), h.op = "offer",
         proxies' = [proxies EXCEPT ![h.id] = h.obj],
         UNCHANGED <<kind, recycledIds, lastId, fired, lost>>,
         NEW m, NEW before, IsMessage(m), Fits(m, before \cup {h})
  PROVE  Fits(m, before)'
<1>1. h.id \in ServerIds /\ h.id \in Ids
  BY IdFacts DEF OfferFits
<1>2. \A x \in Ids : proxies'[x] = IF x = h.id THEN h.obj ELSE proxies[x]
  BY <1>1 DEF Typed, TypeOK
<1>3. m.id \in Ids
  BY DEF IsMessage
<1>4. Taken(m.id)' <=> Taken(m.id)
  BY DEF Taken, Waits
<1>5. m.op = "event" => EventFits(m, before)'
  <2> SUFFICES ASSUME m.op = "event"
               PROVE  EventFits(m, before)'
    OBVIOUS
  <2>1. EventFits(m, before \cup {h})
    BY DEF Fits
  <2>2. m.id = h.id => m.obj = h.obj
    BY <2>1 DEF EventFits
  <2>3. proxies'[m.id] \in {None, m.obj}
    BY <1>2, <1>3, <2>1, <2>2 DEF EventFits
  <2> QED BY <1>4, <2>1, <2>3 DEF EventFits
<1>6. m.op = "done" => DoneFits(m, before)'
  <2> SUFFICES ASSUME m.op = "done"
               PROVE  DoneFits(m, before)'
    OBVIOUS
  <2>1. DoneFits(m, before \cup {h}) /\ m.id # h.id
    BY <1>1, IdFacts DEF Fits, DoneFits, Taken
  <2> QED BY <1>2, <1>3, <1>4, <2>1 DEF DoneFits
<1>7. m.op = "offer" => OfferFits(m, before)'
  <2> SUFFICES ASSUME m.op = "offer"
               PROVE  OfferFits(m, before)'
    OBVIOUS
  <2>1. OfferFits(m, before \cup {h})
    BY DEF Fits
  <2>2. m.id # h.id
    BY <2>1 DEF OfferFits
  <2> QED BY <1>2, <1>3, <2>1, <2>2 DEF OfferFits
<1>8. m.op = "delete_id" => DeleteFits(m, before)'
  <2> SUFFICES ASSUME m.op = "delete_id"
               PROVE  DeleteFits(m, before)'
    OBVIOUS
  <2>1. DeleteFits(m, before \cup {h}) /\ m.id # h.id
    BY <1>1, IdFacts DEF Fits, DeleteFits, Taken
  <2> QED BY <1>2, <1>3, <1>4, <2>1 DEF DeleteFits
<1> QED BY <1>5, <1>6, <1>7, <1>8 DEF Fits

(* An id comes back: it waits for reuse.                                   *)
LEMMA DeleteTaken ==
  ASSUME NEW h, h.op = "delete_id",
         \A x : Taken(x)' <=> Taken(x) /\ x # h.id,
         UNCHANGED <<kind, proxies, lastId, fired, lost>>,
         NEW m, NEW before, Fits(m, before \cup {h})
  PROVE  Fits(m, before)'
<1>1. m.op = "event" => EventFits(m, before)'
  BY DEF Fits, EventFits
<1>2. m.op = "done" => DoneFits(m, before)'
  BY DEF Fits, DoneFits
<1>3. m.op = "offer" => OfferFits(m, before)'
  BY DEF Fits, OfferFits
<1>4. m.op = "delete_id" => DeleteFits(m, before)'
  BY DEF Fits, DeleteFits
<1> QED BY <1>1, <1>2, <1>3, <1>4 DEF Fits

(* Any of them: if the rest fits, message by message, all of it does.      *)
LEMMA AllTaken ==
  ASSUME Typed, AllFit(toClient), toClient # <<>>, toClient' = Tail(toClient), NEW h, h = Head(toClient),
         \A m, before : IsMessage(m) /\ Fits(m, before \cup {h}) => Fits(m, before)'
  PROVE  AllFit(toClient)'
<1>1. PICK q : q = toClient'
  OBVIOUS
<1>2. toClient \in Seq(Event)
  BY ToClientFacts
<1>3. \A k \in DOMAIN q : Fits(q[k], Before(q, k) \cup {h})
  BY <1>1, <1>2, FitTail
<1>4. \A k \in DOMAIN q : IsMessage(q[k])
  <2>1. \A k \in DOMAIN q : k + 1 \in DOMAIN toClient /\ q[k] = toClient[k + 1]
    BY <1>1, <1>2, TailOf
  <2> QED BY <2>1, MessagesKnown
<1>5. \A k \in DOMAIN q : Fits(q[k], Before(q, k))'
  BY <1>3, <1>4
<1> QED BY <1>1, <1>5 DEF AllFit

-----------------------------------------------------------------------------
(* Queues and types.                                                       *)
LEMMA RangeChanges ==
  ASSUME NEW S, NEW q \in Seq(S)
  PROVE  /\ \A k \in DOMAIN q : q[k] \in Range(q)
         /\ \A x \in Range(q) : \E k \in DOMAIN q : q[k] = x
         /\ \A m \in S : Range(Append(q, m)) = Range(q) \cup {m}
         /\ q # <<>> => Range(q) = {Head(q)} \cup Range(Tail(q))
<1>1. \A k \in DOMAIN q : q[k] \in Range(q)
  BY DEF Range
<1>2. \A x \in Range(q) : \E k \in DOMAIN q : q[k] = x
  BY DEF Range
<1>3. ASSUME NEW m \in S
      PROVE  Range(Append(q, m)) = Range(q) \cup {m}
  <2>1. PICK t : t = Append(q, m)
    OBVIOUS
  <2>2. /\ Len(t) \in DOMAIN t /\ t[Len(t)] = m
        /\ \A k \in DOMAIN q : k \in DOMAIN t /\ t[k] = q[k]
        /\ \A k \in DOMAIN t : k # Len(t) => k \in DOMAIN q
    BY <2>1, AppendOf
  <2>3. \A x : x \in Range(t) <=> x \in Range(q) \cup {m}
    BY <2>2 DEF Range
  <2> QED BY <2>1, <2>3
<1>4. ASSUME q # <<>>
      PROVE  Range(q) = {Head(q)} \cup Range(Tail(q))
  <2>1. PICK t : t = Tail(q)
    OBVIOUS
  <2>2. /\ 1 \in DOMAIN q /\ Head(q) = q[1]
        /\ \A k \in DOMAIN t : k + 1 \in DOMAIN q /\ t[k] = q[k + 1]
        /\ \A k \in DOMAIN q : k # 1 => k - 1 \in DOMAIN t /\ t[k - 1] = q[k]
    BY <1>4, <2>1, TailOf
  <2>3. \A x : x \in Range(q) => x \in {Head(q)} \cup Range(t)
    BY <2>2 DEF Range
  <2>4. \A x : x \in {Head(q)} \cup Range(t) => x \in Range(q)
    BY <2>2 DEF Range
  <2>5. \A x : x \in Range(q) <=> x \in {Head(q)} \cup Range(t)
    BY <2>3, <2>4
  <2> QED BY <2>1, <2>5
<1> QED BY <1>1, <1>2, <1>3, <1>4

(* A queue of messages of S about objects lo .. n.                         *)
Queue(q, S, lo, n) == q \in Seq(S) /\ \A k \in DOMAIN q : q[k].obj \in lo .. n

LEMMA QueueChanges ==
  ASSUME NEW S, NEW lo \in Nat, NEW n \in Nat, NEW p \in Nat, n <= p, NEW q, Queue(q, S, lo, n)
  PROVE  /\ Queue(q, S, lo, p)
         /\ \A m \in S : m.obj \in lo .. p => Queue(Append(q, m), S, lo, p)
         /\ q # <<>> => Queue(Tail(q), S, lo, p)
         /\ \A i \in 0 .. Len(q) : Queue(SubSeq(q, 1, i), S, lo, p)
<1>1. q \in Seq(S) /\ \A k \in DOMAIN q : q[k].obj \in lo .. p
  BY DEF Queue
<1>2. ASSUME NEW m \in S, m.obj \in lo .. p
      PROVE  Queue(Append(q, m), S, lo, p)
  <2>1. PICK t : t = Append(q, m)
    OBVIOUS
  <2>2. /\ t \in Seq(S) /\ t[Len(t)] = m
        /\ \A k \in DOMAIN q : t[k] = q[k]
        /\ \A k \in DOMAIN t : k # Len(t) => k \in DOMAIN q
    BY <1>1, <2>1, AppendOf
  <2>3. \A k \in DOMAIN t : t[k].obj \in lo .. p
    BY <1>1, <1>2, <2>2
  <2> QED BY <2>1, <2>2, <2>3 DEF Queue
<1>3. ASSUME q # <<>>
      PROVE  Queue(Tail(q), S, lo, p)
  <2>1. PICK t : t = Tail(q)
    OBVIOUS
  <2>2. t \in Seq(S) /\ \A k \in DOMAIN t : k + 1 \in DOMAIN q /\ t[k] = q[k + 1]
    BY <1>1, <1>3, <2>1, TailOf
  <2> QED BY <1>1, <2>1, <2>2 DEF Queue
<1>4. ASSUME NEW i \in 0 .. Len(q)
      PROVE  Queue(SubSeq(q, 1, i), S, lo, p)
  <2>1. PICK t : t = SubSeq(q, 1, i)
    OBVIOUS
  <2>2. t \in Seq(S) /\ \A k \in DOMAIN t : k \in DOMAIN q /\ t[k] = q[k]
    BY <1>1, <2>1, PrefixOf
  <2> QED BY <1>1, <2>1, <2>2 DEF Queue
<1> QED BY <1>1, <1>2, <1>3, <1>4 DEF Queue

(* A message of the server is added to its queue.                          *)
LEMMA EventQueued ==
  ASSUME Typed, NEW q, Queue(q, Event, 0, Len(kind)), NEW m \in Event, m.obj \in 0 .. Len(kind),
         NEW r, r = Append(q, m)
  PROVE  Queue(r, Event, 0, Len(kind)) /\ Range(r) = Range(q) \cup {m}
<1>1. Len(kind) \in Nat /\ Len(kind) <= Len(kind) /\ 0 \in Nat
  BY TypeFacts
<1>2. q \in Seq(Event)
  BY DEF Queue
<1>3. Range(Append(q, m)) = Range(q) \cup {m}
  BY <1>2, RangeChanges
<1>4. Queue(Append(q, m), Event, 0, Len(kind))
  BY <1>1, QueueChanges
<1> QED BY <1>3, <1>4

LEMMA QueuesTyped ==
  ASSUME Typed
  PROVE  Queue(toServer, Request, 1, Len(kind)) /\ Queue(toClient, Event, 0, Len(kind))
BY DEF Typed, TypeOK, Queue, Objects

(* The tables of both ends and the two queues, for Typed'.                 *)
ClientTyped ==
    /\ proxies \in [Ids -> 0 .. Len(kind)] /\ fired \subseteq 1 .. Len(kind)
    /\ recycledIds \in Seq(ClientIds) /\ lastId \in 1 .. MaxClientId
    /\ lost \subseteq ClientIds /\ clientClosed \in BOOLEAN
ServerTyped ==
    /\ resources \in [Ids -> 0 .. Len(kind)]
    /\ serverRecycled \in Seq(ServerIds) /\ nextId \in ServerIdBase .. MaxServerId + 1
    /\ serverClosed \in BOOLEAN
KindTyped == kind \in Seq(Kinds) /\ Len(kind) <= MaxObjects

LEMMA TypedParts ==
  ASSUME Typed
  PROVE  ClientTyped /\ ServerTyped /\ KindTyped
BY DEF Typed, TypeOK, ClientTyped, ServerTyped, KindTyped

LEMMA TypedNext ==
  ASSUME ClientTyped', ServerTyped', KindTyped',
         Queue(toServer', Request, 1, Len(kind')), Queue(toClient', Event, 0, Len(kind'))
  PROVE  Typed'
BY DEF Typed, TypeOK, ClientTyped, ServerTyped, KindTyped, Queue, Objects

(* An end that a step leaves alone, while objects are only added.          *)
LEMMA TypesKept ==
  ASSUME Typed, UNCHANGED kind
  PROVE  /\ UNCHANGED clientVars => ClientTyped'
         /\ UNCHANGED serverVars => ServerTyped'
         /\ KindTyped'
<1>1. ClientTyped /\ ServerTyped /\ KindTyped
  BY TypedParts
<1>2. UNCHANGED clientVars => ClientTyped'
  BY <1>1 DEF ClientTyped, clientVars
<1>3. UNCHANGED serverVars => ServerTyped'
  BY <1>1 DEF ServerTyped, serverVars
<1> QED BY <1>1, <1>2, <1>3 DEF KindTyped

(* A new object.                                                           *)
LEMMA KindGrows ==
  ASSUME Typed, NEW k \in Kinds, Len(kind) < MaxObjects, kind' = Append(kind, k)
  PROVE  /\ KindTyped' /\ Len(kind') = Len(kind) + 1 /\ Len(kind) \in Nat /\ Len(kind') \in Nat
         /\ Len(kind') \in Objects' /\ Len(kind') \notin Objects /\ Len(kind') # None
         /\ Len(kind') \in 1 .. MaxObjects
         /\ kind'[Len(kind')] = k
         /\ \A obj \in Objects : obj \in Objects' /\ kind'[obj] = kind[obj]
         /\ \A obj \in Objects' : obj = Len(kind') \/ obj \in Objects
         /\ UNCHANGED clientVars => ClientTyped'
         /\ UNCHANGED serverVars => ServerTyped'
<1>1. kind \in Seq(Kinds) /\ MaxObjects \in Nat /\ Len(kind) \in Nat
  BY TypeFacts, ObjectIdsAssumption
<1>2. /\ kind' \in Seq(Kinds) /\ Len(kind') = Len(kind) + 1 /\ kind'[Len(kind')] = k
      /\ \A obj \in 1 .. Len(kind) : kind'[obj] = kind[obj]
  BY <1>1, AppendOf
<1>3. 0 .. Len(kind) \subseteq 0 .. Len(kind') /\ 1 .. Len(kind) \subseteq 1 .. Len(kind')
  BY <1>1, <1>2
<1>4. UNCHANGED clientVars => ClientTyped'
  BY <1>3, TypedParts DEF ClientTyped, clientVars
<1>5. UNCHANGED serverVars => ServerTyped'
  BY <1>3, TypedParts DEF ServerTyped, serverVars
<1>6. KindTyped'
  BY <1>1, <1>2 DEF KindTyped
<1> QED BY <1>1, <1>2, <1>4, <1>5, <1>6 DEF Objects, None

-----------------------------------------------------------------------------
(* What the parts of the invariant say of single messages.                 *)
LEMMA SentFacts ==
  ASSUME Typed, CreatesFresh, RequestsMeet
  PROVE  /\ \A m \in Range(toServer) : /\ m.id \in Ids /\ m.obj \in Objects
                                       /\ Alive(m.id, m.obj)
                                       /\ m.op # "create" => kind[m.obj] \in {"object", "offer"}
         /\ \A id, obj : CreateComes(id, obj) => id \in ClientIds /\ resources[id] = None /\ obj \in Objects
         /\ \A id \in ServerIds : \A obj : Alive(id, obj) => resources[id] = obj
<1>1. ASSUME NEW k \in DOMAIN toServer
      PROVE  Alive(toServer[k].id, toServer[k].obj)
  <2>1. CASE toServer[k].op = "create"
    BY <2>1 DEF Alive, CreateComes, Range
  <2>2. CASE toServer[k].op # "create"
    <3>1. \/ resources[toServer[k].id] = toServer[k].obj
          \/ \E j \in DOMAIN toServer : /\ toServer[j].op = "create"
                                        /\ toServer[j].id = toServer[k].id /\ toServer[j].obj = toServer[k].obj
      BY <2>2 DEF RequestsMeet
    <3> QED BY <3>1 DEF Alive, CreateComes, Range
  <2> QED BY <2>1, <2>2
<1>2. ASSUME NEW id, NEW obj, CreateComes(id, obj)
      PROVE  id \in ClientIds /\ resources[id] = None /\ obj \in Objects
  <2>1. PICK k \in DOMAIN toServer : toServer[k].op = "create" /\ toServer[k].id = id /\ toServer[k].obj = obj
    BY <1>2 DEF CreateComes, Range
  <2> QED BY <2>1, ToServerFacts DEF CreatesFresh
<1>3. \A id \in ServerIds : \A obj : Alive(id, obj) => resources[id] = obj
  BY <1>2, IdFacts DEF Alive
<1>4. ASSUME NEW m \in Range(toServer)
      PROVE  /\ m.id \in Ids /\ m.obj \in Objects
             /\ Alive(m.id, m.obj)
             /\ m.op # "create" => kind[m.obj] \in {"object", "offer"}
  <2>1. PICK k \in DOMAIN toServer : toServer[k] = m
    BY ToServerFacts, RangeChanges
  <2> QED BY <1>1, <2>1, ToServerFacts DEF RequestsMeet
<1> QED BY <1>2, <1>3, <1>4

LEMMA PostedFacts ==
  ASSUME Typed, AllFit(toClient)
  PROVE  \A e \in Range(toClient) :
            /\ e.id \in Ids
            /\ e.op = "event" /\ e.id \in ClientIds => Taken(e.id)
            /\ e.op \in {"done", "delete_id"} => Taken(e.id)
            /\ e.op = "offer" => /\ e.id \in ServerIds /\ proxies[e.id] = None
                                 /\ e.obj # None /\ e.obj \in Objects
<1> SUFFICES ASSUME NEW e \in Range(toClient)
             PROVE  /\ e.id \in Ids
                    /\ e.op = "event" /\ e.id \in ClientIds => Taken(e.id)
                    /\ e.op \in {"done", "delete_id"} => Taken(e.id)
                    /\ e.op = "offer" => /\ e.id \in ServerIds /\ proxies[e.id] = None
                                         /\ e.obj # None /\ e.obj \in Objects
  OBVIOUS
<1>1. PICK k \in DOMAIN toClient : toClient[k] = e
  BY ToClientFacts, RangeChanges
<1>2. Fits(e, Before(toClient, k))
  BY <1>1 DEF AllFit
<1>3. e.id \in Ids /\ (e.obj # None => e.obj \in Objects)
  BY <1>1, ToClientFacts
<1> QED BY <1>2, <1>3 DEF Fits, EventFits, DoneFits, OfferFits, DeleteFits

(* An id that the client may hand out is unused at the server and on the   *)
(* way there.                                                              *)
LEMMA FreeUnused ==
  ASSUME Typed, CreatesFresh, RequestsMeet, AliveInUse, NEW id \in ClientIds, ~Taken(id)
  PROVE  /\ resources[id] = None
         /\ \A m \in Range(toServer) : m.id # id
         /\ \A obj \in Objects : ~Alive(id, obj)
<1>1. \A obj \in Objects : ~Alive(id, obj)
  BY DEF AliveInUse
<1>2. \A m \in Range(toServer) : m.id # id
  BY <1>1, SentFacts
<1>3. resources[id] # None => resources[id] \in Objects
  BY TypeFacts, IdFacts
<1> QED BY <1>1, <1>2, <1>3 DEF Alive

(* Messages that stay where they are.                                      *)
LEMMA AllStill ==
  ASSUME Typed, AllFit(toClient), UNCHANGED toClient,
         \A m, before : IsMessage(m) /\ Fits(m, before) => Fits(m, before)'
  PROVE  AllFit(toClient)'
<1>1. PICK q : q = toClient
  OBVIOUS
<1>2. \A k \in DOMAIN q : Fits(q[k], Before(q, k)) /\ IsMessage(q[k])
  BY <1>1, MessagesKnown DEF AllFit
<1>3. \A k \in DOMAIN q : Fits(q[k], Before(q, k))'
  BY <1>2
<1> QED BY <1>1, <1>3 DEF AllFit

-----------------------------------------------------------------------------
(* The client's ids and proxies: one lemma for each way they change.       *)
LEMMA CreateIds ==
  ASSUME Typed, ClientIdsInv, NEW id \in ClientIds, GenerateNextId(id), proxies[id] = None,
         NEW k \in Kinds, k # "offer", Len(kind) < MaxObjects, kind' = Append(kind, k),
         proxies' = [proxies EXCEPT ![id] = Len(kind')],
         UNCHANGED <<fired, lost>>
  PROVE  ClientIdsInv'
<1>1. /\ Taken(id)' /\ (\A x : Waits(x)' => Waits(x))
      /\ lastId' \in 1 .. MaxClientId /\ lastId <= lastId' /\ recycledIds' \in Seq(ClientIds)
      /\ \A i, j \in DOMAIN recycledIds' : recycledIds'[i] = recycledIds'[j] => i = j
  BY IdHandedOut
<1>2. id <= lastId' /\ ~Waits(id)'
  BY <1>1 DEF Taken
<1>3. PICK new : new = Len(kind')
  OBVIOUS
<1>4. new \notin Objects /\ kind'[new] = k /\ \A obj \in Objects : kind'[obj] = kind[obj]
  BY <1>3, KindGrows
<1>5. \A x \in Ids : proxies'[x] = IF x = id THEN new ELSE proxies[x]
  BY <1>3 DEF Typed, TypeOK
<1>6. \A x \in Ids : x # id /\ proxies'[x] # None =>
          /\ proxies'[x] = proxies[x] /\ proxies[x] \in Objects /\ kind'[proxies'[x]] = kind[proxies[x]]
          /\ proxies'[x] # new
  BY <1>4, <1>5, TypeFacts
<1>7. \A x \in ClientIds : x <= lastId => x <= lastId'
  BY <1>1, IdFacts DEF Typed, TypeOK
<1>8. ASSUME NEW i \in DOMAIN recycledIds'
      PROVE  recycledIds'[i] <= lastId' /\ proxies'[recycledIds'[i]] \in {None} \cup fired'
  <2>1. PICK x : x = recycledIds'[i]
    OBVIOUS
  <2>2. x \in ClientIds /\ Waits(x)' /\ x # id /\ Waits(x)
    BY SMTT(40), <1>1, <1>2, <2>1 DEF Waits
  <2>3. PICK j \in DOMAIN recycledIds : recycledIds[j] = x
    BY <2>2 DEF Waits
  <2>4. x <= lastId /\ proxies[x] \in {None} \cup fired
    BY <2>3 DEF ClientIdsInv
  <2> QED BY <1>5, <1>7, <2>1, <2>2, <2>4, IdFacts
<1>9. ASSUME NEW x \in ClientIds, proxies'[x] # None
      PROVE  x <= lastId' /\ kind'[proxies'[x]] # "offer"
  <2>1. CASE x = id
    BY <1>2, <1>4, <1>5, <2>1, IdFacts
  <2>2. CASE x # id
    BY <1>6, <1>7, <1>9, <2>2, IdFacts, TypeFacts DEF ClientIdsInv
  <2> QED BY <2>1, <2>2
<1>10. \A x \in ServerIds : proxies'[x] # None => kind'[proxies'[x]] = "offer"
  BY ZenonT(60), <1>5, <1>6, IdFacts DEF ClientIdsInv
<1>11. ASSUME NEW x \in ClientIds, NEW y \in ClientIds, proxies'[x] = proxies'[y], proxies'[x] # None
       PROVE  x = y
  <2>1. CASE x = id \/ y = id
    BY <1>5, <1>6, <1>11, <2>1, IdFacts
  <2>2. CASE x # id /\ y # id
    BY <1>6, <1>11, <2>2, IdFacts DEF ClientIdsInv
  <2> QED BY <2>1, <2>2
<1>12. \A x \in lost' : x <= lastId' /\ ~Waits(x)'
  BY <1>1, <1>7 DEF ClientIdsInv, Typed, TypeOK
<1> QED BY <1>1, <1>8, <1>9, <1>10, <1>11, <1>12 DEF ClientIdsInv

LEMMA LostIds ==
  ASSUME Typed, ClientIdsInv, NEW id \in ClientIds, GenerateNextId(id),
         lost' = lost \cup {id}, UNCHANGED <<kind, proxies, fired>>
  PROVE  ClientIdsInv'
<1>1. /\ Taken(id)' /\ (\A x : Waits(x)' => Waits(x))
      /\ lastId' \in 1 .. MaxClientId /\ lastId <= lastId' /\ recycledIds' \in Seq(ClientIds)
      /\ \A i, j \in DOMAIN recycledIds' : recycledIds'[i] = recycledIds'[j] => i = j
  BY IdHandedOut
<1>2. id <= lastId' /\ ~Waits(id)'
  BY <1>1 DEF Taken
<1>3. \A x \in ClientIds : x <= lastId => x <= lastId'
  BY <1>1, IdFacts DEF Typed, TypeOK
<1>4. ASSUME NEW i \in DOMAIN recycledIds'
      PROVE  recycledIds'[i] <= lastId' /\ proxies'[recycledIds'[i]] \in {None} \cup fired'
  <2>1. PICK x : x = recycledIds'[i]
    OBVIOUS
  <2>2. x \in ClientIds /\ Waits(x)' /\ Waits(x)
    BY <1>1, <2>1 DEF Waits
  <2>3. PICK j \in DOMAIN recycledIds : recycledIds[j] = x
    BY <2>2 DEF Waits
  <2>4. x <= lastId /\ proxies[x] \in {None} \cup fired
    BY <2>3 DEF ClientIdsInv
  <2> QED BY <1>3, <2>1, <2>2, <2>4
<1>5. \A x \in ClientIds : proxies[x] # None => x <= lastId' /\ kind[proxies[x]] # "offer"
  BY <1>3 DEF ClientIdsInv
<1>6. \A x \in lost' : x <= lastId' /\ ~Waits(x)'
  BY <1>1, <1>2, <1>3 DEF ClientIdsInv, Typed, TypeOK
<1> QED BY <1>1, <1>4, <1>5, <1>6 DEF ClientIdsInv

(* A callback is done, and the client keeps its proxy for now.             *)
LEMMA FiredIds ==
  ASSUME ClientIdsInv, NEW obj, fired' = fired \cup {obj}, UNCHANGED <<kind, proxies, recycledIds, lastId, lost>>
  PROVE  ClientIdsInv'
<1>1. \A x : Waits(x)' <=> Waits(x)
  BY DEF Waits
<1>2. \A i \in DOMAIN recycledIds' :
        recycledIds'[i] <= lastId' /\ proxies'[recycledIds'[i]] \in {None} \cup fired'
  BY DEF ClientIdsInv
<1> QED BY <1>1, <1>2 DEF ClientIdsInv

LEMMA OfferIds ==
  ASSUME Typed, ClientIdsInv, NEW id \in ServerIds, NEW obj, kind[obj] = "offer",
         proxies' = [proxies EXCEPT ![id] = obj], UNCHANGED <<kind, recycledIds, lastId, fired, lost>>
  PROVE  ClientIdsInv'
<1>1. \A x \in Ids : proxies'[x] = IF x = id THEN obj ELSE proxies[x]
  BY DEF Typed, TypeOK
<1>2. \A x \in ClientIds : proxies'[x] = proxies[x]
  BY <1>1, IdFacts
<1>3. \A i \in DOMAIN recycledIds : recycledIds[i] \in ClientIds
  BY DEF Typed, TypeOK
<1>4. \A x \in ServerIds : proxies'[x] # None => kind[proxies'[x]] = "offer"
  BY <1>1, IdFacts DEF ClientIdsInv
<1>5. \A x : Waits(x)' <=> Waits(x)
  BY DEF Waits
<1>6. \A i \in DOMAIN recycledIds' :
        recycledIds'[i] <= lastId' /\ proxies'[recycledIds'[i]] \in {None} \cup fired'
  BY <1>2, <1>3 DEF ClientIdsInv
<1>7. \A x \in lost' : x <= lastId' /\ ~Waits(x)'
  BY <1>5 DEF ClientIdsInv
<1>8. \A x \in ClientIds : proxies'[x] # None => x <= lastId' /\ kind'[proxies'[x]] # "offer"
  BY <1>2 DEF ClientIdsInv
<1>9. \A x, y \in ClientIds : proxies'[x] = proxies'[y] /\ proxies'[x] # None => x = y
  BY <1>2 DEF ClientIdsInv
<1> QED BY <1>4, <1>6, <1>7, <1>8, <1>9 DEF ClientIdsInv

LEMMA DeleteIds ==
  ASSUME Typed, ClientIdsInv, NEW id, Taken(id), id \notin lost, proxies[id] \in {None} \cup fired,
         recycledIds' = Append(recycledIds, id), UNCHANGED <<kind, proxies, lastId, fired, lost>>
  PROVE  /\ ClientIdsInv'
         /\ recycledIds' \in Seq(ClientIds)
         /\ \A x : Waits(x)' <=> Waits(x) \/ x = id
         /\ \A x : Taken(x)' <=> Taken(x) /\ x # id
<1>1. recycledIds \in Seq(ClientIds) /\ id \in ClientIds /\ id <= lastId /\ ~Waits(id)
  BY DEF Typed, TypeOK, Taken
<1>2. PICK last : last = Len(recycledIds')
  OBVIOUS
<1>3. /\ recycledIds' \in Seq(ClientIds)
      /\ last \in DOMAIN recycledIds' /\ recycledIds'[last] = id
      /\ \A k \in DOMAIN recycledIds : k \in DOMAIN recycledIds' /\ recycledIds'[k] = recycledIds[k]
      /\ \A k \in DOMAIN recycledIds' : k # last => k \in DOMAIN recycledIds
  BY <1>1, <1>2, AppendOf
<1>4. \A x : Waits(x)' <=> Waits(x) \/ x = id
  BY <1>3 DEF Waits
<1>5. \A x : Taken(x)' <=> Taken(x) /\ x # id
  BY <1>4 DEF Taken
<1>6. \A k \in DOMAIN recycledIds : recycledIds[k] # id
  BY <1>1 DEF Waits
<1>7. \A i, j \in DOMAIN recycledIds' : recycledIds'[i] = recycledIds'[j] => i = j
  BY <1>3, <1>6 DEF ClientIdsInv
<1>8. \A i \in DOMAIN recycledIds' :
        recycledIds'[i] <= lastId' /\ proxies'[recycledIds'[i]] \in {None} \cup fired'
  BY <1>1, <1>3 DEF ClientIdsInv
<1>9. \A x \in lost' : x <= lastId' /\ ~Waits(x)'
  BY <1>4 DEF ClientIdsInv
<1>10. ClientIdsInv'
  BY <1>7, <1>8, <1>9 DEF ClientIdsInv
<1> QED BY <1>3, <1>4, <1>5, <1>10

-----------------------------------------------------------------------------
(* The steps of the client's application.                                  *)
LEMMA RequestMessage ==
  ASSUME Typed, NEW op \in {"create", "destroy", "request"}, NEW id \in Ids, NEW obj \in 1 .. MaxObjects,
         NEW m, m = [op |-> op, id |-> id, obj |-> obj]
  PROVE  /\ m \in Request /\ m.op = op /\ m.id = id /\ m.obj = obj
         /\ Range(Append(toServer, m)) = Range(toServer) \cup {m}
<1>1. m \in Request /\ m.op = op /\ m.id = id /\ m.obj = obj
  BY DEF Request
<1> QED BY <1>1, ToServerFacts, RangeChanges

(* A request on a proxy of the client is typed, and the server will find   *)
(* the object it means.                                                    *)
LEMMA ProxyRequest ==
  ASSUME IdsInv, NEW id \in Ids, proxies[id] # None, kind[proxies[id]] \in {"object", "offer"},
         NEW op \in {"destroy", "request"},
         toServer' = Append(toServer, [op |-> op, id |-> id, obj |-> proxies[id]]),
         UNCHANGED <<kind, serverVars>>
  PROVE  /\ Queue(toServer', Request, 1, Len(kind'))
         /\ ServerInv'
         /\ \E m : /\ Range(toServer') = Range(toServer) \cup {m}
                   /\ m.op = op /\ m.id = id /\ m.obj = proxies[id]
         /\ \A x, obj : CreateComes(x, obj)' <=> CreateComes(x, obj)
<1>1. Typed /\ ServerInv /\ LinkInv /\ ~clientClosed
  BY DEF IdsInv, ClosedEmpty
<1>2. proxies[id] \in Objects /\ proxies[id] \in 1 .. MaxObjects /\ Len(kind) \in Nat
  BY <1>1, TypeFacts, ObjectIdsAssumption DEF Objects
<1>3. PICK m : m = [op |-> op, id |-> id, obj |-> proxies[id]]
  OBVIOUS
<1>4. /\ m \in Request /\ m.op = op /\ m.id = id /\ m.obj = proxies[id]
      /\ Range(toServer') = Range(toServer) \cup {m}
  BY <1>1, <1>2, <1>3, RequestMessage
<1>5. Queue(toServer', Request, 1, Len(kind'))
  <2>1. Queue(toServer, Request, 1, Len(kind)) /\ m.obj \in 1 .. Len(kind) /\ 1 \in Nat /\ Len(kind) <= Len(kind)
    BY <1>1, <1>2, <1>4, QueuesTyped DEF Objects
  <2>2. Queue(Append(toServer, m), Request, 1, Len(kind))
    BY <1>2, <1>4, <2>1, QueueChanges
  <2> QED BY <1>3, <2>2
<1>6. ServerInv'
  <2>1. SameServer
    BY DEF SameServer
  <2>2. ~serverClosed => ProxiesAlive
    BY <1>1 DEF LinkInv
  <2>3. ~serverClosed => /\ Alive(id, proxies[id])
                         /\ \A r \in Range(toServer) : r.op = "destroy" => r.id # id
    BY <2>2 DEF ProxiesAlive
  <2>4. ~serverClosed =>
            /\ m.op = "create" => /\ m.id \in ClientIds /\ resources[m.id] = None
                                  /\ kind'[m.obj] # "offer"
                                  /\ \A r \in Range(toServer) : r.id # m.id
            /\ m.op # "create" => /\ kind'[m.obj] \in {"object", "offer"}
                                  /\ resources[m.id] = m.obj \/ CreateComes(m.id, m.obj)
                                  /\ \A r \in Range(toServer) : r.op = "destroy" => r.id # m.id
    BY <1>4, <2>3 DEF Alive
  <2>5. toServer' = Append(toServer, m)
    BY <1>3
  <2> QED BY <1>1, <1>4, <2>1, <2>4, <2>5, ServerGets
<1>7. \A x, obj : CreateComes(x, obj)' <=> CreateComes(x, obj)
  BY <1>4 DEF CreateComes
<1> QED BY <1>4, <1>5, <1>6, <1>7

LEMMA DestroyKeeps ==
  ASSUME IdsInv, NEW id \in Ids, ClientDestroy(id)
  PROVE  IdsInv'
<1>1. /\ Typed /\ ~clientClosed /\ ClientIdsInv /\ AllFit(toClient)
      /\ proxies[id] # None /\ kind[proxies[id]] \in {"object", "offer"}
  BY DEF IdsInv, ClosedEmpty, ClientInv, ClientDestroy
<1>2. /\ proxies' = [proxies EXCEPT ![id] = None]
      /\ UNCHANGED <<kind, recycledIds, lastId, fired, lost, clientClosed, serverVars, toClient>>
      /\ toServer' = Append(toServer, [op |-> "destroy", id |-> id, obj |-> proxies[id]])
  BY DEF ClientDestroy
<1>3. /\ Queue(toServer', Request, 1, Len(kind')) /\ ServerInv'
      /\ \A x, obj : CreateComes(x, obj)' <=> CreateComes(x, obj)
      /\ \E m : /\ Range(toServer') = Range(toServer) \cup {m}
                /\ m.op = "destroy" /\ m.id = id /\ m.obj = proxies[id]
  BY <1>1, <1>2, ProxyRequest
<1>4. PICK m : Range(toServer') = Range(toServer) \cup {m} /\ m.op = "destroy" /\ m.id = id
  BY <1>3
<1>5. \A x \in Ids : proxies'[x] = IF x = id THEN None ELSE proxies[x]
  BY <1>1, <1>2 DEF Typed, TypeOK
<1>6. Typed'
  <2>1. ClientTyped'
    BY <1>1, <1>2, <1>5, TypedParts, TypeFacts DEF ClientTyped, None
  <2>2. Queue(toClient', Event, 0, Len(kind'))
    BY <1>1, <1>2, QueuesTyped
  <2> QED BY <1>1, <1>2, <1>3, <2>1, <2>2, TypesKept, TypedNext
<1>7. ClientInv'
  <2>1. \A n, before : IsMessage(n) /\ Fits(n, before) => Fits(n, before)'
    BY <1>1, <1>2, DestroyFits
  <2>2. AllFit(toClient)'
    BY <1>1, <1>2, <2>1, AllStill
  <2>3. ClientIdsInv'
    BY <1>1, <1>2, DestroyIds
  <2> QED BY <2>2, <2>3 DEF ClientInv
<1>8. LinkInv'
  <2> SUFFICES ASSUME ~serverClosed
               PROVE  (AliveInUse /\ ProxiesAlive /\ OffersUnknown /\ NoneForgotten)'
    BY <1>2 DEF LinkInv, serverVars
  <2>1. AliveInUse /\ ProxiesAlive /\ OffersUnknown /\ NoneForgotten
    BY <1>1 DEF IdsInv, LinkInv
  <2>2. \A x, obj : Alive(x, obj)' <=> Alive(x, obj)
    BY <1>2, <1>3 DEF Alive, serverVars
  <2>3. \A x : Taken(x)' <=> Taken(x)
    BY <1>2 DEF Taken, Waits
  <2>4. Objects' = Objects /\ Range(toClient') = Range(toClient)
    BY <1>2 DEF Objects
  <2>5. ASSUME NEW x \in ClientIds, NEW obj \in Objects, Alive(x, obj)
        PROVE  /\ proxies'[x] \in {None, obj}
               /\ kind[obj] # "object" => proxies'[x] = obj /\ obj \notin fired
    <3>1. /\ proxies[x] \in {None, obj}
          /\ kind[obj] # "object" => proxies[x] = obj /\ obj \notin fired
      BY <2>1, <2>5 DEF AliveInUse
    <3>2. x = id => kind[proxies[x]] # "offer"
      BY <1>1 DEF ClientIdsInv
    <3> QED BY <1>1, <1>5, <3>1, <3>2, IdFacts
  <2>6. AliveInUse'
    BY <1>2, <2>1, <2>2, <2>3, <2>4, <2>5 DEF AliveInUse
  <2>7. ProxiesAlive'
    BY <1>2, <1>4, <1>5, <2>1, <2>2 DEF ProxiesAlive
  <2>8. \A e \in Range(toClient) : e.op = "offer" => e.id # id
    BY <1>1, PostedFacts
  <2>9. OffersUnknown'
    BY <1>2, <1>4, <2>1, <2>4, <2>8 DEF OffersUnknown, serverVars
  <2>10. NoneForgotten'
    BY <1>2, <2>1, <2>2, <2>4 DEF NoneForgotten, Waits
  <2> QED BY <2>6, <2>7, <2>9, <2>10
<1>9. ClosedEmpty'
  BY <1>1, <1>2 DEF IdsInv, ClosedEmpty, serverVars
<1> QED BY <1>3, <1>6, <1>7, <1>8, <1>9 DEF IdsInv

LEMMA DestroyCallbackKeeps ==
  ASSUME IdsInv, NEW id \in Ids, ClientDestroyCallback(id)
  PROVE  IdsInv'
<1>1. Typed /\ proxies[id] \in fired
  BY DEF IdsInv, ClientDestroyCallback
<1>2. proxies[id] # None
  BY <1>1 DEF Typed, TypeOK, None
<1>3. ~clientClosed /\ ClientIdsInv /\ AllFit(toClient)
  BY <1>2 DEF IdsInv, ClosedEmpty, ClientInv
<1>4. /\ proxies' = [proxies EXCEPT ![id] = None] /\ fired' = fired \ {proxies[id]}
      /\ UNCHANGED <<kind, recycledIds, lastId, lost, clientClosed, serverVars, toServer, toClient>>
  BY DEF ClientDestroyCallback
<1>5. \A x \in Ids : proxies'[x] = IF x = id THEN None ELSE proxies[x]
  BY <1>1, <1>4 DEF Typed, TypeOK
<1>6. Typed'
  <2>1. ClientTyped'
    BY <1>1, <1>4, <1>5, TypedParts, TypeFacts DEF ClientTyped, None
  <2>2. Queue(toServer', Request, 1, Len(kind')) /\ Queue(toClient', Event, 0, Len(kind'))
    BY <1>1, <1>4, QueuesTyped
  <2> QED BY <1>1, <1>4, <2>1, <2>2, TypesKept, TypedNext
<1>7. ServerInv'
  BY <1>1, <1>4, ServerKeeps DEF IdsInv, SameServer
<1>8. ClientInv'
  <2>1. \A n, before : IsMessage(n) /\ Fits(n, before) => Fits(n, before)'
    BY <1>1, <1>2, <1>3, <1>4, DestroyFits
  <2>2. AllFit(toClient)'
    BY <1>1, <1>3, <1>4, <2>1, AllStill
  <2>3. ClientIdsInv'
    BY <1>1, <1>2, <1>3, <1>4, DestroyIds
  <2> QED BY <2>2, <2>3 DEF ClientInv
<1>9. LinkInv'
  <2> SUFFICES ASSUME ~serverClosed
               PROVE  (AliveInUse /\ ProxiesAlive /\ OffersUnknown /\ NoneForgotten)'
    BY <1>4 DEF LinkInv, serverVars
  <2>1. AliveInUse /\ ProxiesAlive /\ OffersUnknown /\ NoneForgotten
    BY <1>3 DEF IdsInv, LinkInv
  <2>2. \A x, obj : Alive(x, obj)' <=> Alive(x, obj)
    BY <1>4 DEF Alive, CreateComes, serverVars
  <2>3. \A x : Taken(x)' <=> Taken(x)
    BY <1>4 DEF Taken, Waits
  <2>4. Objects' = Objects
    BY <1>4 DEF Objects
  <2>5. ASSUME NEW x \in ClientIds, NEW obj \in Objects, Alive(x, obj)
        PROVE  /\ proxies'[x] \in {None, obj}
               /\ kind[obj] # "object" => proxies'[x] = obj /\ obj \notin fired'
    <3>1. /\ proxies[x] \in {None, obj}
          /\ kind[obj] # "object" => proxies[x] = obj /\ obj \notin fired
      BY <2>1, <2>5 DEF AliveInUse
    <3> QED BY <1>1, <1>2, <1>4, <1>5, <3>1, IdFacts
  <2>6. AliveInUse'
    BY <1>4, <2>1, <2>2, <2>3, <2>4, <2>5 DEF AliveInUse
  <2>7. ProxiesAlive'
    BY <1>4, <1>5, <2>1, <2>2 DEF ProxiesAlive
  <2>8. OffersUnknown'
    BY <1>4, <2>1 DEF OffersUnknown, serverVars
  <2>9. NoneForgotten'
    BY <1>4, <2>1, <2>2, <2>4 DEF NoneForgotten, Waits
  <2> QED BY <2>6, <2>7, <2>8, <2>9
<1>10. ClosedEmpty'
  BY <1>3, <1>4 DEF IdsInv, ClosedEmpty, serverVars
<1> QED BY <1>6, <1>7, <1>8, <1>9, <1>10 DEF IdsInv

LEMMA RequestKeeps ==
  ASSUME IdsInv, NEW id \in Ids, ClientRequest(id)
  PROVE  IdsInv'
<1>1. /\ Typed /\ ~clientClosed /\ ClientInv /\ AllFit(toClient)
      /\ proxies[id] # None /\ kind[proxies[id]] \in {"object", "offer"}
  BY DEF IdsInv, ClosedEmpty, ClientInv, ClientRequest
<1>2. /\ UNCHANGED <<kind, clientVars, serverVars, toClient>>
      /\ toServer' = Append(toServer, [op |-> "request", id |-> id, obj |-> proxies[id]])
  BY DEF ClientRequest
<1>3. /\ Queue(toServer', Request, 1, Len(kind')) /\ ServerInv'
      /\ \A x, obj : CreateComes(x, obj)' <=> CreateComes(x, obj)
      /\ \E m : /\ Range(toServer') = Range(toServer) \cup {m}
                /\ m.op = "request" /\ m.id = id /\ m.obj = proxies[id]
  BY <1>1, <1>2, ProxyRequest
<1>4. PICK m : Range(toServer') = Range(toServer) \cup {m} /\ m.op = "request" /\ m.id = id
  BY <1>3
<1>5. Typed'
  <2>1. Queue(toClient', Event, 0, Len(kind'))
    BY <1>1, <1>2, QueuesTyped
  <2> QED BY <1>1, <1>2, <1>3, <2>1, TypesKept, TypedNext
<1>6. ClientInv'
  <2>1. \A k \in DOMAIN toClient : IsMessage(toClient[k])
    BY <1>1, MessagesKnown
  <2> QED BY <1>1, <1>2, <2>1, ClientGets DEF clientVars, SameClient
<1>7. LinkInv'
  <2> SUFFICES ASSUME ~serverClosed
               PROVE  (AliveInUse /\ ProxiesAlive /\ OffersUnknown /\ NoneForgotten)'
    BY <1>2 DEF LinkInv, serverVars
  <2>1. AliveInUse /\ ProxiesAlive /\ OffersUnknown /\ NoneForgotten
    BY <1>1 DEF IdsInv, LinkInv
  <2>2. \A x, obj : Alive(x, obj)' <=> Alive(x, obj)
    BY <1>2, <1>3 DEF Alive, serverVars
  <2>3. \A x : Taken(x)' <=> Taken(x)
    BY <1>2 DEF Taken, Waits, clientVars
  <2>4. Objects' = Objects
    BY <1>2 DEF Objects
  <2>5. AliveInUse'
    BY <1>2, <2>1, <2>2, <2>3, <2>4 DEF AliveInUse, clientVars
  <2>6. ProxiesAlive'
    BY <1>2, <1>4, <2>1, <2>2 DEF ProxiesAlive, clientVars
  <2>7. \A e \in Range(toClient) : e.op = "offer" => e.id # id
    BY <1>1, PostedFacts
  <2>8. OffersUnknown'
    BY <1>2, <1>4, <2>1, <2>7 DEF OffersUnknown, serverVars
  <2>9. NoneForgotten'
    BY <1>2, <2>1, <2>2, <2>4 DEF NoneForgotten, Waits, clientVars
  <2> QED BY <2>5, <2>6, <2>8, <2>9
<1>8. ClosedEmpty'
  BY <1>1, <1>2 DEF IdsInv, ClosedEmpty, serverVars, clientVars
<1> QED BY <1>3, <1>5, <1>6, <1>7, <1>8 DEF IdsInv

(* A constructor that throws: the id is gone.                              *)
LEMMA CreateLostKeeps ==
  ASSUME IdsInv, ~clientClosed, NEW id \in ClientIds, GenerateNextId(id),
         lost' = lost \cup {id},
         UNCHANGED <<kind, proxies, fired, clientClosed, serverVars, toServer, toClient>>
  PROVE  IdsInv'
<1>1. Typed /\ ClientIdsInv /\ AllFit(toClient)
  BY DEF IdsInv, ClientInv
<1>2. /\ ~Taken(id) /\ Taken(id)'
      /\ \A x : Taken(x) => Taken(x)'
      /\ recycledIds' \in Seq(ClientIds) /\ lastId' \in 1 .. MaxClientId
      /\ \A x \in 2 .. lastId' : x # id => x \in 2 .. lastId /\ (Waits(x) => Waits(x)')
  BY <1>1, IdHandedOut
<1>3. Typed'
  <2>1. ClientTyped'
    BY <1>1, <1>2, TypedParts DEF ClientTyped
  <2>2. Queue(toServer', Request, 1, Len(kind')) /\ Queue(toClient', Event, 0, Len(kind'))
    BY <1>1, QueuesTyped
  <2> QED BY <1>1, <2>1, <2>2, TypesKept, TypedNext
<1>4. ServerInv'
  BY <1>1, ServerKeeps DEF IdsInv, SameServer
<1>5. ClientInv'
  <2>1. \A n, before : IsMessage(n) /\ Fits(n, before) => Fits(n, before)'
    BY <1>1, CreateFits
  <2>2. AllFit(toClient)'
    BY <1>1, <2>1, AllStill
  <2>3. ClientIdsInv'
    BY <1>1, LostIds
  <2> QED BY <2>2, <2>3 DEF ClientInv
<1>6. LinkInv'
  <2> SUFFICES ASSUME ~serverClosed
               PROVE  (AliveInUse /\ ProxiesAlive /\ OffersUnknown /\ NoneForgotten)'
    BY DEF LinkInv, serverVars
  <2>1. AliveInUse /\ ProxiesAlive /\ OffersUnknown /\ NoneForgotten
    BY DEF IdsInv, LinkInv
  <2>2. \A x, obj : Alive(x, obj)' <=> Alive(x, obj)
    BY DEF Alive, CreateComes, serverVars
  <2>3. Objects' = Objects
    BY DEF Objects
  <2>4. AliveInUse'
    BY <1>2, <2>1, <2>2, <2>3 DEF AliveInUse
  <2>5. ProxiesAlive'
    BY <2>1, <2>2 DEF ProxiesAlive
  <2>6. OffersUnknown'
    BY <2>1 DEF OffersUnknown, serverVars
  <2>7. NoneForgotten'
    BY <1>2, <2>1, <2>2, <2>3 DEF NoneForgotten
  <2> QED BY <2>4, <2>5, <2>6, <2>7
<1>7. ClosedEmpty'
  BY DEF IdsInv, ClosedEmpty, serverVars
<1> QED BY <1>3, <1>4, <1>5, <1>6, <1>7 DEF IdsInv

(* A constructor request: its id is new to the server.                     *)
LEMMA CreateSentKeeps ==
  ASSUME IdsInv, ~clientClosed, NEW k \in Kinds, k # "offer", Len(kind) < MaxObjects,
         NEW id \in ClientIds, GenerateNextId(id), proxies[id] = None,
         kind' = Append(kind, k),
         proxies' = [proxies EXCEPT ![id] = Len(kind')],
         toServer' = Append(toServer, [op |-> "create", id |-> id, obj |-> Len(kind')]),
         UNCHANGED <<lost, fired, clientClosed, serverVars, toClient>>
  PROVE  IdsInv'
<1>1. Typed /\ ClientIdsInv /\ AllFit(toClient) /\ ServerInv
  BY DEF IdsInv, ClientInv
<1>2. /\ ~Taken(id) /\ Taken(id)' /\ id \notin lost
      /\ \A x : Taken(x) => Taken(x)'
      /\ recycledIds' \in Seq(ClientIds) /\ lastId' \in 1 .. MaxClientId
      /\ \A x \in 2 .. lastId' : x # id => x \in 2 .. lastId /\ (Waits(x) => Waits(x)')
  BY <1>1, IdHandedOut
<1>3. PICK new : new = Len(kind')
  OBVIOUS
<1>4. /\ KindTyped' /\ new = Len(kind) + 1 /\ Len(kind) \in Nat /\ new \in Nat
      /\ new \in Objects' /\ new \notin Objects /\ new # None
      /\ new \in 1 .. MaxObjects /\ kind'[new] = k
      /\ \A obj \in Objects : obj \in Objects' /\ kind'[obj] = kind[obj]
      /\ \A obj \in Objects' : obj = new \/ obj \in Objects
      /\ ServerTyped'
  BY <1>1, <1>3, KindGrows
<1>5. PICK m : m = [op |-> "create", id |-> id, obj |-> new]
  OBVIOUS
<1>6. /\ m \in Request /\ m.op = "create" /\ m.id = id /\ m.obj = new
      /\ Range(Append(toServer, m)) = Range(toServer) \cup {m}
  BY <1>1, <1>4, <1>5, RequestMessage, IdFacts
<1>7. toServer' = Append(toServer, m) /\ Range(toServer') = Range(toServer) \cup {m}
  BY <1>3, <1>5, <1>6
<1>8. \A x \in Ids : proxies'[x] = IF x = id THEN new ELSE proxies[x]
  BY <1>1, <1>3 DEF Typed, TypeOK
<1>9. Typed'
  <2>1. ClientTyped'
    <3>1. proxies' \in [Ids -> 0 .. new]
      <4>1. proxies \in [Ids -> 0 .. new] /\ new \in 0 .. new
        BY <1>1, <1>4, TypedParts DEF ClientTyped
      <4> QED BY <1>3, <4>1
    <3>2. fired' \subseteq 1 .. new
      BY <1>1, <1>4, TypedParts DEF ClientTyped
    <3> QED BY <1>1, <1>2, <1>3, <3>1, <3>2, TypedParts DEF ClientTyped
  <2>2. Queue(toServer, Request, 1, Len(kind)) /\ Queue(toClient, Event, 0, Len(kind))
    BY <1>1, QueuesTyped
  <2>3. Queue(Append(toServer, m), Request, 1, new)
    <3>1. m.obj \in 1 .. new /\ 1 \in Nat /\ Len(kind) <= new
      BY <1>4, <1>6
    <3> QED BY <1>4, <1>6, <2>2, <3>1, QueueChanges
  <2>4. Queue(toClient, Event, 0, new)
    <3>1. 0 \in Nat /\ Len(kind) <= new
      BY <1>4
    <3> QED BY <1>4, <2>2, <3>1, QueueChanges
  <2> QED BY <1>3, <1>4, <1>7, <2>1, <2>3, <2>4, TypedNext
<1>10. ~serverClosed => /\ resources[id] = None
                        /\ \A r \in Range(toServer) : r.id # id
                        /\ \A obj \in Objects : ~Alive(id, obj)
  <2> SUFFICES ASSUME ~serverClosed
               PROVE  /\ resources[id] = None
                      /\ \A r \in Range(toServer) : r.id # id
                      /\ \A obj \in Objects : ~Alive(id, obj)
    OBVIOUS
  <2>1. CreatesFresh /\ RequestsMeet /\ AliveInUse
    BY DEF IdsInv, ServerInv, LinkInv
  <2> QED BY <1>1, <1>2, <2>1, FreeUnused
<1>11. ServerInv'
  <2>1. SameServer
    BY <1>4 DEF SameServer
  <2>2. ~serverClosed =>
            /\ m.op = "create" => /\ m.id \in ClientIds /\ resources[m.id] = None
                                  /\ kind'[m.obj] # "offer"
                                  /\ \A r \in Range(toServer) : r.id # m.id
            /\ m.op # "create" => /\ kind'[m.obj] \in {"object", "offer"}
                                  /\ resources[m.id] = m.obj \/ CreateComes(m.id, m.obj)
                                  /\ \A r \in Range(toServer) : r.op = "destroy" => r.id # m.id
    BY <1>4, <1>6, <1>10
  <2> QED BY <1>1, <1>6, <1>7, <2>1, <2>2, ServerGets
<1>12. ClientInv'
  <2>1. \A x \in Ids : x # id => proxies'[x] = proxies[x]
    BY <1>8
  <2>2. \A n, before : IsMessage(n) /\ Fits(n, before) => Fits(n, before)'
    BY <1>1, <1>4, <2>1, CreateFits
  <2>3. AllFit(toClient)'
    BY <1>1, <2>2, AllStill
  <2>4. ClientIdsInv'
    BY <1>1, CreateIds
  <2> QED BY <2>3, <2>4 DEF ClientInv
<1>13. LinkInv'
  <2> SUFFICES ASSUME ~serverClosed
               PROVE  (AliveInUse /\ ProxiesAlive /\ OffersUnknown /\ NoneForgotten)'
    BY DEF LinkInv, serverVars
  <2>1. AliveInUse /\ ProxiesAlive /\ OffersUnknown /\ NoneForgotten /\ CreatesFresh /\ RequestsMeet
    BY DEF IdsInv, LinkInv, ServerInv
  <2>2. \A x, obj : Alive(x, obj)' <=> Alive(x, obj) \/ (x = id /\ obj = new)
    BY <1>6, <1>7 DEF Alive, CreateComes, serverVars
  <2>3. \A x \in ClientIds : ~Alive(x, new)
    <3>1. \A x \in ClientIds : resources[x] # new
      BY <1>1, <1>4, TypeFacts, IdFacts
    <3> QED BY <1>1, <1>4, <2>1, <3>1, SentFacts DEF Alive
  <2>4. ASSUME NEW x \in ClientIds, NEW obj \in Objects', Alive(x, obj)'
        PROVE  /\ Taken(x)' /\ x \notin lost
               /\ proxies'[x] \in {None, obj}
               /\ kind'[obj] # "object" => proxies'[x] = obj /\ obj \notin fired
               /\ \A e \in Range(toClient) : e.op \in {"done", "delete_id"} => e.id # x
    <3>1. CASE x = id /\ obj = new
      <4>1. obj \notin fired
        BY <1>1, <1>4, <3>1 DEF Typed, TypeOK, Objects
      <4>2. \A e \in Range(toClient) : e.op \in {"done", "delete_id"} => e.id # x
        BY <1>1, <1>2, <3>1, PostedFacts
      <4> QED BY <1>2, <1>8, <3>1, <4>1, <4>2, IdFacts
    <3>2. CASE ~(x = id /\ obj = new)
      <4>1. Alive(x, obj)
        BY <2>2, <2>4, <3>2
      <4>2. obj \in Objects /\ x # id
        BY <1>4, <1>10, <2>3, <4>1
      <4>3. /\ Taken(x) /\ x \notin lost
            /\ proxies[x] \in {None, obj}
            /\ kind[obj] # "object" => proxies[x] = obj /\ obj \notin fired
            /\ \A e \in Range(toClient) : e.op \in {"done", "delete_id"} => e.id # x
        BY <2>1, <4>1, <4>2 DEF AliveInUse
      <4> QED BY <1>2, <1>4, <1>8, <4>2, <4>3, IdFacts
    <3> QED BY <3>1, <3>2
  <2>5. AliveInUse'
    BY <2>4 DEF AliveInUse
  <2>6. ProxiesAlive'
    <3> SUFFICES ASSUME NEW x \in Ids, proxies'[x] # None, kind'[proxies'[x]] \in {"object", "offer"}
                 PROVE  /\ (Alive(x, proxies[x]))'
                        /\ \A r \in Range(toServer') : r.op = "destroy" => r.id # x
      BY DEF ProxiesAlive
    <3>1. CASE x = id
      BY <1>6, <1>7, <1>8, <1>10, <2>2, <3>1
    <3>2. CASE x # id
      <4>1. proxies'[x] = proxies[x] /\ proxies[x] # None /\ kind[proxies[x]] \in {"object", "offer"}
        BY <1>1, <1>4, <1>8, <3>2, TypeFacts
      <4>2. Alive(x, proxies[x]) /\ \A r \in Range(toServer) : r.op = "destroy" => r.id # x
        BY <2>1, <4>1 DEF ProxiesAlive
      <4>3. \A o : Alive(x, o) => Alive(x, o)'
        BY <2>2
      <4>4. (Alive(x, proxies[x]))'
        BY <4>1, <4>2, <4>3
      <4> QED BY <1>6, <1>7, <4>2, <4>4
    <3> QED BY <3>1, <3>2
  <2>7. OffersUnknown'
    <3>1. \A e \in Range(toClient) : e.op = "offer" => e.id # id
      BY <1>1, PostedFacts, IdFacts
    <3> QED BY <1>6, <1>7, <2>1, <3>1 DEF OffersUnknown, serverVars
  <2>8. NoneForgotten'
    <3> SUFFICES ASSUME NEW x \in 2 .. lastId'
                 PROVE  \/ \E obj \in Objects' : Alive(x, obj)'
                        \/ x \in lost
                        \/ \E e \in Range(toClient) : e.op = "delete_id" /\ e.id = x
                        \/ Waits(x)'
      BY DEF NoneForgotten
    <3>1. CASE x = id
      BY <1>4, <2>2, <3>1
    <3>2. CASE x # id
      BY <1>2, <1>4, <2>1, <2>2, <3>2 DEF NoneForgotten
    <3> QED BY <3>1, <3>2
  <2> QED BY <2>5, <2>6, <2>7, <2>8
<1>14. ClosedEmpty'
  BY DEF IdsInv, ClosedEmpty, serverVars
<1> QED BY <1>9, <1>11, <1>12, <1>13, <1>14 DEF IdsInv

LEMMA CreateKeeps ==
  ASSUME IdsInv, NEW k \in Kinds, ClientCreate(k)
  PROVE  IdsInv'
<1>1. /\ ~clientClosed /\ k # "offer" /\ Len(kind) < MaxObjects
      /\ UNCHANGED <<fired, clientClosed, serverVars, toClient>>
  BY DEF ClientCreate
<1>2. PICK id \in ClientIds :
        /\ GenerateNextId(id)
        /\ \/ /\ proxies[id] = None
              /\ kind' = Append(kind, k)
              /\ proxies' = [proxies EXCEPT ![id] = Len(kind')]
              /\ toServer' = Append(toServer, [op |-> "create", id |-> id, obj |-> Len(kind')])
              /\ UNCHANGED lost
           \/ /\ proxies[id] # None
              /\ lost' = lost \cup {id}
              /\ UNCHANGED <<kind, proxies, toServer>>
  BY DEF ClientCreate
<1>3. CASE proxies[id] = None
  BY <1>1, <1>2, <1>3, CreateSentKeeps
<1>4. CASE proxies[id] # None
  BY <1>1, <1>2, <1>4, CreateLostKeeps
<1> QED BY <1>3, <1>4

-----------------------------------------------------------------------------
(* The client closes, or handles a message.                                *)
LEMMA CloseClientKeeps ==
  ASSUME IdsInv, CloseClient, UNCHANGED <<kind, recycledIds, lastId, fired, lost, serverVars>>,
         toClient' = toClient \/ (toClient # <<>> /\ toClient' = Tail(toClient))
  PROVE  IdsInv'
<1>1. Typed /\ Len(kind) \in Nat /\ Len(kind) <= Len(kind) /\ 0 \in Nat /\ 1 \in Nat
  BY TypeFacts DEF IdsInv
<1>2. PICK n \in 0 .. Len(toServer) : toServer' = SubSeq(toServer, 1, n)
  BY DEF CloseClient
<1>3. clientClosed' = TRUE /\ proxies' = [i \in Ids |-> None]
  BY DEF CloseClient
<1>4. Typed'
  <2>1. Queue(toServer, Request, 1, Len(kind)) /\ Queue(toClient, Event, 0, Len(kind))
    BY <1>1, QueuesTyped
  <2>2. Queue(toServer', Request, 1, Len(kind'))
    BY <1>1, <1>2, <2>1, QueueChanges
  <2>3. Queue(toClient', Event, 0, Len(kind'))
    BY <1>1, <2>1, QueueChanges
  <2>4. ClientTyped'
    BY <1>1, <1>3, TypedParts DEF ClientTyped, None
  <2> QED BY <1>1, <2>2, <2>3, <2>4, TypesKept, TypedNext
<1>5. ServerInv'
  BY <1>1, <1>2, ServerLoses DEF IdsInv, SameServer
<1>6. ClientInv' /\ LinkInv'
  BY <1>3 DEF ClientInv, LinkInv
<1>7. ClosedEmpty'
  BY <1>3 DEF IdsInv, ClosedEmpty, serverVars
<1> QED BY <1>4, <1>5, <1>6, <1>7 DEF IdsInv

LEMMA MessageTaken ==
  ASSUME IdsInv, ~clientClosed, toClient # <<>>, toClient' = Tail(toClient), NEW h, h = Head(toClient),
         UNCHANGED <<kind, serverVars, toServer>>
  PROVE  /\ Range(toClient) = {h} \cup Range(toClient') /\ h \in Range(toClient)
         /\ Queue(toClient', Event, 0, Len(kind')) /\ Queue(toServer', Request, 1, Len(kind'))
         /\ ServerTyped' /\ KindTyped' /\ ServerInv'
         /\ IsMessage(h) /\ Fits(h, {})
         /\ \A x, obj : Alive(x, obj)' <=> Alive(x, obj)
<1>1. Typed /\ ServerInv /\ AllFit(toClient) /\ Len(kind) \in Nat /\ Len(kind) <= Len(kind) /\ 0 \in Nat
  BY TypeFacts DEF IdsInv, ClientInv
<1>2. toClient \in Seq(Event) /\ Queue(toClient, Event, 0, Len(kind)) /\ Queue(toServer, Request, 1, Len(kind))
  BY <1>1, QueuesTyped, ToClientFacts
<1>3. Range(toClient) = {h} \cup Range(toClient')
  BY <1>2, RangeChanges
<1>4. Queue(toClient', Event, 0, Len(kind'))
  BY <1>1, <1>2, QueueChanges
<1>5. h = toClient[1] /\ 1 \in DOMAIN toClient
  BY <1>2, TailOf
<1>6. IsMessage(h)
  BY <1>1, <1>5, MessagesKnown
<1>7. Fits(h, {})
  BY <1>1, <1>2, FitTail
<1>8. ServerInv'
  BY <1>1, ServerKeeps DEF SameServer
<1>9. ServerTyped' /\ KindTyped'
  BY <1>1, TypesKept
<1>10. \A x, obj : Alive(x, obj)' <=> Alive(x, obj)
  BY DEF Alive, CreateComes, serverVars
<1> QED BY <1>2, <1>3, <1>4, <1>6, <1>7, <1>8, <1>9, <1>10

LEMMA ReceivesEventKeeps ==
  ASSUME IdsInv, ClientReceivesEvent
  PROVE  IdsInv'
<1>1. /\ ~clientClosed /\ toClient # <<>> /\ toClient' = Tail(toClient) /\ Head(toClient).op = "event"
      /\ Typed /\ ClientIdsInv /\ AllFit(toClient)
  BY DEF ClientReceivesEvent, ClientReceives, IdsInv, ClientInv
<1>2. CASE ClientFails
  BY <1>1, <1>2, CloseClientKeeps DEF ClientFails
<1>3. CASE UNCHANGED <<kind, clientVars, serverVars, toServer>>
  <2>1. PICK h : h = Head(toClient)
    OBVIOUS
  <2>2. /\ Range(toClient) = {h} \cup Range(toClient')
        /\ Queue(toClient', Event, 0, Len(kind')) /\ Queue(toServer', Request, 1, Len(kind'))
        /\ ServerTyped' /\ KindTyped' /\ ServerInv'
        /\ \A x, obj : Alive(x, obj)' <=> Alive(x, obj)
    BY <1>1, <1>3, <2>1, MessageTaken
  <2>3. Typed'
    BY <1>1, <1>3, <2>2, TypesKept, TypedNext
  <2>4. UNCHANGED <<proxies, recycledIds, lastId, fired, lost, clientClosed>>
    BY <1>3 DEF clientVars
  <2>5. ClientInv'
    <3>1. \A m, before : IsMessage(m) /\ Fits(m, before \cup {h}) => Fits(m, before)'
      BY <1>1, <1>3, <2>1, <2>4, EventTaken
    <3>2. AllFit(toClient)'
      BY <1>1, <2>1, <3>1, AllTaken
    <3>3. ClientIdsInv'
      BY <1>1, <1>3, <2>4, SameClientIds DEF SameClient
    <3> QED BY <3>2, <3>3 DEF ClientInv
  <2>6. LinkInv'
    <3> SUFFICES ASSUME ~serverClosed
                 PROVE  (AliveInUse /\ ProxiesAlive /\ OffersUnknown /\ NoneForgotten)'
      BY <1>3 DEF LinkInv, serverVars
    <3>1. AliveInUse /\ ProxiesAlive /\ OffersUnknown /\ NoneForgotten
      BY <1>1 DEF IdsInv, LinkInv
    <3>2. \A x : Taken(x)' <=> Taken(x)
      BY <2>4 DEF Taken, Waits
    <3>3. Objects' = Objects
      BY <1>3 DEF Objects
    <3>4. AliveInUse'
      BY <1>3, <2>2, <2>4, <3>1, <3>2, <3>3 DEF AliveInUse
    <3>5. ProxiesAlive'
      BY <1>3, <2>2, <2>4, <3>1 DEF ProxiesAlive
    <3>6. OffersUnknown'
      BY <1>3, <2>2, <3>1 DEF OffersUnknown, serverVars
    <3>7. NoneForgotten'
      BY <1>1, <2>1, <2>2, <2>4, <3>1, <3>3 DEF NoneForgotten, Waits
    <3> QED BY <3>4, <3>5, <3>6, <3>7
  <2>7. ClosedEmpty'
    BY <1>3, <2>4 DEF IdsInv, ClosedEmpty, serverVars
  <2> QED BY <2>2, <2>3, <2>5, <2>6, <2>7 DEF IdsInv
<1> QED BY <1>2, <1>3 DEF ClientReceivesEvent

LEMMA ReceivesDoneKeeps ==
  ASSUME IdsInv, ClientReceivesDone
  PROVE  IdsInv'
<1>1. /\ ~clientClosed /\ toClient # <<>> /\ toClient' = Tail(toClient) /\ Head(toClient).op = "done"
      /\ Typed /\ ClientIdsInv /\ AllFit(toClient)
  BY DEF ClientReceivesDone, ClientReceives, IdsInv, ClientInv
<1>2. CASE ClientFails
  BY <1>1, <1>2, CloseClientKeeps DEF ClientFails
<1>3. CASE /\ proxies[Head(toClient).id] # None
           /\ \/ /\ proxies' = [proxies EXCEPT ![Head(toClient).id] = None]
                 /\ UNCHANGED fired
              \/ /\ kind[proxies[Head(toClient).id]] # "sync"
                 /\ fired' = fired \cup {proxies[Head(toClient).id]}
                 /\ UNCHANGED proxies
           /\ UNCHANGED <<kind, recycledIds, lastId, lost, clientClosed, serverVars, toServer>>
  <2>1. PICK h : h = Head(toClient)
    OBVIOUS
  <2>2. /\ Range(toClient) = {h} \cup Range(toClient') /\ h \in Range(toClient)
        /\ Queue(toClient', Event, 0, Len(kind')) /\ Queue(toServer', Request, 1, Len(kind'))
        /\ ServerTyped' /\ KindTyped' /\ ServerInv'
        /\ IsMessage(h) /\ Fits(h, {})
        /\ \A x, obj : Alive(x, obj)' <=> Alive(x, obj)
    BY <1>1, <1>3, <2>1, MessageTaken
  <2>3. h.op = "done" /\ DoneFits(h, {}) /\ h.id \in ClientIds /\ h.id \in Ids
    BY <1>1, <2>1, <2>2, IdFacts DEF Fits, DoneFits, Taken
  <2>4. proxies[h.id] = h.obj /\ h.obj # None /\ h.obj \in Objects
    BY <2>2, <2>3 DEF DoneFits, IsMessage
  <2>5. \/ proxies' = [proxies EXCEPT ![h.id] = None] /\ fired' = fired
        \/ proxies' = proxies /\ fired' = fired \cup {proxies[h.id]}
    BY <1>3, <2>1
  <2>6. /\ \A x \in Ids : x # h.id => proxies'[x] = proxies[x]
        /\ proxies'[h.id] \in {None, h.obj} /\ fired' \subseteq fired \cup {h.obj}
    BY <1>1, <2>3, <2>4, <2>5 DEF Typed, TypeOK
  <2>7. Typed'
    <3>1. proxies \in [Ids -> 0 .. Len(kind)] /\ fired \subseteq 1 .. Len(kind) /\ None \in 0 .. Len(kind)
      BY <1>1, TypeFacts DEF Typed, TypeOK, None
    <3>2. proxies' \in [Ids -> 0 .. Len(kind)]
      BY <2>5, <3>1
    <3>3. fired' \subseteq 1 .. Len(kind)
      BY <2>4, <2>6, <3>1 DEF Objects
    <3>4. ClientTyped'
      BY <1>1, <1>3, <3>2, <3>3, TypedParts DEF ClientTyped
    <3> QED BY <2>2, <3>4, TypedNext
  <2>8. ClientInv'
    <3>1. \A m, before : IsMessage(m) /\ Fits(m, before \cup {h}) => Fits(m, before)'
      BY <1>1, <1>3, <2>3, <2>5, DoneTaken
    <3>2. AllFit(toClient)'
      BY <1>1, <2>1, <3>1, AllTaken
    <3>3. CASE proxies' = [proxies EXCEPT ![h.id] = None] /\ fired' = fired
      <4>1. ClientIdsInv'
        BY <1>1, <1>3, <2>3, <2>4, <3>3, DestroyIds
      <4> QED BY <3>2, <4>1 DEF ClientInv
    <3>4. CASE proxies' = proxies /\ fired' = fired \cup {proxies[h.id]}
      <4>1. ClientIdsInv'
        BY <1>1, <1>3, <3>4, FiredIds
      <4> QED BY <3>2, <4>1 DEF ClientInv
    <3> QED BY <2>5, <3>3, <3>4
  <2>9. LinkInv'
    <3> SUFFICES ASSUME ~serverClosed
                 PROVE  (AliveInUse /\ ProxiesAlive /\ OffersUnknown /\ NoneForgotten)'
      BY <1>3 DEF LinkInv, serverVars
    <3>1. AliveInUse /\ ProxiesAlive /\ OffersUnknown /\ NoneForgotten
      BY <1>1 DEF IdsInv, LinkInv
    <3>2. \A x : Taken(x)' <=> Taken(x)
      BY <1>3 DEF Taken, Waits
    <3>3. Objects' = Objects
      BY <1>3 DEF Objects
    <3>4. ASSUME NEW x \in ClientIds, NEW obj \in Objects, Alive(x, obj)
          PROVE  /\ Taken(x) /\ x \notin lost
                 /\ proxies'[x] \in {None, obj}
                 /\ kind[obj] # "object" => proxies'[x] = obj /\ obj \notin fired'
                 /\ \A e \in Range(toClient') : e.op \in {"done", "delete_id"} => e.id # x
      <4>1. /\ Taken(x) /\ x \notin lost
            /\ proxies[x] \in {None, obj}
            /\ kind[obj] # "object" => proxies[x] = obj /\ obj \notin fired
            /\ \A e \in Range(toClient) : e.op \in {"done", "delete_id"} => e.id # x
        BY <3>1, <3>4 DEF AliveInUse
      <4>2. x # h.id
        BY <2>2, <2>3, <4>1
      <4>3. proxies'[x] = proxies[x]
        BY <2>6, <4>2, IdFacts
      <4>4. proxies[x] = obj => obj # h.obj
        BY <1>1, <2>3, <2>4, <4>2 DEF ClientIdsInv
      <4> QED BY <2>2, <2>6, <4>1, <4>3, <4>4
    <3>5. AliveInUse'
      BY <1>3, <2>2, <3>2, <3>3, <3>4 DEF AliveInUse
    <3>6. \A x \in Ids : proxies'[x] # None => proxies'[x] = proxies[x]
      BY <2>4, <2>6
    <3>7. ProxiesAlive'
      BY <1>3, <2>2, <3>1, <3>6 DEF ProxiesAlive
    <3>8. OffersUnknown'
      BY <1>3, <2>2, <3>1 DEF OffersUnknown, serverVars
    <3>9. NoneForgotten'
      BY <1>3, <2>2, <2>3, <3>1, <3>3 DEF NoneForgotten, Waits
    <3> QED BY <3>5, <3>7, <3>8, <3>9
  <2>10. ClosedEmpty'
    BY <1>1, <1>3 DEF IdsInv, ClosedEmpty, serverVars
  <2> QED BY <2>2, <2>7, <2>8, <2>9, <2>10 DEF IdsInv
<1> QED BY <1>2, <1>3 DEF ClientReceivesDone

LEMMA ReceivesOfferKeeps ==
  ASSUME IdsInv, ClientReceivesOffer
  PROVE  IdsInv'
<1>1. /\ ~clientClosed /\ toClient # <<>> /\ toClient' = Tail(toClient) /\ Head(toClient).op = "offer"
      /\ Typed /\ ClientIdsInv /\ AllFit(toClient)
  BY DEF ClientReceivesOffer, ClientReceives, IdsInv, ClientInv
<1>2. CASE ClientFails
  BY <1>1, <1>2, CloseClientKeeps DEF ClientFails
<1>3. CASE /\ proxies' = [proxies EXCEPT ![Head(toClient).id] = Head(toClient).obj]
           /\ UNCHANGED <<kind, recycledIds, lastId, fired, lost, clientClosed, serverVars, toServer>>
  <2>1. PICK h : h = Head(toClient)
    OBVIOUS
  <2>2. /\ Range(toClient) = {h} \cup Range(toClient') /\ h \in Range(toClient)
        /\ Queue(toClient', Event, 0, Len(kind')) /\ Queue(toServer', Request, 1, Len(kind'))
        /\ ServerTyped' /\ KindTyped' /\ ServerInv'
        /\ IsMessage(h) /\ Fits(h, {})
        /\ \A x, obj : Alive(x, obj)' <=> Alive(x, obj)
    BY <1>1, <1>3, <2>1, MessageTaken
  <2>3. h.op = "offer" /\ OfferFits(h, {}) /\ h.id \in ServerIds /\ h.id \in Ids
    BY <1>1, <2>1, <2>2, IdFacts DEF Fits, OfferFits
  <2>4. h.obj # None /\ h.obj \in Objects /\ kind[h.obj] = "offer"
    BY <2>2, <2>3 DEF OfferFits, IsMessage
  <2>5. proxies' = [proxies EXCEPT ![h.id] = h.obj]
    BY <1>3, <2>1
  <2>6. \A x \in Ids : proxies'[x] = IF x = h.id THEN h.obj ELSE proxies[x]
    BY <1>1, <2>5 DEF Typed, TypeOK
  <2>7. Typed'
    <3>1. proxies \in [Ids -> 0 .. Len(kind)] /\ h.obj \in 0 .. Len(kind)
      BY <1>1, <2>4, TypeFacts DEF Typed, TypeOK, Objects
    <3>2. proxies' \in [Ids -> 0 .. Len(kind)]
      BY <2>5, <3>1
    <3>3. ClientTyped'
      BY <1>1, <1>3, <3>2, TypedParts DEF ClientTyped
    <3> QED BY <2>2, <3>3, TypedNext
  <2>8. ClientInv'
    <3>1. \A m, before : IsMessage(m) /\ Fits(m, before \cup {h}) => Fits(m, before)'
      BY <1>1, <1>3, <2>3, <2>5, OfferTaken
    <3>2. AllFit(toClient)'
      BY <1>1, <2>1, <3>1, AllTaken
    <3>3. ClientIdsInv'
      BY <1>1, <1>3, <2>3, <2>4, <2>5, OfferIds
    <3> QED BY <3>2, <3>3 DEF ClientInv
  <2>9. LinkInv'
    <3> SUFFICES ASSUME ~serverClosed
                 PROVE  (AliveInUse /\ ProxiesAlive /\ OffersUnknown /\ NoneForgotten)'
      BY <1>3 DEF LinkInv, serverVars
    <3>1. AliveInUse /\ ProxiesAlive /\ OffersUnknown /\ NoneForgotten
      BY <1>1 DEF IdsInv, LinkInv
    <3>2. \A x : Taken(x)' <=> Taken(x)
      BY <1>3 DEF Taken, Waits
    <3>3. Objects' = Objects
      BY <1>3 DEF Objects
    <3>4. \A x \in ClientIds : proxies'[x] = proxies[x]
      BY <2>3, <2>6, IdFacts
    <3>5. AliveInUse'
      BY <1>3, <2>2, <3>1, <3>2, <3>3, <3>4 DEF AliveInUse
    <3>6. ProxiesAlive'
      <4> SUFFICES ASSUME NEW x \in Ids, proxies'[x] # None, kind'[proxies'[x]] \in {"object", "offer"}
                   PROVE  /\ (Alive(x, proxies[x]))'
                          /\ \A r \in Range(toServer') : r.op = "destroy" => r.id # x
        BY DEF ProxiesAlive
      <4>1. CASE x = h.id
        <5>1. resources[x] = h.obj /\ \A r \in Range(toServer) : r.id # x
          BY <2>2, <2>3, <3>1, <4>1 DEF OffersUnknown
        <5> QED BY <1>3, <2>6, <4>1, <5>1 DEF Alive, serverVars
      <4>2. CASE x # h.id
        <5>1. proxies'[x] = proxies[x]
          BY <2>6, <4>2
        <5>2. Alive(x, proxies[x]) /\ \A r \in Range(toServer) : r.op = "destroy" => r.id # x
          BY <1>3, <3>1, <5>1 DEF ProxiesAlive
        <5>3. \A o : Alive(x, o) => Alive(x, o)'
          BY <2>2
        <5>4. (Alive(x, proxies[x]))'
          BY <5>1, <5>2, <5>3
        <5> QED BY <1>3, <5>2, <5>4
      <4> QED BY <4>1, <4>2
    <3>7. OffersUnknown'
      BY <1>3, <2>2, <3>1 DEF OffersUnknown, serverVars
    <3>8. NoneForgotten'
      BY <1>3, <2>2, <2>3, <3>1, <3>3 DEF NoneForgotten, Waits
    <3> QED BY <3>5, <3>6, <3>7, <3>8
  <2>10. ClosedEmpty'
    BY <1>1, <1>3 DEF IdsInv, ClosedEmpty, serverVars
  <2> QED BY <2>2, <2>7, <2>8, <2>9, <2>10 DEF IdsInv
<1> QED BY <1>2, <1>3 DEF ClientReceivesOffer

LEMMA ReceivesDeleteIdKeeps ==
  ASSUME IdsInv, ClientReceivesDeleteId
  PROVE  IdsInv'
<1>1. /\ ~clientClosed /\ toClient # <<>> /\ toClient' = Tail(toClient) /\ Head(toClient).op = "delete_id"
      /\ Typed /\ ClientIdsInv /\ AllFit(toClient)
      /\ UNCHANGED <<kind, proxies, lastId, fired, lost, clientClosed, serverVars, toServer>>
  BY DEF ClientReceivesDeleteId, ClientReceives, IdsInv, ClientInv
<1>2. PICK h : h = Head(toClient)
  OBVIOUS
<1>3. /\ Range(toClient) = {h} \cup Range(toClient') /\ h \in Range(toClient)
      /\ Queue(toClient', Event, 0, Len(kind')) /\ Queue(toServer', Request, 1, Len(kind'))
      /\ ServerTyped' /\ KindTyped' /\ ServerInv' /\ Fits(h, {})
      /\ \A x, obj : Alive(x, obj)' <=> Alive(x, obj)
  BY <1>1, <1>2, MessageTaken
<1>4. h.op = "delete_id" /\ Taken(h.id) /\ h.id \notin lost /\ proxies[h.id] \in {None} \cup fired
  BY <1>1, <1>2, <1>3 DEF Fits, DeleteFits
<1>5. recycledIds' = Append(recycledIds, h.id)
  BY <1>2 DEF ClientReceivesDeleteId
<1>6. /\ ClientIdsInv' /\ recycledIds' \in Seq(ClientIds)
      /\ \A x : Waits(x)' <=> Waits(x) \/ x = h.id
      /\ \A x : Taken(x)' <=> Taken(x) /\ x # h.id
  BY <1>1, <1>4, <1>5, DeleteIds
<1>7. Typed'
  <2>1. ClientTyped'
    BY <1>1, <1>6, TypedParts DEF ClientTyped
  <2> QED BY <1>3, <2>1, TypedNext
<1>8. ClientInv'
  <2>1. \A m, before : IsMessage(m) /\ Fits(m, before \cup {h}) => Fits(m, before)'
    BY <1>1, <1>4, <1>6, DeleteTaken
  <2>2. AllFit(toClient)'
    BY <1>1, <1>2, <2>1, AllTaken
  <2> QED BY <1>6, <2>2 DEF ClientInv
<1>9. LinkInv'
  <2> SUFFICES ASSUME ~serverClosed
               PROVE  (AliveInUse /\ ProxiesAlive /\ OffersUnknown /\ NoneForgotten)'
    BY <1>1 DEF LinkInv, serverVars
  <2>1. AliveInUse /\ ProxiesAlive /\ OffersUnknown /\ NoneForgotten
    BY <1>1 DEF IdsInv, LinkInv
  <2>2. Objects' = Objects
    BY <1>1 DEF Objects
  <2>3. \A x \in ClientIds, obj \in Objects : Alive(x, obj) => x # h.id
    BY <1>3, <1>4, <2>1 DEF AliveInUse
  <2>4. AliveInUse'
    BY <1>1, <1>3, <1>6, <2>1, <2>2, <2>3 DEF AliveInUse
  <2>5. ProxiesAlive'
    BY <1>1, <1>3, <2>1 DEF ProxiesAlive
  <2>6. OffersUnknown'
    BY <1>1, <1>3, <2>1 DEF OffersUnknown, serverVars
  <2>7. NoneForgotten'
    BY <1>1, <1>3, <1>6, <2>1, <2>2 DEF NoneForgotten
  <2> QED BY <2>4, <2>5, <2>6, <2>7
<1>10. ClosedEmpty'
  BY <1>1 DEF IdsInv, ClosedEmpty, serverVars
<1> QED BY <1>3, <1>7, <1>8, <1>9, <1>10 DEF IdsInv

LEMMA ClientStops ==
  ASSUME IdsInv, ClientClose \/ ClientReceivesError
  PROVE  IdsInv'
<1>1. CASE ClientClose
  BY <1>1, CloseClientKeeps DEF ClientClose
<1>2. CASE ClientReceivesError
  BY <1>2, CloseClientKeeps DEF ClientReceivesError, ClientReceives, ClientFails
<1> QED BY <1>1, <1>2

-----------------------------------------------------------------------------
(* The server closes, or handles a request.                                *)
LEMMA EventMessage ==
  ASSUME Typed, NEW op \in {"event", "done", "offer", "delete_id", "error"},
         NEW id \in Ids, NEW obj \in 0 .. MaxObjects,
         NEW m, m = [op |-> op, id |-> id, obj |-> obj]
  PROVE  m \in Event /\ m.op = op /\ m.id = id /\ m.obj = obj
BY DEF Event

LEMMA QueueMessages ==
  ASSUME Typed, NEW q, Queue(q, Event, 0, Len(kind))
  PROVE  \A k \in DOMAIN q : IsMessage(q[k])
<1>1. \A k \in DOMAIN q : q[k] \in Event /\ q[k].obj \in 0 .. Len(kind)
  BY DEF Queue
<1>2. \A e \in Event : e.id \in Ids
  BY DEF Event
<1> QED BY <1>1, <1>2, TypeFacts DEF IsMessage, Objects, None

(* The queue of a closed server: what it has lost fits, if all of it did.  *)
LEMMA CloseServerKeeps ==
  ASSUME IdsInv, serverClosed', resources' = [i \in Ids |-> None],
         UNCHANGED <<kind, clientVars, serverRecycled, nextId>>,
         Queue(toServer', Request, 1, Len(kind)),
         Queue(toClient', Event, 0, Len(kind)), ~clientClosed => AllFit(toClient'),
         serverClosed' \in BOOLEAN
  PROVE  IdsInv'
<1>1. Typed /\ ClientInv
  BY DEF IdsInv
<1>2. Typed'
  <2>1. ServerTyped'
    BY <1>1, TypedParts, TypeFacts DEF ServerTyped, None
  <2> QED BY <1>1, <2>1, TypesKept, TypedNext
<1>3. ServerInv' /\ LinkInv'
  BY DEF ServerInv, LinkInv
<1>4. ClientInv'
  <2>1. PICK q : q = toClient'
    OBVIOUS
  <2>4. \A k \in DOMAIN q : IsMessage(q[k])
    BY <1>1, <2>1, QueueMessages
  <2>5. SameClient /\ UNCHANGED clientClosed
    BY DEF SameClient, clientVars
  <2> QED BY <1>1, <2>1, <2>4, <2>5, ClientGets
<1>5. ClosedEmpty'
  BY DEF IdsInv, ClosedEmpty, clientVars
<1> QED BY <1>2, <1>3, <1>4, <1>5 DEF IdsInv

LEMMA ServerStops ==
  ASSUME IdsInv, CloseServer(toClient), UNCHANGED <<kind, clientVars>>,
         toServer' = toServer \/ (toServer # <<>> /\ toServer' = Tail(toServer))
  PROVE  IdsInv'
<1>1. Typed /\ Len(kind) \in Nat /\ Len(kind) <= Len(kind) /\ 0 \in Nat /\ 1 \in Nat
  BY TypeFacts DEF IdsInv
<1>2. PICK n \in 0 .. Len(toClient) : toClient' = SubSeq(toClient, 1, n)
  BY DEF CloseServer
<1>3. /\ Queue(toServer, Request, 1, Len(kind)) /\ Queue(toClient, Event, 0, Len(kind))
      /\ toClient \in Seq(Event)
  BY <1>1, QueuesTyped, ToClientFacts
<1>4. Queue(toServer', Request, 1, Len(kind))
  BY <1>1, <1>3, QueueChanges
<1>5. Queue(toClient', Event, 0, Len(kind))
  BY <1>1, <1>2, <1>3, QueueChanges
<1>6. ~clientClosed => AllFit(toClient')
  BY <1>2, <1>3, FitPrefix DEF IdsInv, ClientInv
<1>7. serverClosed' /\ serverClosed' \in BOOLEAN
  BY DEF CloseServer
<1> QED BY <1>4, <1>5, <1>6, <1>7, CloseServerKeeps DEF CloseServer

LEMMA RequestTaken ==
  ASSUME IdsInv, ~serverClosed, toServer # <<>>, toServer' = Tail(toServer), NEW m, m = Head(toServer),
         UNCHANGED kind
  PROVE  /\ Range(toServer) = {m} \cup Range(toServer') /\ m \in Range(toServer)
         /\ Queue(toServer', Request, 1, Len(kind'))
         /\ m.id \in Ids /\ m.obj \in Objects /\ m.op \in {"create", "destroy", "request"}
         /\ m.op = "create" => /\ m.id \in ClientIds /\ resources[m.id] = None /\ kind[m.obj] # "offer"
                               /\ \A r \in Range(toServer') : r.op = "create" => r.id # m.id
         /\ m.op # "create" => resources[m.id] = m.obj /\ kind[m.obj] \in {"object", "offer"}
<1>1. Typed /\ CreatesFresh /\ RequestsMeet /\ Len(kind) \in Nat /\ Len(kind) <= Len(kind) /\ 1 \in Nat
  BY TypeFacts DEF IdsInv, ServerInv
<1>2. toServer \in Seq(Request) /\ Queue(toServer, Request, 1, Len(kind))
  BY <1>1, ToServerFacts, QueuesTyped
<1>3. Range(toServer) = {m} \cup Range(toServer')
  BY <1>2, RangeChanges
<1>4. Queue(toServer', Request, 1, Len(kind'))
  BY <1>1, <1>2, QueueChanges
<1>5. /\ 1 \in DOMAIN toServer /\ m = toServer[1]
      /\ \A k \in DOMAIN toServer' : k \in Nat /\ k + 1 \in DOMAIN toServer /\ toServer'[k] = toServer[k + 1]
  BY <1>2, TailOf
<1>6. m.id \in Ids /\ m.obj \in Objects /\ m.op \in {"create", "destroy", "request"}
  BY <1>1, <1>5, ToServerFacts
<1>7. \A j \in DOMAIN toServer : ~(j < 1)
  BY <1>2
<1>8. m.op # "create" => resources[m.id] = m.obj /\ kind[m.obj] \in {"object", "offer"}
  BY <1>1, <1>5, <1>7 DEF RequestsMeet
<1>9. m.op = "create" => m.id \in ClientIds /\ resources[m.id] = None /\ kind[m.obj] # "offer"
  BY <1>1, <1>5 DEF CreatesFresh
<1>10. \A r \in Range(toServer') : r.op = "create" => r.id # m.id
  <2> SUFFICES ASSUME NEW r \in Range(toServer'), r.op = "create"
               PROVE  r.id # m.id
    OBVIOUS
  <2>1. PICK k \in DOMAIN toServer' : toServer'[k] = r
    BY DEF Range
  <2>2. k # 0
    BY <1>4, <2>1 DEF Queue
  <2>3. 1 < k + 1 /\ k + 1 \in DOMAIN toServer /\ toServer[k + 1] = r
    BY <1>5, <2>1, <2>2
  <2> QED BY <1>1, <1>5, <2>3 DEF CreatesFresh
<1> QED BY <1>3, <1>4, <1>6, <1>8, <1>9, <1>10

(* The object that an id stands for is no more: the rest of the link is    *)
(* as before, and the id is on its way back if it is the client's.         *)
LEMMA ObjectEnds ==
  ASSUME IdsInv, UNCHANGED <<kind, clientVars, serverClosed>>, NEW id \in Ids,
         \A x \in Ids : x # id => resources'[x] = resources[x],
         ~clientClosed /\ ~serverClosed =>
            /\ \A x \in Ids, obj \in Objects : Alive(x, obj)' <=> Alive(x, obj) /\ x # id
            /\ \A e \in Range(toClient) : e.op = "offer" => e.id # id
            /\ proxies[id] # None => kind[proxies[id]] \notin {"object", "offer"},
         Range(toServer') \subseteq Range(toServer),
         Range(toClient) \subseteq Range(toClient'),
         \A e \in Range(toClient') : e \in Range(toClient) \/ (e.id = id /\ e.op \in {"done", "delete_id"}),
         id \in ClientIds => \E e \in Range(toClient') : e.op = "delete_id" /\ e.id = id
  PROVE  LinkInv'
<1> SUFFICES ASSUME ~clientClosed, ~serverClosed
             PROVE  (AliveInUse /\ ProxiesAlive /\ OffersUnknown /\ NoneForgotten)'
  BY DEF LinkInv, clientVars
<1>1. AliveInUse /\ ProxiesAlive /\ OffersUnknown /\ NoneForgotten /\ Typed /\ AllFit(toClient)
  BY DEF IdsInv, LinkInv, ClientInv
<1>2. Objects' = Objects /\ UNCHANGED <<proxies, recycledIds, lastId, fired, lost>>
  BY DEF Objects, clientVars
<1>3. \A x : Taken(x)' <=> Taken(x)
  BY <1>2 DEF Taken, Waits
<1>4. ASSUME NEW x \in ClientIds, NEW obj \in Objects, Alive(x, obj)'
      PROVE  /\ Taken(x) /\ x \notin lost
             /\ proxies[x] \in {None, obj}
             /\ kind[obj] # "object" => proxies[x] = obj /\ obj \notin fired
             /\ \A e \in Range(toClient') : e.op \in {"done", "delete_id"} => e.id # x
  <2>1. Alive(x, obj) /\ x # id
    BY <1>4, IdFacts
  <2> QED BY <1>1, <2>1 DEF AliveInUse
<1>5. AliveInUse'
  BY <1>2, <1>3, <1>4 DEF AliveInUse
<1>6. ProxiesAlive'
  <2> SUFFICES ASSUME NEW x \in Ids, proxies[x] # None, kind[proxies[x]] \in {"object", "offer"}
               PROVE  /\ (Alive(x, proxies[x]))'
                      /\ \A r \in Range(toServer') : r.op = "destroy" => r.id # x
    BY <1>2 DEF ProxiesAlive
  <2>1. Alive(x, proxies[x]) /\ \A r \in Range(toServer) : r.op = "destroy" => r.id # x
    BY <1>1 DEF ProxiesAlive
  <2>2. x # id /\ proxies[x] \in Objects
    BY <1>1, TypeFacts
  <2>3. \A obj \in Objects : Alive(x, obj) => Alive(x, obj)'
    BY <2>2
  <2>4. (Alive(x, proxies[x]))'
    BY <1>2, <2>1, <2>2, <2>3
  <2> QED BY <2>1, <2>4
<1>7. OffersUnknown'
  <2> SUFFICES ASSUME NEW e \in Range(toClient'), e.op = "offer"
               PROVE  resources'[e.id] = e.obj /\ \A r \in Range(toServer') : r.id # e.id
    BY DEF OffersUnknown
  <2>1. e \in Range(toClient) /\ e.id # id /\ e.id \in Ids
    BY <1>1, PostedFacts
  <2> QED BY <1>1, <2>1 DEF OffersUnknown
<1>8. NoneForgotten'
  <2> SUFFICES ASSUME NEW x \in 2 .. lastId
               PROVE  \/ \E obj \in Objects : Alive(x, obj)'
                      \/ x \in lost
                      \/ \E e \in Range(toClient') : e.op = "delete_id" /\ e.id = x
                      \/ Waits(x)'
    BY <1>2 DEF NoneForgotten
  <2>1. x \in ClientIds
    BY <1>1, ObjectIdsAssumption DEF Typed, TypeOK, ClientIds
  <2>2. \/ \E obj \in Objects : Alive(x, obj)
        \/ x \in lost
        \/ \E e \in Range(toClient) : e.op = "delete_id" /\ e.id = x
        \/ Waits(x)
    BY <1>1 DEF NoneForgotten
  <2>3. Waits(x) => Waits(x)'
    BY <1>2 DEF Waits
  <2> QED BY <2>1, <2>2, <2>3, IdFacts
<1> QED BY <1>5, <1>6, <1>7, <1>8

(* A callback is answered and its id given back: done, then delete_id.     *)
LEMMA CallbackEnds ==
  ASSUME IdsInv, UNCHANGED <<kind, clientVars>>, NEW id \in ClientIds, NEW obj \in Objects,
         kind[obj] \in {"callback", "sync"}, ~serverClosed, Alive(id, obj),
         NEW done, NEW del, done = [op |-> "done", id |-> id, obj |-> obj],
         del = [op |-> "delete_id", id |-> id, obj |-> None],
         toClient' = Append(Append(toClient, done), del)
  PROVE  /\ Queue(toClient', Event, 0, Len(kind'))
         /\ Range(toClient') = Range(toClient) \cup {done, del}
         /\ done.op = "done" /\ done.id = id /\ del.op = "delete_id" /\ del.id = id
         /\ ClientInv'
         /\ ~clientClosed => proxies[id] = obj
<1>1. Typed /\ ClientInv /\ id \in Ids /\ Len(kind) \in Nat /\ Len(kind) <= Len(kind) /\ 0 \in Nat
      /\ obj \in 0 .. Len(kind) /\ obj \in 0 .. MaxObjects /\ None \in 0 .. MaxObjects /\ obj # None
      /\ None \in 0 .. Len(kind)
  BY TypeFacts, IdFacts, ObjectIdsAssumption DEF IdsInv, Objects, None
<1>2. done \in Event /\ done.op = "done" /\ done.id = id /\ done.obj = obj
  BY <1>1, EventMessage
<1>3. del \in Event /\ del.op = "delete_id" /\ del.id = id /\ del.obj = None
  BY <1>1, EventMessage
<1>4. PICK q : q = Append(toClient, done)
  OBVIOUS
<1>5. toClient \in Seq(Event) /\ Queue(toClient, Event, 0, Len(kind))
  BY <1>1, ToClientFacts, QueuesTyped
<1>6. Queue(q, Event, 0, Len(kind)) /\ Range(q) = Range(toClient) \cup {done}
  <2>1. done.obj \in 0 .. Len(kind)
    BY <1>1, <1>2
  <2> QED BY <1>1, <1>2, <1>4, <1>5, <2>1, EventQueued
<1>7. q \in Seq(Event)
  BY <1>6 DEF Queue
<1>8. Queue(toClient', Event, 0, Len(kind)) /\ Range(toClient') = Range(q) \cup {del}
  <2>1. del.obj \in 0 .. Len(kind)
    BY <1>1, <1>3
  <2>2. toClient' = Append(q, del)
    BY <1>4
  <2>3. Queue(Append(q, del), Event, 0, Len(kind)) /\ Range(Append(q, del)) = Range(q) \cup {del}
    BY ZenonT(60), <1>1, <1>3, <1>6, <2>1, EventQueued
  <2> QED BY <2>2, <2>3
<1>9. ~clientClosed =>
        /\ Taken(id) /\ id \notin lost /\ proxies[id] = obj /\ obj \notin fired
        /\ \A e \in Range(toClient) : e.op \in {"done", "delete_id"} => e.id # id
  <2> SUFFICES ASSUME ~clientClosed
               PROVE  /\ Taken(id) /\ id \notin lost /\ proxies[id] = obj /\ obj \notin fired
                      /\ \A e \in Range(toClient) : e.op \in {"done", "delete_id"} => e.id # id
    OBVIOUS
  <2>1. AliveInUse
    BY DEF IdsInv, LinkInv
  <2> QED BY <2>1 DEF AliveInUse
<1>10. ~clientClosed => AllFit(toClient')
  <2> SUFFICES ASSUME ~clientClosed
               PROVE  AllFit(toClient')
    OBVIOUS
  <2>1. AllFit(toClient)
    BY <1>1 DEF ClientInv
  <2>2. Fits(done, Range(toClient))
    BY <1>1, <1>2, <1>9 DEF Fits, DoneFits
  <2>3. AllFit(q)
    BY <1>2, <1>4, <1>5, <2>1, <2>2, FitAppended
  <2>4. Fits(del, Range(q))
    <3>1. \A e \in Range(q) : e.id = id => e.op # "delete_id"
      BY <1>2, <1>6, <1>9
    <3>2. \E e \in Range(q) : e.op = "done" /\ e.id = id
      BY <1>2, <1>6
    <3>3. DeleteFits(del, Range(q))
      BY <1>3, <1>9, <3>1, <3>2 DEF DeleteFits
    <3> QED BY <1>3, <3>3 DEF Fits
  <2>5. toClient' = Append(q, del)
    BY <1>4
  <2> QED BY <1>3, <1>7, <2>3, <2>4, <2>5, FitAppended
<1>11. ClientInv'
  <2>1. PICK r : r = toClient'
    OBVIOUS
  <2>3. \A k \in DOMAIN r : IsMessage(r[k])
    BY <1>1, <1>8, <2>1, QueueMessages
  <2>4. SameClient /\ UNCHANGED clientClosed
    BY DEF SameClient, clientVars
  <2> QED BY <1>1, <1>10, <2>1, <2>3, <2>4, ClientGets
<1> QED BY <1>2, <1>3, <1>6, <1>8, <1>9, <1>11

(* A request that is handled without a word to the client, and that leaves *)
(* every object as alive as before.                                        *)
LEMMA QuietKeeps ==
  ASSUME IdsInv, ~serverClosed, UNCHANGED <<kind, clientVars, toClient, serverClosed>>,
         Queue(toServer', Request, 1, Len(kind')), ServerTyped',
         (CreatesFresh /\ RequestsMeet /\ DestroysLast /\ ServerIdsInv)',
         Range(toServer') \subseteq Range(toServer),
         \A x \in Ids, obj \in Objects : Alive(x, obj)' <=> Alive(x, obj),
         \A x \in ServerIds : resources'[x] = resources[x]
  PROVE  IdsInv'
<1>1. Typed /\ ClientInv
  BY DEF IdsInv
<1>2. Queue(toClient, Event, 0, Len(kind))
  BY <1>1, QueuesTyped
<1>3. Typed'
  BY <1>1, <1>2, TypesKept, TypedNext
<1>4. ServerInv'
  BY DEF ServerInv
<1>5. ClientInv'
  <2>1. \A k \in DOMAIN toClient : IsMessage(toClient[k])
    BY <1>1, MessagesKnown
  <2>2. SameClient /\ UNCHANGED clientClosed
    BY DEF SameClient, clientVars
  <2>3. ~clientClosed => AllFit(toClient)
    BY <1>1 DEF ClientInv
  <2> QED BY <1>1, <2>1, <2>2, <2>3, ClientGets
<1>6. LinkInv'
  <2> SUFFICES ASSUME ~clientClosed
               PROVE  (AliveInUse /\ ProxiesAlive /\ OffersUnknown /\ NoneForgotten)'
    BY DEF LinkInv, clientVars
  <2>1. AliveInUse /\ ProxiesAlive /\ OffersUnknown /\ NoneForgotten /\ AllFit(toClient)
    BY DEF IdsInv, LinkInv, ClientInv
  <2>2. Objects' = Objects /\ UNCHANGED <<proxies, recycledIds, lastId, fired, lost>>
    BY DEF Objects, clientVars
  <2>3. \A x : Taken(x)' <=> Taken(x)
    BY <2>2 DEF Taken, Waits
  <2>4. AliveInUse'
    BY <2>1, <2>2, <2>3, IdFacts DEF AliveInUse
  <2>5. ProxiesAlive'
    BY <1>1, <2>1, <2>2, TypeFacts DEF ProxiesAlive
  <2>6. OffersUnknown'
    BY <1>1, <2>1, PostedFacts DEF OffersUnknown
  <2>7. \A x \in 2 .. lastId : x \in Ids
    BY <1>1, ObjectIdsAssumption DEF Typed, TypeOK, ClientIds, Ids
  <2>8. NoneForgotten'
    BY <2>1, <2>2, <2>7 DEF NoneForgotten, Waits
  <2> QED BY <2>4, <2>5, <2>6, <2>8
<1>7. ClosedEmpty'
  BY DEF IdsInv, ClosedEmpty, clientVars
<1> QED BY <1>3, <1>4, <1>5, <1>6, <1>7 DEF IdsInv

LEMMA RegisterKeeps ==
  ASSUME IdsInv, ServerReceives("create"), NEW m, m = Head(toServer), kind[m.obj] # "sync",
         resources' = [resources EXCEPT ![m.id] = m.obj],
         UNCHANGED <<serverRecycled, nextId, serverClosed, toClient, kind, clientVars>>
  PROVE  IdsInv'
<1>1. /\ ~serverClosed /\ toServer # <<>> /\ toServer' = Tail(toServer) /\ m.op = "create"
      /\ Typed /\ CreatesFresh /\ RequestsMeet /\ DestroysLast /\ ServerIdsInv
  BY DEF ServerReceives, IdsInv, ServerInv
<1>2. /\ Range(toServer) = {m} \cup Range(toServer')
      /\ Queue(toServer', Request, 1, Len(kind'))
      /\ m.id \in Ids /\ m.obj \in Objects /\ m.id \in ClientIds
      /\ resources[m.id] = None /\ kind[m.obj] # "offer"
  BY <1>1, RequestTaken
<1>3. \A x \in Ids : resources'[x] = IF x = m.id THEN m.obj ELSE resources[x]
  BY <1>1 DEF Typed, TypeOK
<1>4. ServerTyped'
  <2>1. resources \in [Ids -> 0 .. Len(kind)] /\ m.obj \in 0 .. Len(kind)
    BY SMTT(40), <1>1, <1>2, TypeFacts DEF Typed, TypeOK, Objects
  <2>2. resources' \in [Ids -> 0 .. Len(kind)]
    BY <2>1
  <2> QED BY <1>1, <2>2, TypedParts DEF ServerTyped
<1>5. (CreatesFresh /\ RequestsMeet /\ DestroysLast)'
  <2>1. \A x \in Ids : x # m.id => resources'[x] = resources[x]
    BY <1>3
  <2>2. resources'[m.id] = m.obj
    BY <1>2, <1>3
  <2> QED BY <1>1, <2>1, <2>2, ServerTakes
<1>6. \A x \in ServerIds : resources'[x] = resources[x]
  BY <1>2, <1>3, IdFacts
<1>7. ServerIdsInv'
  <2>1. kind[m.obj] \in {"object", "callback"}
    BY <1>1, <1>2, TypeFacts DEF Kinds
  <2>2. \A x \in ClientIds : resources'[x] # None => kind[resources'[x]] \in {"object", "callback"}
    BY <1>1, <1>3, <2>1, IdFacts DEF ServerIdsInv
  <2>3. \A i \in DOMAIN serverRecycled : serverRecycled[i] \in ServerIds
    BY <1>1 DEF Typed, TypeOK
  <2>4. \A x \in ServerIdBase .. nextId - 1 : x \in ServerIds
    BY <1>1, ObjectIdsAssumption DEF Typed, TypeOK, ServerIds
  <2>5. \A x \in ServerIds : resources'[x] # None => kind'[resources'[x]] = "offer" /\ x < nextId'
    BY <1>1, <1>6 DEF ServerIdsInv
  <2>6. \A i \in DOMAIN serverRecycled' :
            resources'[serverRecycled'[i]] = None /\ serverRecycled'[i] < nextId'
    BY <1>1, <1>6, <2>3 DEF ServerIdsInv
  <2>7. \A x \in ServerIdBase .. nextId' - 1 :
            resources'[x] # None \/ \E i \in DOMAIN serverRecycled' : serverRecycled'[i] = x
    BY <1>1, <1>6, <2>4 DEF ServerIdsInv
  <2> QED BY <1>1, <2>2, <2>5, <2>6, <2>7 DEF ServerIdsInv
<1>8. ASSUME NEW x \in Ids, NEW obj \in Objects
      PROVE  Alive(x, obj)' <=> Alive(x, obj)
  <2>1. CreateComes(x, obj) <=> CreateComes(x, obj)' \/ (x = m.id /\ obj = m.obj)
    BY <1>1, <1>2 DEF CreateComes
  <2>2. resources[x] = obj => x # m.id
    BY <1>1, <1>2, TypeFacts
  <2> QED BY <1>3, <2>1, <2>2 DEF Alive
<1> QED BY <1>1, <1>2, <1>4, <1>5, <1>6, <1>7, <1>8, QuietKeeps

LEMMA SyncKeeps ==
  ASSUME IdsInv, ServerReceives("create"), NEW m, m = Head(toServer), kind[m.obj] = "sync",
         UnregisterResource(m.id, Append(toClient, [op |-> "done", id |-> m.id, obj |-> m.obj])),
         UNCHANGED <<kind, clientVars>>
  PROVE  IdsInv'
<1>1. /\ ~serverClosed /\ toServer # <<>> /\ toServer' = Tail(toServer) /\ m.op = "create"
      /\ Typed /\ CreatesFresh /\ RequestsMeet /\ DestroysLast /\ ServerIdsInv
  BY DEF ServerReceives, IdsInv, ServerInv
<1>2. /\ Range(toServer) = {m} \cup Range(toServer') /\ m \in Range(toServer)
      /\ Queue(toServer', Request, 1, Len(kind'))
      /\ m.id \in Ids /\ m.obj \in Objects /\ m.id \in ClientIds
      /\ resources[m.id] = None
      /\ \A r \in Range(toServer') : r.op = "create" => r.id # m.id
  BY <1>1, RequestTaken
<1>3. /\ resources' = [resources EXCEPT ![m.id] = None] /\ UNCHANGED <<serverRecycled, nextId, serverClosed>>
      /\ toClient' = Append(Append(toClient, [op |-> "done", id |-> m.id, obj |-> m.obj]),
                            [op |-> "delete_id", id |-> m.id, obj |-> None])
  <2>1. ~(m.id >= ServerIdBase)
    BY <1>2, IdFacts
  <2> QED BY <2>1 DEF UnregisterResource
<1>4. resources' = resources
  BY <1>1, <1>2, <1>3 DEF Typed, TypeOK
<1>5. UNCHANGED serverVars
  BY <1>3, <1>4 DEF serverVars
<1>6. PICK done, del : done = [op |-> "done", id |-> m.id, obj |-> m.obj]
                       /\ del = [op |-> "delete_id", id |-> m.id, obj |-> None]
  OBVIOUS
<1>7. Alive(m.id, m.obj)
  BY <1>1, <1>2 DEF Alive, CreateComes
<1>8. /\ Queue(toClient', Event, 0, Len(kind'))
      /\ Range(toClient') = Range(toClient) \cup {done, del}
      /\ done.op = "done" /\ done.id = m.id /\ del.op = "delete_id" /\ del.id = m.id
      /\ ClientInv'
      /\ ~clientClosed => proxies[m.id] = m.obj
  BY <1>1, <1>2, <1>3, <1>6, <1>7, CallbackEnds
<1>9. Typed'
  BY <1>1, <1>2, <1>5, <1>8, TypesKept, TypedNext
<1>10. ServerInv'
  <2>1. kind[m.obj] \notin {"object", "offer"}
    OBVIOUS
  <2>2. (CreatesFresh /\ RequestsMeet /\ DestroysLast)'
    BY <1>1, <1>4, <2>1, ServerTakes
  <2>3. ServerIdsInv'
    BY <1>1, <1>5, SameServerIds DEF SameServer
  <2> QED BY <2>2, <2>3 DEF ServerInv
<1>11. LinkInv'
  <2>1. ASSUME NEW x \in Ids, NEW obj \in Objects
        PROVE  Alive(x, obj)' <=> Alive(x, obj) /\ x # m.id
    <3>1. CreateComes(x, obj)' <=> CreateComes(x, obj) /\ x # m.id
      BY <1>2 DEF CreateComes
    <3>2. resources[x] = obj => x # m.id
      BY <1>1, <1>2, TypeFacts
    <3> QED BY <1>4, <3>1, <3>2 DEF Alive
  <2>2. ~clientClosed => \A e \in Range(toClient) : e.op = "offer" => e.id # m.id
    BY <1>1, <1>2, PostedFacts, IdFacts DEF IdsInv, ClientInv
  <2>3. \E e \in Range(toClient') : e.op = "delete_id" /\ e.id = m.id
    BY <1>8
  <2>4. ~clientClosed => (proxies[m.id] # None => kind[proxies[m.id]] \notin {"object", "offer"})
    BY <1>8
  <2>5. \A e \in Range(toClient') : e \in Range(toClient) \/ (e.id = m.id /\ e.op \in {"done", "delete_id"})
    BY <1>8
  <2>6. Range(toServer') \subseteq Range(toServer) /\ Range(toClient) \subseteq Range(toClient')
    BY <1>2, <1>8
  <2> QED BY <1>2, <1>3, <1>4, <2>1, <2>2, <2>3, <2>4, <2>5, <2>6, ObjectEnds
<1>12. ClosedEmpty'
  BY <1>4, <1>5 DEF IdsInv, ClosedEmpty, clientVars, serverVars
<1> QED BY <1>8, <1>9, <1>10, <1>11, <1>12 DEF IdsInv

LEMMA ReceivesCreateKeeps ==
  ASSUME IdsInv, ServerReceivesCreate
  PROVE  IdsInv'
<1>1. PICK m : m = Head(toServer)
  OBVIOUS
<1>2. ServerReceives("create") /\ UNCHANGED <<kind, clientVars>>
  BY DEF ServerReceivesCreate
<1>3. CASE CloseServer(toClient)
  BY <1>2, <1>3, ServerStops DEF ServerReceives
<1>4. CASE /\ kind[m.obj] # "sync"
           /\ resources' = [resources EXCEPT ![m.id] = m.obj]
           /\ UNCHANGED <<serverRecycled, nextId, serverClosed, toClient>>
  BY <1>1, <1>2, <1>4, RegisterKeeps
<1>5. CASE /\ kind[m.obj] = "sync"
           /\ UnregisterResource(m.id, Append(toClient, [op |-> "done", id |-> m.id, obj |-> m.obj]))
  BY <1>1, <1>2, <1>5, SyncKeeps
<1> QED BY <1>1, <1>3, <1>4, <1>5 DEF ServerReceivesCreate

LEMMA ServerDestroyKeeps ==
  ASSUME IdsInv, ServerReceives("destroy"), NEW m, m = Head(toServer),
         UnregisterResource(m.id, toClient), UNCHANGED <<kind, clientVars>>
  PROVE  IdsInv'
<1>1. /\ ~serverClosed /\ toServer # <<>> /\ toServer' = Tail(toServer) /\ m.op = "destroy"
      /\ Typed /\ CreatesFresh /\ RequestsMeet /\ DestroysLast /\ ServerIdsInv /\ ClientInv
  BY DEF ServerReceives, IdsInv, ServerInv
<1>2. /\ Range(toServer) = {m} \cup Range(toServer') /\ m \in Range(toServer)
      /\ Queue(toServer', Request, 1, Len(kind'))
      /\ m.id \in Ids /\ m.obj \in Objects
      /\ resources[m.id] = m.obj /\ kind[m.obj] \in {"object", "offer"}
  BY <1>1, RequestTaken
<1>3. m.obj # None /\ resources[m.id] # None
  BY <1>1, <1>2, TypeFacts
<1>4. resources' = [resources EXCEPT ![m.id] = None] /\ UNCHANGED serverClosed /\ UNCHANGED nextId
  BY DEF UnregisterResource
<1>5. \A x \in Ids : resources'[x] = IF x = m.id THEN None ELSE resources[x]
  BY <1>1, <1>4 DEF Typed, TypeOK
<1>6. ServerInv'
  <2>1. \A x \in Ids : x # m.id => resources'[x] = resources[x]
    BY <1>5
  <2>2. (CreatesFresh /\ RequestsMeet /\ DestroysLast)'
    BY <1>1, <2>1, ServerTakes
  <2>3. ServerIdsInv'
    BY <1>1, <1>2, <1>3, UnregisterKeepsIds
  <2> QED BY <2>2, <2>3 DEF ServerInv
<1>7. ~clientClosed =>
        /\ proxies[m.id] = None
        /\ \A e \in Range(toClient) : e.op = "offer" => e.id # m.id
        /\ m.id \in ClientIds =>
            /\ Taken(m.id) /\ m.id \notin lost
            /\ \A e \in Range(toClient) : e.op \in {"done", "delete_id"} => e.id # m.id
  <2> SUFFICES ASSUME ~clientClosed
               PROVE  /\ proxies[m.id] = None
                      /\ \A e \in Range(toClient) : e.op = "offer" => e.id # m.id
                      /\ m.id \in ClientIds =>
                          /\ Taken(m.id) /\ m.id \notin lost
                          /\ \A e \in Range(toClient) : e.op \in {"done", "delete_id"} => e.id # m.id
    OBVIOUS
  <2>1. AliveInUse /\ ProxiesAlive /\ OffersUnknown /\ ClientIdsInv
    BY <1>1 DEF IdsInv, LinkInv, ClientInv
  <2>2. Alive(m.id, m.obj)
    BY <1>2 DEF Alive
  <2>3. proxies[m.id] # None => kind[proxies[m.id]] \in {"object", "offer"}
    <3>1. CASE m.id \in ClientIds
      <4>1. proxies[m.id] \in {None, m.obj}
        BY <1>2, <2>1, <2>2, <3>1 DEF AliveInUse
      <4> QED BY <1>2, <4>1
    <3>2. CASE m.id \in ServerIds
      BY <2>1, <3>2 DEF ClientIdsInv
    <3> QED BY <1>2, <3>1, <3>2, IdFacts
  <2>4. proxies[m.id] = None
    BY <1>1, <1>2, <2>1, <2>3 DEF ProxiesAlive
  <2>5. \A e \in Range(toClient) : e.op = "offer" => e.id # m.id
    BY <1>2, <2>1 DEF OffersUnknown
  <2> QED BY <1>2, <2>1, <2>2, <2>4, <2>5 DEF AliveInUse
<1>8. PICK del : del = [op |-> "delete_id", id |-> m.id, obj |-> None]
  OBVIOUS
<1>9. /\ Len(kind) \in Nat /\ None \in 0 .. MaxObjects /\ None \in 0 .. Len(kind)
      /\ Queue(toClient, Event, 0, Len(kind)) /\ toClient \in Seq(Event)
  BY <1>1, TypeFacts, ObjectIdsAssumption, QueuesTyped, ToClientFacts DEF None
<1>10. del \in Event /\ del.op = "delete_id" /\ del.id = m.id /\ del.obj = None
  BY <1>1, <1>2, <1>8, <1>9, EventMessage
<1>11. \/ m.id \in ClientIds /\ toClient' = Append(toClient, del) /\ serverRecycled' = serverRecycled
       \/ m.id \in ServerIds /\ toClient' = toClient /\ serverRecycled' = Append(serverRecycled, m.id)
  <2>1. CASE m.id \in ClientIds
    <3>1. ~(m.id >= ServerIdBase)
      BY <2>1, IdFacts
    <3> QED BY <1>8, <2>1, <3>1 DEF UnregisterResource
  <2>2. CASE m.id \in ServerIds
    <3>1. ~(m.id < ServerIdBase)
      BY <2>2, IdFacts, ObjectIdsAssumption DEF ServerIds
    <3> QED BY <1>8, <2>2, <3>1 DEF UnregisterResource
  <2> QED BY <1>2, <2>1, <2>2, IdFacts
<1>12. Queue(toClient', Event, 0, Len(kind))
       /\ Range(toClient') = IF m.id \in ClientIds THEN Range(toClient) \cup {del} ELSE Range(toClient)
  <2>1. del.obj \in 0 .. Len(kind)
    BY <1>9, <1>10
  <2>2. CASE toClient' = Append(toClient, del) /\ m.id \in ClientIds
    BY <1>1, <1>9, <1>10, <2>1, <2>2, EventQueued
  <2>3. CASE toClient' = toClient /\ m.id \in ServerIds
    BY <1>9, <2>3, IdFacts
  <2> QED BY <1>11, <2>2, <2>3
<1>13. Typed'
  <2>1. resources \in [Ids -> 0 .. Len(kind)]
    BY <1>1 DEF Typed, TypeOK
  <2>2. resources' \in [Ids -> 0 .. Len(kind)]
    BY <1>4, <1>9, <2>1
  <2>3. serverRecycled' \in Seq(ServerIds)
    <3>1. serverRecycled \in Seq(ServerIds)
      BY <1>1 DEF Typed, TypeOK
    <3> QED BY <1>11, <3>1, AppendOf
  <2>4. ServerTyped'
    BY <1>1, <1>4, <2>2, <2>3, TypedParts DEF ServerTyped
  <2> QED BY <1>1, <1>2, <1>12, <2>4, TypesKept, TypedNext
<1>14. ClientInv'
  <2>1. ~clientClosed => AllFit(toClient')
    <3> SUFFICES ASSUME ~clientClosed
                 PROVE  AllFit(toClient')
      OBVIOUS
    <3>1. AllFit(toClient)
      BY <1>1 DEF ClientInv
    <3>2. CASE toClient' = Append(toClient, del) /\ m.id \in ClientIds
      <4>1. DeleteFits(del, Range(toClient))
        BY <1>7, <1>10, <3>2 DEF DeleteFits
      <4>2. Fits(del, Range(toClient))
        BY <1>10, <4>1 DEF Fits
      <4> QED BY <1>9, <1>10, <3>1, <3>2, <4>2, FitAppended
    <3> QED BY <1>11, <3>1, <3>2
  <2>2. PICK r : r = toClient'
    OBVIOUS
  <2>3. \A k \in DOMAIN r : IsMessage(r[k])
    BY <1>1, <1>12, <2>2, QueueMessages
  <2>4. SameClient /\ UNCHANGED clientClosed
    BY DEF SameClient, clientVars
  <2> QED BY <1>1, <2>1, <2>2, <2>3, <2>4, ClientGets
<1>15. LinkInv'
  <2>1. ASSUME NEW x \in Ids, NEW obj \in Objects
        PROVE  Alive(x, obj)' <=> Alive(x, obj) /\ x # m.id
    <3>1. CreateComes(x, obj)' <=> CreateComes(x, obj)
      BY <1>1, <1>2 DEF CreateComes
    <3>2. CreateComes(x, obj) => x # m.id
      BY <1>1, <1>2, <1>3, SentFacts
    <3>3. obj # None
      BY <1>1, TypeFacts
    <3> QED BY <1>5, <3>1, <3>2, <3>3 DEF Alive
  <2>2. m.id \in ClientIds => \E e \in Range(toClient') : e.op = "delete_id" /\ e.id = m.id
    BY <1>10, <1>12
  <2>3. \A e \in Range(toClient') : e \in Range(toClient) \/ (e.id = m.id /\ e.op \in {"done", "delete_id"})
    BY <1>10, <1>12
  <2>4. Range(toServer') \subseteq Range(toServer) /\ Range(toClient) \subseteq Range(toClient')
    BY <1>2, <1>12
  <2>5. \A x \in Ids : x # m.id => resources'[x] = resources[x]
    BY <1>5
  <2> QED BY <1>2, <1>4, <1>7, <2>1, <2>2, <2>3, <2>4, <2>5, ObjectEnds
<1>16. ClosedEmpty'
  BY <1>1, <1>4 DEF IdsInv, ClosedEmpty, clientVars
<1> QED BY <1>6, <1>13, <1>14, <1>15, <1>16 DEF IdsInv

LEMMA ReceivesDestroyKeeps ==
  ASSUME IdsInv, ServerReceivesDestroy
  PROVE  IdsInv'
<1>1. PICK m : m = Head(toServer)
  OBVIOUS
<1>2. ServerReceives("destroy") /\ UNCHANGED <<kind, clientVars>>
  BY DEF ServerReceivesDestroy
<1>3. CASE CloseServer(toClient)
  BY <1>2, <1>3, ServerStops DEF ServerReceives
<1>4. CASE UnregisterResource(m.id, toClient)
  BY <1>1, <1>2, <1>4, ServerDestroyKeeps
<1> QED BY <1>1, <1>3, <1>4 DEF ServerReceivesDestroy

LEMMA ReceivesRequestKeeps ==
  ASSUME IdsInv, ServerReceivesRequest
  PROVE  IdsInv'
<1>1. PICK m : m = Head(toServer)
  OBVIOUS
<1>2. /\ ~serverClosed /\ toServer # <<>> /\ toServer' = Tail(toServer) /\ m.op = "request"
      /\ Typed /\ CreatesFresh /\ RequestsMeet /\ DestroysLast /\ ServerIdsInv
      /\ UNCHANGED <<kind, clientVars>>
  BY <1>1 DEF ServerReceivesRequest, ServerReceives, IdsInv, ServerInv
<1>3. /\ Range(toServer) = {m} \cup Range(toServer')
      /\ Queue(toServer', Request, 1, Len(kind'))
      /\ m.id \in Ids /\ m.obj \in Objects
  BY <1>1, <1>2, RequestTaken
<1>4. CASE CloseServer(toClient)
  BY <1>2, <1>4, ServerStops
<1>5. CASE UNCHANGED <<serverVars, toClient>>
  <2>1. UNCHANGED <<resources, serverClosed>>
    BY <1>5 DEF serverVars
  <2>2. (CreatesFresh /\ RequestsMeet /\ DestroysLast)'
    BY <1>1, <1>2, <2>1, ServerTakes
  <2>3. ServerIdsInv'
    BY <1>2, <1>5, SameServerIds DEF SameServer
  <2>4. ServerTyped'
    BY <1>2, <1>5, TypesKept
  <2>5. \A x, obj : Alive(x, obj)' <=> Alive(x, obj)
    BY <1>2, <1>3, <2>1 DEF Alive, CreateComes
  <2>6. Range(toServer') \subseteq Range(toServer)
    BY <1>3
  <2> QED BY <1>2, <1>3, <1>5, <2>1, <2>2, <2>3, <2>4, <2>5, <2>6, QuietKeeps
<1>6. CASE /\ serverClosed' = TRUE /\ resources' = [i \in Ids |-> None]
           /\ toClient' = Append(toClient, [op |-> "error", id |-> m.id, obj |-> m.obj])
           /\ UNCHANGED <<serverRecycled, nextId>>
  <2>1. PICK err : err = [op |-> "error", id |-> m.id, obj |-> m.obj]
    OBVIOUS
  <2>2. m.obj \in 0 .. Len(kind) /\ m.obj \in 0 .. MaxObjects
    BY <1>2, <1>3, TypeFacts, ObjectIdsAssumption DEF Objects
  <2>3. err \in Event /\ err.op = "error" /\ err.obj = m.obj
    BY <1>2, <1>3, <2>1, <2>2, EventMessage
  <2>4. Queue(toClient, Event, 0, Len(kind)) /\ toClient \in Seq(Event) /\ err.obj \in 0 .. Len(kind)
    BY <1>2, <2>2, <2>3, QueuesTyped, ToClientFacts
  <2>5. Queue(toClient', Event, 0, Len(kind))
    BY <1>2, <1>6, <2>1, <2>3, <2>4, EventQueued
  <2>6. Fits(err, Range(toClient))
    BY <2>3 DEF Fits
  <2>7. ~clientClosed => AllFit(toClient')
    BY <1>6, <2>1, <2>3, <2>4, <2>6, FitAppended DEF IdsInv, ClientInv
  <2> QED BY <1>2, <1>3, <1>6, <2>5, <2>7, CloseServerKeeps
<1> QED BY <1>1, <1>4, <1>5, <1>6 DEF ServerReceivesRequest

-----------------------------------------------------------------------------
(* The steps of the compositor.                                            *)
LEMMA ServerEventKeeps ==
  ASSUME IdsInv, NEW id \in Ids, ServerEvent(id)
  PROVE  IdsInv'
<1>1. /\ Typed /\ ~serverClosed /\ CreatesFresh /\ RequestsMeet /\ ServerInv /\ ClientInv
      /\ resources[id] # None /\ kind[resources[id]] \in {"object", "offer"}
      /\ UNCHANGED <<kind, clientVars, serverVars, toServer>>
  BY DEF IdsInv, ClosedEmpty, ServerInv, ServerEvent
<1>2. PICK obj : obj = resources[id]
  OBVIOUS
<1>3. obj \in Objects /\ obj # None /\ obj \in 0 .. Len(kind) /\ obj \in 0 .. MaxObjects
  BY <1>1, <1>2, TypeFacts, ObjectIdsAssumption DEF Objects
<1>4. PICK m : m = [op |-> "event", id |-> id, obj |-> obj]
  OBVIOUS
<1>5. m \in Event /\ m.op = "event" /\ m.id = id /\ m.obj = obj
  BY <1>1, <1>3, <1>4, EventMessage
<1>6. toClient' = Append(toClient, m)
  BY <1>2, <1>4 DEF ServerEvent
<1>7. Queue(toClient, Event, 0, Len(kind)) /\ toClient \in Seq(Event) /\ m.obj \in 0 .. Len(kind)
  BY <1>1, <1>3, <1>5, QueuesTyped, ToClientFacts
<1>8. Queue(toClient', Event, 0, Len(kind)) /\ Range(toClient') = Range(toClient) \cup {m}
  BY <1>1, <1>5, <1>6, <1>7, EventQueued
<1>9. Typed'
  <2>1. Queue(toServer, Request, 1, Len(kind))
    BY <1>1, QueuesTyped
  <2> QED BY <1>1, <1>8, <2>1, TypesKept, TypedNext
<1>10. ServerInv'
  BY <1>1, ServerKeeps DEF SameServer
<1>11. ClientInv'
  <2>1. ~clientClosed => AllFit(toClient')
    <3> SUFFICES ASSUME ~clientClosed
                 PROVE  AllFit(toClient')
      OBVIOUS
    <3>1. AliveInUse /\ ProxiesAlive /\ OffersUnknown /\ ClientIdsInv /\ AllFit(toClient)
      BY <1>1 DEF IdsInv, LinkInv, ClientInv
    <3>2. Alive(id, obj)
      BY <1>2 DEF Alive
    <3>3. EventFits(m, Range(toClient))
      <4>1. CASE id \in ClientIds
        <5>1. /\ Taken(id) /\ proxies[id] \in {None, obj}
              /\ \A e \in Range(toClient) : e.op \in {"done", "delete_id"} => e.id # id
          BY <1>3, <3>1, <3>2, <4>1 DEF AliveInUse
        <5>2. \A e \in Range(toClient) : e.op = "offer" => e.id # id
          BY <1>1, <3>1, <4>1, PostedFacts, IdFacts
        <5> QED BY <1>3, <1>5, <5>1, <5>2 DEF EventFits
      <4>2. CASE id \in ServerIds
        <5>1. proxies[id] # None => proxies[id] = obj
          <6> SUFFICES ASSUME proxies[id] # None
                       PROVE  proxies[id] = obj
            OBVIOUS
          <6>1. kind[proxies[id]] = "offer"
            BY <3>1, <4>2 DEF ClientIdsInv
          <6>2. Alive(id, proxies[id])
            BY <3>1, <6>1 DEF ProxiesAlive
          <6> QED BY <1>1, <1>2, <4>2, <6>2, SentFacts
        <5>2. \A e \in Range(toClient) : e.op = "delete_id" => e.id # id
          BY <1>1, <3>1, <4>2, PostedFacts, IdFacts DEF Taken
        <5>3. \A e \in Range(toClient) : e.op = "offer" /\ e.id = id => e.obj = obj
          BY <1>2, <3>1 DEF OffersUnknown
        <5>4. id \notin ClientIds
          BY <4>2, IdFacts
        <5> QED BY <1>3, <1>5, <5>1, <5>2, <5>3, <5>4 DEF EventFits
      <4> QED BY <4>1, <4>2, IdFacts
    <3>4. Fits(m, Range(toClient))
      BY <1>5, <3>3 DEF Fits
    <3> QED BY <1>5, <1>6, <1>7, <3>1, <3>4, FitAppended
  <2>2. PICK r : r = toClient'
    OBVIOUS
  <2>3. \A k \in DOMAIN r : IsMessage(r[k])
    BY <1>1, <1>8, <2>2, QueueMessages
  <2>4. SameClient /\ UNCHANGED clientClosed
    BY <1>1 DEF SameClient, clientVars
  <2> QED BY <1>1, <2>1, <2>2, <2>3, <2>4, ClientGets
<1>12. LinkInv'
  <2> SUFFICES ASSUME ~clientClosed
               PROVE  (AliveInUse /\ ProxiesAlive /\ OffersUnknown /\ NoneForgotten)'
    BY <1>1 DEF LinkInv, clientVars
  <2>1. AliveInUse /\ ProxiesAlive /\ OffersUnknown /\ NoneForgotten
    BY <1>1 DEF IdsInv, LinkInv
  <2>2. \A x, o : Alive(x, o)' <=> Alive(x, o)
    BY <1>1 DEF Alive, CreateComes, serverVars
  <2>3. Objects' = Objects /\ UNCHANGED <<proxies, recycledIds, lastId, fired, lost>>
    BY <1>1 DEF Objects, clientVars
  <2>4. \A x : Taken(x)' <=> Taken(x)
    BY <2>3 DEF Taken, Waits
  <2>5. AliveInUse'
    BY <1>1, <1>5, <1>8, <2>1, <2>2, <2>3, <2>4 DEF AliveInUse
  <2>6. ProxiesAlive'
    BY <1>1, <2>1, <2>2, <2>3 DEF ProxiesAlive
  <2>7. OffersUnknown'
    BY <1>1, <1>5, <1>8, <2>1 DEF OffersUnknown, serverVars
  <2>8. NoneForgotten'
    BY <1>8, <2>1, <2>2, <2>3 DEF NoneForgotten, Waits
  <2> QED BY <2>5, <2>6, <2>7, <2>8
<1>13. ClosedEmpty'
  BY <1>1 DEF IdsInv, ClosedEmpty, clientVars, serverVars
<1> QED BY <1>9, <1>10, <1>11, <1>12, <1>13 DEF IdsInv

LEMMA FiresCallbackKeeps ==
  ASSUME IdsInv, NEW id \in Ids, ServerFiresCallback(id)
  PROVE  IdsInv'
<1>1. /\ Typed /\ ~serverClosed /\ CreatesFresh /\ RequestsMeet /\ DestroysLast /\ ServerIdsInv
      /\ resources[id] # None /\ kind[resources[id]] = "callback"
      /\ UNCHANGED <<kind, clientVars, toServer>>
      /\ UnregisterResource(id, Append(toClient, [op |-> "done", id |-> id, obj |-> resources[id]]))
  BY DEF IdsInv, ClosedEmpty, ServerInv, ServerFiresCallback
<1>2. PICK obj : obj = resources[id]
  OBVIOUS
<1>3. obj \in Objects /\ obj # None /\ kind[obj] = "callback"
  BY <1>1, <1>2, TypeFacts
<1>4. id \in ClientIds
  BY <1>1, IdFacts DEF ServerIdsInv
<1>5. PICK done, del : done = [op |-> "done", id |-> id, obj |-> obj]
                       /\ del = [op |-> "delete_id", id |-> id, obj |-> None]
  OBVIOUS
<1>6. /\ resources' = [resources EXCEPT ![id] = None] /\ UNCHANGED <<serverRecycled, nextId, serverClosed>>
      /\ toClient' = Append(Append(toClient, done), del)
  <2>1. ~(id >= ServerIdBase)
    BY <1>4, IdFacts
  <2> QED BY <1>1, <1>2, <1>5, <2>1 DEF UnregisterResource
<1>7. \A x \in Ids : resources'[x] = IF x = id THEN None ELSE resources[x]
  BY <1>1, <1>6 DEF Typed, TypeOK
<1>8. Alive(id, obj)
  BY <1>2 DEF Alive
<1>9. /\ Queue(toClient', Event, 0, Len(kind'))
      /\ Range(toClient') = Range(toClient) \cup {done, del}
      /\ done.op = "done" /\ done.id = id /\ del.op = "delete_id" /\ del.id = id
      /\ ClientInv'
      /\ ~clientClosed => proxies[id] = obj
  BY <1>1, <1>3, <1>4, <1>5, <1>6, <1>8, CallbackEnds
<1>10. Typed'
  <2>1. resources \in [Ids -> 0 .. Len(kind)] /\ None \in 0 .. Len(kind)
    BY <1>1, TypeFacts DEF Typed, TypeOK, None
  <2>2. resources' \in [Ids -> 0 .. Len(kind)]
    BY <1>6, <2>1
  <2>3. ServerTyped'
    BY <1>1, <1>6, <2>2, TypedParts DEF ServerTyped
  <2>4. Queue(toServer, Request, 1, Len(kind))
    BY <1>1, QueuesTyped
  <2> QED BY <1>1, <1>9, <2>3, <2>4, TypesKept, TypedNext
<1>11. ServerInv'
  <2>1. CreatesFresh'
    <3>1. \A k \in DOMAIN toServer : toServer[k].op = "create" => resources'[toServer[k].id] = None
      BY <1>1, <1>7, ToServerFacts DEF CreatesFresh
    <3> QED BY <1>1, <3>1 DEF CreatesFresh
  <2>2. RequestsMeet'
    <3> SUFFICES ASSUME NEW k \in DOMAIN toServer, toServer[k].op # "create"
                 PROVE  /\ kind[toServer[k].obj] \in {"object", "offer"}
                        /\ \/ resources'[toServer[k].id] = toServer[k].obj
                           \/ \E j \in DOMAIN toServer :
                                /\ j < k /\ toServer[j].op = "create"
                                /\ toServer[j].id = toServer[k].id /\ toServer[j].obj = toServer[k].obj
      BY <1>1 DEF RequestsMeet
    <3>1. /\ kind[toServer[k].obj] \in {"object", "offer"}
          /\ \/ resources[toServer[k].id] = toServer[k].obj
             \/ \E j \in DOMAIN toServer :
                  /\ j < k /\ toServer[j].op = "create"
                  /\ toServer[j].id = toServer[k].id /\ toServer[j].obj = toServer[k].obj
      BY <1>1 DEF RequestsMeet
    <3>2. toServer[k].obj # obj /\ toServer[k].id \in Ids
      BY <1>1, <1>3, <3>1, ToServerFacts
    <3>3. resources[toServer[k].id] = toServer[k].obj => resources'[toServer[k].id] = toServer[k].obj
      BY <1>2, <1>7, <3>2
    <3> QED BY <3>1, <3>3
  <2>3. DestroysLast'
    BY <1>1 DEF DestroysLast
  <2>4. ServerIdsInv'
    BY <1>1, UnregisterKeepsIds
  <2> QED BY <2>1, <2>2, <2>3, <2>4 DEF ServerInv
<1>12. LinkInv'
  <2>1. ASSUME NEW x \in Ids, NEW o \in Objects
        PROVE  Alive(x, o)' <=> Alive(x, o) /\ x # id
    <3>1. CreateComes(x, o)' <=> CreateComes(x, o)
      BY <1>1 DEF CreateComes
    <3>2. CreateComes(x, o) => x # id
      BY <1>1, SentFacts
    <3>3. o # None
      BY <1>1, TypeFacts
    <3> QED BY <1>7, <3>1, <3>2, <3>3 DEF Alive
  <2>2. ~clientClosed => \A e \in Range(toClient) : e.op = "offer" => e.id # id
    BY <1>1, <1>4, PostedFacts, IdFacts DEF IdsInv, ClientInv
  <2>3. \E e \in Range(toClient') : e.op = "delete_id" /\ e.id = id
    BY <1>9
  <2>4. ~clientClosed => (proxies[id] # None => kind[proxies[id]] \notin {"object", "offer"})
    BY <1>3, <1>9
  <2>5. \A e \in Range(toClient') : e \in Range(toClient) \/ (e.id = id /\ e.op \in {"done", "delete_id"})
    BY <1>9
  <2>6. Range(toServer') \subseteq Range(toServer) /\ Range(toClient) \subseteq Range(toClient')
    BY <1>1, <1>9
  <2>7. \A x \in Ids : x # id => resources'[x] = resources[x]
    BY <1>7
  <2> QED BY <1>1, <1>6, <2>1, <2>2, <2>3, <2>4, <2>5, <2>6, <2>7, ObjectEnds
<1>13. ClosedEmpty'
  BY <1>1, <1>6 DEF IdsInv, ClosedEmpty, clientVars
<1> QED BY <1>9, <1>10, <1>11, <1>12, <1>13 DEF IdsInv

(* The server takes an id of its own for a new object: it was free.        *)
TakesServerId(id) ==
    \/ /\ serverRecycled # <<>> /\ id = Head(serverRecycled)
       /\ serverRecycled' = Tail(serverRecycled) /\ UNCHANGED nextId
    \/ /\ serverRecycled = <<>> /\ id = nextId
       /\ nextId' = nextId + 1 /\ UNCHANGED serverRecycled

LEMMA OfferServerIds ==
  ASSUME Typed, ServerIdsInv, NEW id \in ServerIds, Len(kind) < MaxObjects, TakesServerId(id),
         kind' = Append(kind, "offer"), resources' = [resources EXCEPT ![id] = Len(kind')]
  PROVE  /\ ServerIdsInv' /\ resources[id] = None
         /\ serverRecycled' \in Seq(ServerIds) /\ nextId' \in ServerIdBase .. MaxServerId + 1
<1>1. /\ serverRecycled \in Seq(ServerIds) /\ nextId \in ServerIdBase .. MaxServerId + 1 /\ nextId \in Nat
      /\ id \in Nat /\ id \in Ids /\ id >= ServerIdBase /\ id <= MaxServerId /\ ServerIdBase \in Nat /\ MaxServerId \in Nat
  BY ObjectIdsAssumption, IdFacts DEF Typed, TypeOK
<1>2. PICK new : new = Len(kind')
  OBVIOUS
<1>3. /\ new \notin Objects /\ new # None /\ kind'[new] = "offer"
      /\ \A obj \in Objects : kind'[obj] = kind[obj]
  <2>1. "offer" \in Kinds
    BY DEF Kinds
  <2> QED BY <1>2, <2>1, KindGrows
<1>4. \A x \in Ids : resources'[x] = IF x = id THEN new ELSE resources[x]
  BY <1>2 DEF Typed, TypeOK
<1>5. \A x \in Ids : x # id /\ resources'[x] # None =>
        resources[x] # None /\ resources'[x] = resources[x] /\ kind'[resources'[x]] = kind[resources[x]]
  BY <1>3, <1>4, TypeFacts
<1>6. \A x \in ClientIds : resources'[x] # None => kind'[resources'[x]] \in {"object", "callback"}
  BY ZenonT(60), <1>5, IdFacts DEF ServerIdsInv
<1>7. \A x \in ServerIds : resources'[x] # None => kind'[resources'[x]] = "offer" /\ (x # id => x < nextId)
  BY ZenonT(60), <1>3, <1>4, <1>5, IdFacts DEF ServerIdsInv
<1>8. \A x \in ServerIdBase .. nextId - 1 : x \in Ids
  BY <1>1 DEF Ids, ServerIds
<1>9. CASE /\ serverRecycled # <<>> /\ id = Head(serverRecycled)
           /\ serverRecycled' = Tail(serverRecycled) /\ UNCHANGED nextId
  <2>1. /\ 1 \in DOMAIN serverRecycled /\ id = serverRecycled[1]
        /\ serverRecycled' \in Seq(ServerIds)
        /\ \A k \in DOMAIN serverRecycled' :
            k \in Nat /\ k + 1 \in DOMAIN serverRecycled /\ serverRecycled'[k] = serverRecycled[k + 1]
        /\ \A k \in DOMAIN serverRecycled :
            k \in Nat /\ (k # 1 => k - 1 \in DOMAIN serverRecycled' /\ serverRecycled'[k - 1] = serverRecycled[k])
    BY SMTT(40), <1>1, <1>9, TailOf
  <2>2. resources[id] = None /\ id < nextId
    BY <2>1 DEF ServerIdsInv
  <2>3. ASSUME NEW i \in DOMAIN serverRecycled'
        PROVE  /\ serverRecycled'[i] \in Ids /\ serverRecycled'[i] # id
               /\ resources'[serverRecycled'[i]] = None /\ serverRecycled'[i] < nextId
    <3>1. i # 0
      BY <2>1
    <3>2. i + 1 # 1 /\ i + 1 \in DOMAIN serverRecycled /\ serverRecycled'[i] = serverRecycled[i + 1]
      BY <2>1, <3>1
    <3>3. serverRecycled[i + 1] # id
      BY <2>1, <3>2 DEF ServerIdsInv
    <3>4. resources[serverRecycled[i + 1]] = None /\ serverRecycled[i + 1] < nextId
      BY <3>2 DEF ServerIdsInv
    <3>5. serverRecycled[i + 1] \in Ids
      BY <1>1, <3>2, IdFacts
    <3> QED BY <1>4, <3>2, <3>3, <3>4, <3>5
  <2>4. ASSUME NEW i \in DOMAIN serverRecycled', NEW j \in DOMAIN serverRecycled',
               serverRecycled'[i] = serverRecycled'[j]
        PROVE  i = j
    <3>1. i + 1 = j + 1
      BY <2>1, <2>4 DEF ServerIdsInv
    <3> QED BY <2>1, <3>1
  <2>5. ASSUME NEW x \in ServerIdBase .. nextId - 1
        PROVE  resources'[x] # None \/ \E i \in DOMAIN serverRecycled' : serverRecycled'[i] = x
    <3>1. CASE x = id
      BY <1>1, <1>3, <1>4, <3>1
    <3>2. CASE x # id
      <4>1. resources'[x] = resources[x]
        BY <1>4, <1>8, <3>2
      <4>2. resources[x] # None \/ \E i \in DOMAIN serverRecycled : serverRecycled[i] = x
        BY DEF ServerIdsInv
      <4>3. ASSUME NEW i \in DOMAIN serverRecycled, serverRecycled[i] = x
            PROVE  \E j \in DOMAIN serverRecycled' : serverRecycled'[j] = x
        <5>1. i # 1
          BY <2>1, <3>2, <4>3
        <5> QED BY <2>1, <4>3, <5>1
      <4> QED BY <4>1, <4>2, <4>3
    <3> QED BY <3>1, <3>2
  <2>6. ServerIdsInv'
    BY ZenonT(60), <1>6, <1>7, <1>9, <2>2, <2>3, <2>4, <2>5 DEF ServerIdsInv
  <2> QED BY <1>1, <1>9, <2>1, <2>2, <2>6
<1>10. CASE /\ serverRecycled = <<>> /\ id = nextId
            /\ nextId' = nextId + 1 /\ UNCHANGED serverRecycled
  <2>1. resources[id] = None
    BY <1>1, <1>10 DEF ServerIdsInv
  <2>2. nextId' \in ServerIdBase .. MaxServerId + 1
    BY <1>1, <1>10
  <2>3. \A x \in ServerIds : resources'[x] # None => kind'[resources'[x]] = "offer" /\ x < nextId'
    <3>1. \A x \in ServerIds : x < nextId => x < nextId'
      BY <1>1, <1>10, IdFacts
    <3>2. id < nextId'
      BY <1>1, <1>10
    <3> QED BY <1>7, <3>1, <3>2
  <2>4. DOMAIN serverRecycled = {}
    BY <1>10
  <2>5. ASSUME NEW x \in ServerIdBase .. nextId' - 1
        PROVE  resources'[x] # None
    <3>1. CASE x = id
      BY <1>1, <1>3, <1>4, <3>1
    <3>2. CASE x # id
      <4>1. x \in ServerIdBase .. nextId - 1
        BY <1>1, <1>10, <3>2
      <4>2. resources[x] # None
        BY <2>4, <4>1 DEF ServerIdsInv
      <4> QED BY <1>4, <1>8, <3>2, <4>1, <4>2
    <3> QED BY <3>1, <3>2
  <2>6. ServerIdsInv'
    BY <1>6, <1>10, <2>3, <2>4, <2>5 DEF ServerIdsInv
  <2> QED BY <1>1, <1>10, <2>1, <2>2, <2>6
<1> QED BY <1>9, <1>10 DEF TakesServerId

LEMMA OfferKeeps ==
  ASSUME IdsInv, ServerOffer
  PROVE  IdsInv'
<1>1. /\ Typed /\ ~serverClosed /\ CreatesFresh /\ RequestsMeet /\ DestroysLast /\ ServerIdsInv
      /\ Len(kind) < MaxObjects /\ UNCHANGED <<clientVars, serverClosed, toServer>>
  BY DEF IdsInv, ServerInv, ServerOffer
<1>2. PICK id \in ServerIds :
        /\ \/ /\ serverRecycled # <<>>
              /\ id = Head(serverRecycled)
              /\ serverRecycled' = Tail(serverRecycled)
              /\ UNCHANGED nextId
           \/ /\ serverRecycled = <<>>
              /\ id = nextId
              /\ nextId' = nextId + 1
              /\ UNCHANGED serverRecycled
        /\ kind' = Append(kind, "offer")
        /\ resources' = [resources EXCEPT ![id] = Len(kind')]
        /\ toClient' = Append(toClient, [op |-> "offer", id |-> id, obj |-> Len(kind')])
  BY DEF ServerOffer
<1>3. /\ ServerIdsInv' /\ resources[id] = None
      /\ serverRecycled' \in Seq(ServerIds) /\ nextId' \in ServerIdBase .. MaxServerId + 1
  BY <1>1, <1>2, OfferServerIds DEF TakesServerId
<1>4. PICK new : new = Len(kind')
  OBVIOUS
<1>5. /\ KindTyped' /\ new = Len(kind) + 1 /\ Len(kind) \in Nat /\ new \in Nat
      /\ new \in Objects' /\ new \notin Objects /\ new # None
      /\ new \in 1 .. MaxObjects /\ kind'[new] = "offer"
      /\ \A obj \in Objects : obj \in Objects' /\ kind'[obj] = kind[obj]
      /\ \A obj \in Objects' : obj = new \/ obj \in Objects
      /\ ClientTyped'
  <2>1. "offer" \in Kinds
    BY DEF Kinds
  <2> QED BY <1>1, <1>2, <1>4, <2>1, KindGrows
<1>6. id \in Ids /\ \A x \in Ids : resources'[x] = IF x = id THEN new ELSE resources[x]
  BY <1>1, <1>2, <1>4, IdFacts DEF Typed, TypeOK
<1>7. PICK m : m = [op |-> "offer", id |-> id, obj |-> new]
  OBVIOUS
<1>8. m \in Event /\ m.op = "offer" /\ m.id = id /\ m.obj = new
  <2>1. new \in 0 .. MaxObjects
    BY <1>5
  <2> QED BY <1>1, <1>6, <1>7, <2>1, EventMessage
<1>9. toClient' = Append(toClient, m) /\ toClient \in Seq(Event)
  BY <1>1, <1>2, <1>4, <1>7, ToClientFacts
<1>10. Range(toClient') = Range(toClient) \cup {m}
  BY <1>8, <1>9, RangeChanges
<1>11. Typed'
  <2>1. Queue(toServer, Request, 1, Len(kind)) /\ Queue(toClient, Event, 0, Len(kind))
    BY <1>1, QueuesTyped
  <2>2. 0 \in Nat /\ 1 \in Nat /\ Len(kind) <= new /\ m.obj \in 0 .. new
    BY <1>5, <1>8
  <2>3. Queue(toServer', Request, 1, Len(kind'))
    <3>1. Queue(toServer, Request, 1, new)
      BY <1>5, <2>1, <2>2, QueueChanges
    <3> QED BY <1>1, <1>4, <3>1
  <2>4. Queue(Append(toClient, m), Event, 0, new)
    BY <1>5, <1>8, <2>1, <2>2, QueueChanges
  <2>5. Queue(toClient', Event, 0, Len(kind'))
    BY <1>4, <1>9, <2>4
  <2>6. resources \in [Ids -> 0 .. new] /\ new \in 0 .. new
    BY <1>1, <1>5, TypedParts DEF ServerTyped
  <2>7. resources' \in [Ids -> 0 .. new]
    BY <1>2, <1>4, <2>6
  <2>8. ServerTyped'
    BY <1>1, <1>3, <1>4, <2>7, TypedParts DEF ServerTyped
  <2> QED BY <1>5, <2>3, <2>5, <2>8, TypedNext
<1>12. /\ \A r \in Range(toServer) : r.id # id
       /\ \A obj : Alive(id, obj) => obj = None
  <2>1. \A obj : Alive(id, obj) => obj = None
    BY <1>1, <1>3, SentFacts
  <2>2. \A r \in Range(toServer) : Alive(r.id, r.obj) /\ r.obj # None
    BY <1>1, SentFacts, TypeFacts
  <2> QED BY <2>1, <2>2
<1>13. ServerInv'
  <2>1. \A k \in DOMAIN toServer : toServer[k] \in Range(toServer)
    BY DEF Range
  <2>2. \A k \in DOMAIN toServer : resources'[toServer[k].id] = resources[toServer[k].id]
    BY <1>1, <1>6, <1>12, <2>1, ToServerFacts
  <2>3. \A k \in DOMAIN toServer : kind'[toServer[k].obj] = kind[toServer[k].obj]
    BY <1>1, <1>5, ToServerFacts
  <2>4. CreatesFresh'
    BY <1>1, <2>2, <2>3 DEF CreatesFresh
  <2>5. RequestsMeet'
    BY <1>1, <2>2, <2>3 DEF RequestsMeet
  <2>6. DestroysLast'
    BY <1>1 DEF DestroysLast
  <2> QED BY <1>3, <2>4, <2>5, <2>6 DEF ServerInv
<1>14. ~clientClosed => /\ AliveInUse /\ ProxiesAlive /\ OffersUnknown /\ NoneForgotten
                        /\ ClientIdsInv /\ AllFit(toClient)
  BY <1>1 DEF IdsInv, LinkInv, ClientInv
<1>15. ~clientClosed => /\ proxies[id] = None
                        /\ \A e \in Range(toClient) : e.op = "offer" => e.id # id
  <2> SUFFICES ASSUME ~clientClosed
               PROVE  /\ proxies[id] = None
                      /\ \A e \in Range(toClient) : e.op = "offer" => e.id # id
    OBVIOUS
  <2>1. proxies[id] # None => Alive(id, proxies[id])
    BY <1>2, <1>6, <1>14 DEF ClientIdsInv, ProxiesAlive
  <2>2. \A e \in Range(toClient) : e.op = "offer" => resources[e.id] = e.obj /\ e.obj # None
    BY <1>1, <1>14, PostedFacts DEF OffersUnknown
  <2> QED BY <1>3, <1>12, <2>1, <2>2
<1>16. ClientInv'
  <2> SUFFICES ASSUME ~clientClosed
               PROVE  (ClientIdsInv /\ AllFit(toClient))'
    BY <1>1 DEF ClientInv, clientVars
  <2>1. SameClient
    BY <1>1, <1>5 DEF SameClient, clientVars
  <2>2. ClientIdsInv'
    BY <1>1, <1>14, <2>1, SameClientIds
  <2>3. PICK q, r : q = toClient /\ r = toClient'
    OBVIOUS
  <2>4. Extends(r, q, m)
    BY <1>8, <1>9, <2>3, BeforeAppended
  <2>5. \A n, before : IsMessage(n) /\ Fits(n, before) => Fits(n, before)'
    BY <2>1, SameClientFits
  <2>6. \A k \in DOMAIN q : Fits(q[k], Before(q, k)) /\ IsMessage(q[k])
    BY <1>1, <1>14, <2>3, MessagesKnown DEF AllFit
  <2>7. \A k \in DOMAIN q : Fits(q[k], Before(q, k))'
    BY <2>5, <2>6
  <2>8. \A k \in DOMAIN q : Fits(r[k], Before(r, k))'
    BY <2>4, <2>7 DEF Extends
  <2>9. PICK posted : posted = Range(q)
    OBVIOUS
  <2>10. OfferFits(m, posted)'
    <3>1. \A e \in posted : e.id = m.id => e.op # "offer"
      BY <1>8, <1>15, <2>3, <2>9
    <3>2. proxies'[m.id] = None
      BY <1>1, <1>8, <1>15 DEF clientVars
    <3> QED BY <1>2, <1>5, <1>8, <3>1, <3>2 DEF OfferFits
  <2>11. Fits(m, posted)'
    BY <1>8, <2>10 DEF Fits
  <2>12. Fits(r[Len(r)], Before(r, Len(r)))'
    BY <2>4, <2>9, <2>11 DEF Extends
  <2>13. \A k \in DOMAIN r : Fits(r[k], Before(r, k))'
    BY <2>4, <2>8, <2>12 DEF Extends
  <2>14. AllFit(toClient)'
    BY <2>3, <2>13 DEF AllFit
  <2> QED BY <2>2, <2>14
<1>17. LinkInv'
  <2> SUFFICES ASSUME ~clientClosed
               PROVE  (AliveInUse /\ ProxiesAlive /\ OffersUnknown /\ NoneForgotten)'
    BY <1>1 DEF LinkInv, clientVars
  <2>1. UNCHANGED <<proxies, recycledIds, lastId, fired, lost>>
    BY <1>1 DEF clientVars
  <2>2. \A x : Taken(x)' <=> Taken(x)
    BY <2>1 DEF Taken, Waits
  <2>3. \A x, obj : CreateComes(x, obj)' <=> CreateComes(x, obj)
    BY <1>1 DEF CreateComes
  <2>4. \A x \in Ids : \A obj : x # id => (Alive(x, obj)' <=> Alive(x, obj))
    BY <1>6, <2>3 DEF Alive
  <2>5. \A x \in ClientIds : x \in Ids /\ x # id
    BY <1>2, IdFacts
  <2>6. \A x \in ClientIds : ~Alive(x, new)
    <3>1. \A x \in ClientIds : resources[x] # new
      BY <1>1, <1>5, <2>5, TypeFacts
    <3> QED BY <1>1, <1>5, <3>1, SentFacts DEF Alive
  <2>7. ASSUME NEW x \in ClientIds, NEW obj \in Objects', Alive(x, obj)'
        PROVE  /\ Taken(x) /\ x \notin lost
               /\ proxies[x] \in {None, obj}
               /\ kind'[obj] # "object" => proxies[x] = obj /\ obj \notin fired
               /\ \A e \in Range(toClient') : e.op \in {"done", "delete_id"} => e.id # x
    <3>1. Alive(x, obj) /\ obj \in Objects
      BY <1>5, <2>4, <2>5, <2>6, <2>7
    <3>2. /\ Taken(x) /\ x \notin lost
          /\ proxies[x] \in {None, obj}
          /\ kind[obj] # "object" => proxies[x] = obj /\ obj \notin fired
          /\ \A e \in Range(toClient) : e.op \in {"done", "delete_id"} => e.id # x
      BY <1>14, <3>1 DEF AliveInUse
    <3> QED BY <1>5, <1>8, <1>10, <3>1, <3>2
  <2>8. AliveInUse'
    BY <2>1, <2>2, <2>7 DEF AliveInUse
  <2>9. ProxiesAlive'
    <3> SUFFICES ASSUME NEW x \in Ids, proxies[x] # None, kind'[proxies[x]] \in {"object", "offer"}
                 PROVE  /\ (Alive(x, proxies[x]))'
                        /\ \A r \in Range(toServer) : r.op = "destroy" => r.id # x
      BY <1>1, <2>1 DEF ProxiesAlive
    <3>1. x # id /\ kind[proxies[x]] \in {"object", "offer"}
      BY <1>1, <1>5, <1>15, TypeFacts
    <3>2. Alive(x, proxies[x]) /\ \A r \in Range(toServer) : r.op = "destroy" => r.id # x
      BY <1>14, <3>1 DEF ProxiesAlive
    <3>3. \A o : Alive(x, o) => Alive(x, o)'
      BY <2>4, <3>1
    <3>4. (Alive(x, proxies[x]))'
      BY <2>1, <3>2, <3>3
    <3> QED BY <3>2, <3>4
  <2>10. OffersUnknown'
    <3> SUFFICES ASSUME NEW e \in Range(toClient'), e.op = "offer"
                 PROVE  resources'[e.id] = e.obj /\ \A r \in Range(toServer) : r.id # e.id
      BY <1>1 DEF OffersUnknown
    <3>1. CASE e = m
      BY <1>6, <1>8, <1>12, <3>1
    <3>2. CASE e # m
      <4>1. e \in Range(toClient) /\ e.id \in Ids /\ e.id # id
        BY <1>1, <1>10, <1>14, <1>15, <3>2, PostedFacts
      <4> QED BY <1>6, <1>14, <4>1 DEF OffersUnknown
    <3> QED BY <3>1, <3>2
  <2>11. NoneForgotten'
    <3> SUFFICES ASSUME NEW x \in 2 .. lastId
                 PROVE  \/ \E obj \in Objects' : Alive(x, obj)'
                        \/ x \in lost
                        \/ \E e \in Range(toClient') : e.op = "delete_id" /\ e.id = x
                        \/ Waits(x)'
      BY <2>1 DEF NoneForgotten
    <3>1. x \in ClientIds
      BY <1>1, ObjectIdsAssumption DEF Typed, TypeOK, ClientIds
    <3>2. \/ \E obj \in Objects : Alive(x, obj)
          \/ x \in lost
          \/ \E e \in Range(toClient) : e.op = "delete_id" /\ e.id = x
          \/ Waits(x)
      BY <1>14 DEF NoneForgotten
    <3>3. Waits(x) => Waits(x)'
      BY <2>1 DEF Waits
    <3> QED BY <1>5, <1>10, <2>4, <2>5, <3>1, <3>2, <3>3
  <2> QED BY <2>8, <2>9, <2>10, <2>11
<1>18. ClosedEmpty'
  BY <1>1 DEF IdsInv, ClosedEmpty, clientVars
<1> QED BY <1>11, <1>13, <1>16, <1>17, <1>18 DEF IdsInv

LEMMA ServerCloseKeeps ==
  ASSUME IdsInv, ServerClose
  PROVE  IdsInv'
BY ServerStops DEF ServerClose

-----------------------------------------------------------------------------
LEMMA IdsStart ==
  ASSUME Init
  PROVE  IdsInv
<1>1. /\ kind = <<>> /\ toServer = <<>> /\ toClient = <<>> /\ recycledIds = <<>> /\ serverRecycled = <<>>
      /\ lastId = 1 /\ fired = {} /\ lost = {} /\ nextId = ServerIdBase
      /\ proxies = [i \in Ids |-> None] /\ resources = [i \in Ids |-> None]
      /\ clientClosed = FALSE /\ serverClosed = FALSE
  BY DEF Init
<1>2. /\ DOMAIN toServer = {} /\ DOMAIN toClient = {} /\ DOMAIN recycledIds = {} /\ DOMAIN serverRecycled = {}
      /\ Len(kind) = 0 /\ Objects = {} /\ 2 .. lastId = {} /\ ServerIdBase .. nextId - 1 = {}
  BY <1>1, ObjectIdsAssumption DEF Objects
<1>3. Typed
  <2>1. proxies \in [Ids -> 0 .. Len(kind)] /\ resources \in [Ids -> 0 .. Len(kind)]
    BY <1>1, <1>2 DEF None
  <2>2. /\ kind \in Seq(Kinds) /\ recycledIds \in Seq(ClientIds) /\ serverRecycled \in Seq(ServerIds)
        /\ toServer \in Seq(Request) /\ toClient \in Seq(Event)
    BY <1>1
  <2>3. Len(kind) <= MaxObjects /\ lastId \in 1 .. MaxClientId /\ nextId \in ServerIdBase .. MaxServerId + 1
    BY <1>1, <1>2, ObjectIdsAssumption
  <2> QED BY <1>1, <1>2, <2>1, <2>2, <2>3 DEF Typed, TypeOK
<1>4. \A id \in Ids : proxies[id] = None /\ resources[id] = None
  BY <1>1
<1>5. ServerInv
  BY <1>2, <1>4, IdFacts DEF ServerInv, CreatesFresh, RequestsMeet, DestroysLast, ServerIdsInv
<1>6. ClientInv
  <2>1. ClientIdsInv
    BY <1>1, <1>2, <1>4, IdFacts DEF ClientIdsInv
  <2>2. AllFit(toClient)
    BY <1>2 DEF AllFit
  <2> QED BY <2>1, <2>2 DEF ClientInv
<1>7. LinkInv
  <2>1. Range(toClient) = {}
    BY <1>2 DEF Range
  <2> QED BY <1>2, <1>4, <2>1 DEF LinkInv, AliveInUse, ProxiesAlive, OffersUnknown, NoneForgotten
<1>8. ClosedEmpty
  BY <1>1 DEF ClosedEmpty
<1> QED BY <1>3, <1>5, <1>6, <1>7, <1>8 DEF IdsInv

LEMMA IdsStep ==
  ASSUME IdsInv, [Next]_vars
  PROVE  IdsInv'
<1>1. CASE UNCHANGED vars
  <2>1. UNCHANGED <<kind, clientVars, serverVars, toServer, toClient>>
    BY <1>1 DEF vars
  <2>2. /\ UNCHANGED <<kind, proxies, recycledIds, lastId, fired, lost, clientClosed>>
        /\ UNCHANGED <<resources, serverRecycled, nextId, serverClosed, toServer, toClient>>
    BY <2>1 DEF clientVars, serverVars
  <2>3. Typed /\ ServerInv /\ ClientInv /\ LinkInv /\ ClosedEmpty
    BY DEF IdsInv
  <2>4. Typed'
    BY <2>2, <2>3 DEF Typed, TypeOK, Objects
  <2>5. ServerInv'
    BY <2>1, <2>3, ServerKeeps DEF SameServer
  <2>6. ClientInv'
    <3>1. \A k \in DOMAIN toClient : IsMessage(toClient[k])
      BY <2>3, MessagesKnown
    <3>2. SameClient
      BY <2>2 DEF SameClient
    <3>3. ~clientClosed => AllFit(toClient)
      BY <2>3 DEF ClientInv
    <3> QED BY <2>2, <2>3, <3>1, <3>2, <3>3, ClientGets
  <2>7. LinkInv'
    BY <2>2, <2>3 DEF LinkInv, AliveInUse, ProxiesAlive, OffersUnknown, NoneForgotten, Alive, CreateComes,
                      Taken, Waits, Objects
  <2>8. ClosedEmpty'
    BY <2>2, <2>3 DEF ClosedEmpty
  <2> QED BY <2>4, <2>5, <2>6, <2>7, <2>8 DEF IdsInv
<1>2. CASE ClientApp
  BY <1>2, CreateKeeps, DestroyKeeps, DestroyCallbackKeeps, RequestKeeps, ClientStops DEF ClientApp
<1>3. CASE ClientDispatch
  BY <1>3, ReceivesEventKeeps, ReceivesDoneKeeps, ReceivesOfferKeeps, ReceivesDeleteIdKeeps, ClientStops
     DEF ClientDispatch
<1>4. CASE ServerDispatch
  BY <1>4, ReceivesCreateKeeps, ReceivesDestroyKeeps, ReceivesRequestKeeps DEF ServerDispatch
<1>5. CASE ServerApp
  BY <1>5, ServerEventKeeps, FiresCallbackKeeps, OfferKeeps, ServerCloseKeeps DEF ServerApp
<1> QED BY <1>1, <1>2, <1>3, <1>4, <1>5 DEF Next

(* The two ends and the messages between them always fit: IdsInv holds in  *)
(* every state, whatever the runtimes' order of creating, destroying,      *)
(* answering, offering and closing.                                        *)
THEOREM IdsInvariant == Spec => []IdsInv
<1>1. Init => IdsInv
  BY IdsStart
<1>2. IdsInv /\ [Next]_vars => IdsInv'
  BY IdsStep
<1> QED BY <1>1, <1>2, PTL DEF Spec

(* A request always finds at the server the very object that the client    *)
(* sent it to, and a constructor request a free id.                        *)
THEOREM ServerFinds == Spec => []ServerFindsObject
<1>1. ASSUME IdsInv
      PROVE  ServerFindsObject
  <2> SUFFICES ASSUME ~serverClosed, toServer # <<>>, NEW m, m = Head(toServer)
               PROVE  resources[m.id] = IF m.op = "create" THEN None ELSE m.obj
    BY DEF ServerFindsObject
  <2>1. Typed /\ CreatesFresh /\ RequestsMeet
    BY <1>1 DEF IdsInv, ServerInv
  <2>2. toServer \in Seq(Request)
    BY <2>1, ToServerFacts
  <2>3. 1 \in DOMAIN toServer /\ m = toServer[1] /\ \A j \in DOMAIN toServer : ~(j < 1)
    BY <2>2
  <2> QED BY <2>1, <2>3 DEF CreatesFresh, RequestsMeet
<1> QED BY <1>1, IdsInvariant, PTL

(* An event never reaches another object than the one the server meant,    *)
(* although ids are reused and both ends act before they hear of the       *)
(* other.                                                                  *)
THEOREM ClientFinds == Spec => []ClientFindsObject
<1>1. ASSUME IdsInv
      PROVE  ClientFindsObject
  <2> SUFFICES ASSUME ~clientClosed, toClient # <<>>, NEW m, m = Head(toClient)
               PROVE  /\ m.op = "event" => proxies[m.id] \in {None, m.obj}
                      /\ m.op = "done" => proxies[m.id] = m.obj
                      /\ m.op = "offer" => proxies[m.id] = None
    BY DEF ClientFindsObject
  <2>1. Typed /\ AllFit(toClient)
    BY <1>1 DEF IdsInv, ClientInv
  <2>2. toClient \in Seq(Event)
    BY <2>1, ToClientFacts
  <2>3. Fits(m, {})
    BY <2>1, <2>2, FitTail
  <2> QED BY <2>3 DEF Fits, EventFits, DoneFits, OfferFits
<1> QED BY <1>1, IdsInvariant, PTL

-----------------------------------------------------------------------------
LEMMA CountsOnce ==
  ASSUME NEW S, \A x, y \in S : x = y
  PROVE  Cardinality(S) = IF S = {} THEN 0 ELSE 1
<1>1. CASE S = {}
  BY <1>1, FS_EmptySet
<1>2. CASE S # {}
  <2>1. PICK x : x \in S
    BY <1>2
  <2>2. S = {x}
    BY <2>1
  <2> QED BY <1>2, <2>2, FS_Singleton
<1> QED BY <1>1, <1>2

(* While both ends are open an id that the client handed out is in exactly *)
(* one place.                                                              *)
LEMMA ClientIdOnce ==
  ASSUME IdsInv, ~clientClosed, ~serverClosed, NEW id \in 2 .. lastId
  PROVE  1 = (IF resources[id] # None THEN 1 ELSE 0)
             + (IF id \in lost THEN 1 ELSE 0)
             + Count(toServer, LAMBDA m : m.op = "create" /\ m.id = id)
             + Count(toClient, LAMBDA m : m.op = "delete_id" /\ m.id = id)
             + Count(recycledIds, LAMBDA i : i = id)
<1>1. /\ Typed /\ CreatesFresh /\ RequestsMeet /\ ClientIdsInv /\ AllFit(toClient)
      /\ AliveInUse /\ NoneForgotten
  BY DEF IdsInv, ServerInv, ClientInv, LinkInv
<1>2. id \in ClientIds /\ id \in Ids
  BY <1>1, ObjectIdsAssumption DEF Typed, TypeOK, ClientIds, Ids
<1>3. PICK A : A = {i \in DOMAIN toServer : toServer[i].op = "create" /\ toServer[i].id = id}
  OBVIOUS
<1>4. PICK B : B = {i \in DOMAIN toClient : toClient[i].op = "delete_id" /\ toClient[i].id = id}
  OBVIOUS
<1>5. PICK C : C = {i \in DOMAIN recycledIds : recycledIds[i] = id}
  OBVIOUS
<1>6. \A x, y \in A : x = y
  <2> SUFFICES ASSUME NEW x \in A, NEW y \in A, x # y
               PROVE  FALSE
    OBVIOUS
  <2>1. x \in Nat /\ y \in Nat /\ x \in DOMAIN toServer /\ y \in DOMAIN toServer
    BY <1>1, <1>3, ToServerFacts
  <2>2. x < y \/ y < x
    BY <2>1
  <2> QED BY <1>1, <1>3, <2>1, <2>2 DEF CreatesFresh
<1>7. \A x \in B : DeleteFits(toClient[x], Before(toClient, x))
  BY <1>1, <1>4 DEF AllFit, Fits
<1>8. \A x, y \in B : x = y
  <2> SUFFICES ASSUME NEW x \in B, NEW y \in B, x # y
               PROVE  FALSE
    OBVIOUS
  <2>1. x \in Nat /\ y \in Nat /\ x \in DOMAIN toClient /\ y \in DOMAIN toClient
    BY <1>1, <1>4, ToClientFacts
  <2>2. ASSUME NEW v \in B, NEW w \in B, v < w
        PROVE  FALSE
    <3>1. v \in DOMAIN toClient /\ toClient[v].op = "delete_id" /\ toClient[v].id = toClient[w].id
      BY <1>4
    <3>2. toClient[v] \in Before(toClient, w)
      BY <2>2, <3>1 DEF Before
    <3> QED BY <1>7, <3>1, <3>2 DEF DeleteFits
  <2>3. x < y \/ y < x
    BY <2>1
  <2> QED BY <2>2, <2>3
<1>9. \A x, y \in C : x = y
  BY <1>1, <1>5 DEF ClientIdsInv
<1>10. /\ Count(toServer, LAMBDA m : m.op = "create" /\ m.id = id) = IF A = {} THEN 0 ELSE 1
       /\ Count(toClient, LAMBDA m : m.op = "delete_id" /\ m.id = id) = IF B = {} THEN 0 ELSE 1
       /\ Count(recycledIds, LAMBDA i : i = id) = IF C = {} THEN 0 ELSE 1
  <2>1. Cardinality(A) = IF A = {} THEN 0 ELSE 1
    BY <1>6, CountsOnce
  <2>2. Cardinality(B) = IF B = {} THEN 0 ELSE 1
    BY <1>8, CountsOnce
  <2>3. Cardinality(C) = IF C = {} THEN 0 ELSE 1
    BY <1>9, CountsOnce
  <2>4. Count(toServer, LAMBDA m : m.op = "create" /\ m.id = id) = Cardinality(A)
    BY <1>3 DEF Count
  <2>5. Count(toClient, LAMBDA m : m.op = "delete_id" /\ m.id = id) = Cardinality(B)
    BY <1>4 DEF Count
  <2>6. Count(recycledIds, LAMBDA i : i = id) = Cardinality(C)
    BY <1>5 DEF Count
  <2> QED BY <2>1, <2>2, <2>3, <2>4, <2>5, <2>6
<1>11. Waits(id) <=> C # {}
  BY <1>5 DEF Waits
<1>12. B # {} => Taken(id) /\ id \notin lost /\ \E e \in Range(toClient) : e.op = "delete_id" /\ e.id = id
  BY <1>4, <1>7 DEF DeleteFits, Range
<1>13. (\E e \in Range(toClient) : e.op = "delete_id" /\ e.id = id) => B # {}
  BY <1>4 DEF Range
<1>14. (\E obj \in Objects : CreateComes(id, obj)) <=> A # {}
  <2>1. ASSUME NEW obj \in Objects, CreateComes(id, obj)
        PROVE  A # {}
    BY <1>3, <2>1 DEF CreateComes, Range
  <2>2. ASSUME A # {}
        PROVE  \E obj \in Objects : CreateComes(id, obj)
    <3>1. PICK i \in DOMAIN toServer : toServer[i].op = "create" /\ toServer[i].id = id
      BY <1>3, <2>2
    <3>2. CreateComes(id, toServer[i].obj) /\ toServer[i].obj \in Objects
      BY <1>1, <3>1, ToServerFacts DEF CreateComes, Range
    <3> QED BY <3>2
  <2> QED BY <2>1, <2>2
<1>15. (\E obj \in Objects : Alive(id, obj)) <=> (resources[id] # None \/ A # {})
  <2>1. resources[id] # None => resources[id] \in Objects
    BY <1>1, <1>2, TypeFacts
  <2>2. \A obj \in Objects : obj # None
    BY <1>1, TypeFacts
  <2> QED BY <1>14, <2>1, <2>2 DEF Alive
<1>16. resources[id] # None => A = {}
  BY <1>1, <1>3 DEF CreatesFresh
<1>17. (\E obj \in Objects : Alive(id, obj)) => B = {} /\ C = {} /\ id \notin lost
  BY <1>1, <1>2, <1>11, <1>12 DEF AliveInUse, Taken
<1>18. id \in lost => B = {} /\ C = {}
  BY <1>1, <1>11, <1>12 DEF ClientIdsInv
<1>19. B # {} => C = {}
  BY <1>11, <1>12 DEF Taken
<1>20. resources[id] # None \/ A # {} \/ id \in lost \/ B # {} \/ C # {}
  BY <1>1, <1>11, <1>13, <1>15 DEF NoneForgotten
<1>21. \/ resources[id] # None /\ id \notin lost /\ A = {} /\ B = {} /\ C = {}
       \/ resources[id] = None /\ id \in lost /\ A = {} /\ B = {} /\ C = {}
       \/ resources[id] = None /\ id \notin lost /\ A # {} /\ B = {} /\ C = {}
       \/ resources[id] = None /\ id \notin lost /\ A = {} /\ B # {} /\ C = {}
       \/ resources[id] = None /\ id \notin lost /\ A = {} /\ B = {} /\ C # {}
  BY <1>12, <1>15, <1>16, <1>17, <1>18, <1>19, <1>20
<1> QED BY <1>10, <1>21

(* No id is lost and none is handed out twice: IdsConserved.               *)
THEOREM IdsKept == Spec => []IdsConserved
<1>1. ASSUME IdsInv
      PROVE  IdsConserved
  <2> SUFFICES ASSUME ~clientClosed, ~serverClosed
               PROVE  /\ \A id \in 2 .. lastId :
                          1 = (IF resources[id] # None THEN 1 ELSE 0)
                              + (IF id \in lost THEN 1 ELSE 0)
                              + Count(toServer, LAMBDA m : m.op = "create" /\ m.id = id)
                              + Count(toClient, LAMBDA m : m.op = "delete_id" /\ m.id = id)
                              + Count(recycledIds, LAMBDA i : i = id)
                      /\ \A id \in ServerIdBase .. nextId - 1 :
                          1 = (IF resources[id] # None THEN 1 ELSE 0)
                              + Count(serverRecycled, LAMBDA i : i = id)
                      /\ \A i \in DOMAIN recycledIds : proxies[recycledIds[i]] \in {None} \cup fired
    BY DEF IdsConserved
  <2>1. ServerIdsInv /\ ClientIdsInv
    BY <1>1 DEF IdsInv, ServerInv, ClientInv
  <2>2. ASSUME NEW id \in ServerIdBase .. nextId - 1
        PROVE  1 = (IF resources[id] # None THEN 1 ELSE 0)
                   + Count(serverRecycled, LAMBDA i : i = id)
    <3>1. PICK R : R = {i \in DOMAIN serverRecycled : serverRecycled[i] = id}
      OBVIOUS
    <3>2. \A x, y \in R : x = y
      BY <2>1, <3>1 DEF ServerIdsInv
    <3>3. Cardinality(R) = IF R = {} THEN 0 ELSE 1
      BY <3>2, CountsOnce
    <3>4. Count(serverRecycled, LAMBDA i : i = id) = Cardinality(R)
      BY <3>1 DEF Count
    <3>5. resources[id] # None <=> R = {}
      BY <2>1, <2>2, <3>1 DEF ServerIdsInv
    <3> QED BY <3>3, <3>4, <3>5
  <2>3. \A i \in DOMAIN recycledIds : proxies[recycledIds[i]] \in {None} \cup fired
    BY <2>1 DEF ClientIdsInv
  <2>4. \A id \in 2 .. lastId :
            1 = (IF resources[id] # None THEN 1 ELSE 0)
                + (IF id \in lost THEN 1 ELSE 0)
                + Count(toServer, LAMBDA m : m.op = "create" /\ m.id = id)
                + Count(toClient, LAMBDA m : m.op = "delete_id" /\ m.id = id)
                + Count(recycledIds, LAMBDA i : i = id)
    BY <1>1, ClientIdOnce
  <2> QED BY <2>2, <2>3, <2>4
<1> QED BY <1>1, IdsInvariant, PTL
=============================================================================
