----------------------------- MODULE ObjectIds ------------------------------
(***************************************************************************)
(* The life of protocol objects across one connection: the client runtime  *)
(* (Proxy and DisplayImpl of westfield-runtime-client.ts) and the server   *)
(* runtime (Resource and Client of westfield-runtime-server.ts) over the   *)
(* two directions of a message port.                                       *)
(*                                                                         *)
(* Both ends number objects with the same ids and reuse them: the client   *)
(* its own after delete_id, the server its own once the resource is gone.  *)
(* To tell the objects that carry an id apart, every object has a serial   *)
(* number here; messages carry the serial of the object they were sent to, *)
(* which the program does not see.                                         *)
(*                                                                         *)
(* Messages are handled one by one in order (module Connection). The       *)
(* display object, id 1, always exists and is left out.                    *)
(***************************************************************************)
EXTENDS Integers, Sequences, FiniteSets, SequencesExt

CONSTANTS
    MaxClientId,         \* bound: client ids are 2 .. MaxClientId
    ServerIdBase,        \* SERVER_OBJECT_ID_BASE, 0xff000000 in the code
    MaxServerId,         \* bound: server ids are ServerIdBase .. MaxServerId
    MaxObjects,          \* bound: objects created in all
    MaxInFlight          \* bound: messages in flight when an endpoint adds one freely

ASSUME ObjectIdsAssumption ==
    /\ MaxClientId \in Nat /\ MaxClientId >= 1
    /\ ServerIdBase \in Nat /\ ServerIdBase > MaxClientId
    /\ MaxServerId \in Nat /\ MaxServerId >= ServerIdBase
    /\ MaxObjects \in Nat
    /\ MaxInFlight \in Nat

VARIABLES
    kind,           \* kind of every object created so far, by serial number
    proxies,        \* client connection.wlObjects: serial registered for an id
    recycledIds,    \* DisplayImpl._recycledIds
    lastId,         \* DisplayImpl.lastId
    fired,          \* callbacks that are done and the client has not destroyed
    lost,           \* auxiliary: ids taken by a constructor that threw
    clientClosed,   \* closed of the client's connection
    resources,      \* server connection.wlObjects: serial registered for an id
    serverRecycled, \* Client.recycledIds
    nextId,         \* Client._nextId
    serverClosed,   \* closed of the server's connection
    toServer,       \* messages from client to server, oldest first
    toClient        \* messages from server to client, oldest first

clientVars == <<proxies, recycledIds, lastId, fired, lost, clientClosed>>
serverVars == <<resources, serverRecycled, nextId, serverClosed>>
vars == <<kind, clientVars, serverVars, toServer, toClient>>

(* No object; serial numbers start at 1.                                   *)
None == 0

ClientIds == 2 .. MaxClientId
ServerIds == ServerIdBase .. MaxServerId
Ids == ClientIds \cup ServerIds

(* "object": made by the client, which ends it with a destructor request.  *)
(* "callback": made by the client, ended by the server with a done event.  *)
(* "sync": a callback that the server ends as soon as it is made.          *)
(* "offer": made by the server, ended by the client's destructor request.  *)
Kinds == {"object", "callback", "sync", "offer"}

Request == [op : {"create", "destroy", "request"}, id : Ids, obj : 1 .. MaxObjects]
Event == [op : {"event", "done", "offer", "delete_id", "error"}, id : Ids, obj : 0 .. MaxObjects]

TypeOK ==
    /\ kind \in Seq(Kinds) /\ Len(kind) <= MaxObjects
    /\ proxies \in [Ids -> 0 .. Len(kind)]
    /\ recycledIds \in Seq(ClientIds)
    /\ lastId \in 1 .. MaxClientId
    /\ fired \subseteq 1 .. Len(kind)
    /\ lost \subseteq ClientIds
    /\ clientClosed \in BOOLEAN
    /\ resources \in [Ids -> 0 .. Len(kind)]
    /\ serverRecycled \in Seq(ServerIds)
    /\ nextId \in ServerIdBase .. MaxServerId + 1
    /\ serverClosed \in BOOLEAN
    /\ toServer \in Seq(Request)
    /\ toClient \in Seq(Event)

Init ==
    /\ kind = <<>>
    /\ proxies = [i \in Ids |-> None]
    /\ recycledIds = <<>>
    /\ lastId = 1
    /\ fired = {}
    /\ lost = {}
    /\ clientClosed = FALSE
    /\ resources = [i \in Ids |-> None]
    /\ serverRecycled = <<>>
    /\ nextId = ServerIdBase
    /\ serverClosed = FALSE
    /\ toServer = <<>>
    /\ toClient = <<>>

-----------------------------------------------------------------------------
(* Client: connection.close(). Messages marshalled but not yet flushed are *)
(* lost with it.                                                           *)
CloseClient ==
    /\ clientClosed' = TRUE
    /\ proxies' = [i \in Ids |-> None]
    /\ \E n \in 0 .. Len(toServer) : toServer' = SubSeq(toServer, 1, n)

(* DisplayImpl.generateNextId(): the id handed out and what is left.       *)
GenerateNextId(id) ==
    \/ /\ recycledIds # <<>>
       /\ id = Head(recycledIds)
       /\ recycledIds' = Tail(recycledIds)
       /\ UNCHANGED lastId
    \/ /\ recycledIds = <<>>
       /\ lastId < MaxClientId
       /\ id = lastId + 1
       /\ lastId' = id
       /\ UNCHANGED recycledIds

(* Proxy.marshallConstructor(): take an id, construct the proxy, which     *)
(* registers it, then marshal the request. Registration throws when the id *)
(* is taken: no proxy, no message, and the id is gone.                     *)
ClientCreate(k) ==
    /\ ~clientClosed
    /\ k # "offer"
    /\ Len(kind) < MaxObjects
    /\ \E id \in ClientIds :
        /\ GenerateNextId(id)
        /\ \/ /\ proxies[id] = None
              /\ kind' = Append(kind, k)
              /\ proxies' = [proxies EXCEPT ![id] = Len(kind')]
              /\ toServer' = Append(toServer, [op |-> "create", id |-> id, obj |-> Len(kind')])
              /\ UNCHANGED lost
           \/ /\ proxies[id] # None
              /\ lost' = lost \cup {id}
              /\ UNCHANGED <<kind, proxies, toServer>>
    /\ UNCHANGED <<fired, clientClosed, serverVars, toClient>>

(* Faulty variant of a destructor request: the id is reused without        *)
(* waiting for delete_id.                                                  *)
ClientDestroyReusesId(id) ==
    /\ proxies[id] # None
    /\ kind[proxies[id]] \in {"object", "offer"}
    /\ proxies' = [proxies EXCEPT ![id] = None]
    /\ recycledIds' = IF id \in ClientIds THEN Append(recycledIds, id) ELSE recycledIds
    /\ toServer' = Append(toServer, [op |-> "destroy", id |-> id, obj |-> proxies[id]])
    /\ UNCHANGED <<kind, lastId, fired, lost, clientClosed, serverVars, toClient>>

(* A destructor request: unregister the proxy, then marshal the request.   *)
ClientDestroy(id) ==
    /\ proxies[id] # None
    /\ kind[proxies[id]] \in {"object", "offer"}
    /\ proxies' = [proxies EXCEPT ![id] = None]
    /\ toServer' = Append(toServer, [op |-> "destroy", id |-> id, obj |-> proxies[id]])
    /\ UNCHANGED <<kind, recycledIds, lastId, fired, lost, clientClosed, serverVars, toClient>>

(* destroy() of a callback some time after its done event was handled.     *)
ClientDestroyCallback(id) ==
    /\ proxies[id] \in fired
    /\ proxies' = [proxies EXCEPT ![id] = None]
    /\ fired' = fired \ {proxies[id]}
    /\ UNCHANGED <<kind, recycledIds, lastId, lost, clientClosed, serverVars,
                   toServer, toClient>>

(* Any other request on a live proxy.                                      *)
ClientRequest(id) ==
    /\ Len(toServer) < MaxInFlight
    /\ proxies[id] # None
    /\ kind[proxies[id]] \in {"object", "offer"}
    /\ toServer' = Append(toServer, [op |-> "request", id |-> id, obj |-> proxies[id]])
    /\ UNCHANGED <<kind, clientVars, serverVars, toClient>>

(* Display.close() called by the application.                              *)
ClientClose ==
    /\ ~clientClosed
    /\ CloseClient
    /\ UNCHANGED <<kind, recycledIds, lastId, fired, lost, serverVars, toClient>>

ClientReceives(op) ==
    /\ ~clientClosed
    /\ toClient # <<>>
    /\ Head(toClient).op = op
    /\ toClient' = Tail(toClient)

(* A message the client cannot dispatch, or whose handler throws, closes   *)
(* the connection.                                                         *)
ClientFails ==
    /\ CloseClient
    /\ UNCHANGED <<kind, recycledIds, lastId, fired, lost, serverVars>>

(* An event: wlObjects is looked up by id; an unknown id is fatal.         *)
ClientReceivesEvent ==
    /\ ClientReceives("event")
    /\ \/ /\ proxies[Head(toClient).id] # None
          /\ UNCHANGED <<kind, clientVars, serverVars, toServer>>
       \/ /\ proxies[Head(toClient).id] = None
          /\ ClientFails

(* The done event of a callback. DisplayImpl.sync() destroys its callback  *)
(* at once, other listeners may leave that for later.                      *)
ClientReceivesDone ==
    LET id == Head(toClient).id
    IN  /\ ClientReceives("done")
        /\ \/ /\ proxies[id] # None
              /\ \/ /\ proxies' = [proxies EXCEPT ![id] = None]
                    /\ UNCHANGED fired
                 \/ /\ kind[proxies[id]] # "sync"
                    /\ fired' = fired \cup {proxies[id]}
                    /\ UNCHANGED proxies
              /\ UNCHANGED <<kind, recycledIds, lastId, lost, clientClosed, serverVars,
                             toServer>>
           \/ /\ proxies[id] = None
              /\ ClientFails

(* An event that carries a server-made object: its proxy is registered     *)
(* under the id in the message, which throws when the id is taken.         *)
ClientReceivesOffer ==
    LET m == Head(toClient)
    IN  /\ ClientReceives("offer")
        /\ \/ /\ proxies[m.id] = None
              /\ proxies' = [proxies EXCEPT ![m.id] = m.obj]
              /\ UNCHANGED <<kind, recycledIds, lastId, fired, lost, clientClosed, serverVars, toServer>>
           \/ /\ proxies[m.id] # None
              /\ ClientFails

ClientReceivesDeleteId ==
    /\ ClientReceives("delete_id")
    /\ recycledIds' = Append(recycledIds, Head(toClient).id)
    /\ UNCHANGED <<kind, proxies, lastId, fired, lost, clientClosed, serverVars, toServer>>

(* The error event: protocolError() closes; so does the exception when the *)
(* client no longer has the object the error is about.                     *)
ClientReceivesError ==
    /\ ClientReceives("error")
    /\ ClientFails

-----------------------------------------------------------------------------
(* Server: connection.close(), directly or at the end of Client.close().   *)
(* What was marshalled but not flushed is lost, the delete_id events of    *)
(* the resources it destroys with it. Nothing asks for an id afterwards,   *)
(* so the ids they add to recycledIds are left out.                        *)
CloseServer(queue) ==
    /\ serverClosed' = TRUE
    /\ resources' = [i \in Ids |-> None]
    /\ \E n \in 0 .. Len(queue) : toClient' = SubSeq(queue, 1, n)
    /\ UNCHANGED <<serverRecycled, nextId>>

(* Faulty variant of unregisterResource(): the resource stays registered.  *)
UnregisterResourceKeeps(id, queue) ==
    /\ toClient' = IF id < ServerIdBase
                   THEN Append(queue, [op |-> "delete_id", id |-> id, obj |-> None])
                   ELSE queue
    /\ UNCHANGED <<resources, serverRecycled, nextId, serverClosed>>

(* Faulty variant of unregisterResource(): no delete_id event.             *)
UnregisterResourceSilently(id, queue) ==
    /\ resources' = [resources EXCEPT ![id] = None]
    /\ toClient' = queue
    /\ serverRecycled' = IF id < ServerIdBase THEN serverRecycled ELSE Append(serverRecycled, id)
    /\ UNCHANGED <<nextId, serverClosed>>

(* Client.unregisterResource(): delete_id for a client id, recycling for a *)
(* server id. `queue` is what was marshalled before.                       *)
UnregisterResource(id, queue) ==
    /\ resources' = [resources EXCEPT ![id] = None]
    /\ \/ /\ id < ServerIdBase
          /\ toClient' = Append(queue, [op |-> "delete_id", id |-> id, obj |-> None])
          /\ UNCHANGED serverRecycled
       \/ /\ id >= ServerIdBase
          /\ toClient' = queue
          /\ serverRecycled' = Append(serverRecycled, id)
    /\ UNCHANGED <<nextId, serverClosed>>

ServerReceives(op) ==
    /\ ~serverClosed
    /\ toServer # <<>>
    /\ Head(toServer).op = op
    /\ toServer' = Tail(toServer)

(* A constructor request: the resource registers its id, which throws when *)
(* the id is taken. Client.sync() answers and ends its callback at once.   *)
ServerReceivesCreate ==
    LET m == Head(toServer)
    IN  /\ ServerReceives("create")
        /\ \/ /\ resources[m.id] # None
              /\ CloseServer(toClient)
           \/ /\ resources[m.id] = None
              /\ kind[m.obj] # "sync"
              /\ resources' = [resources EXCEPT ![m.id] = m.obj]
              /\ UNCHANGED <<serverRecycled, nextId, serverClosed, toClient>>
           \/ /\ resources[m.id] = None
              /\ kind[m.obj] = "sync"
              /\ UnregisterResource(m.id, Append(toClient, [op |-> "done", id |-> m.id, obj |-> m.obj]))
        /\ UNCHANGED <<kind, clientVars>>

(* A destructor request: its handler destroys the resource.                *)
ServerReceivesDestroy ==
    LET m == Head(toServer)
    IN  /\ ServerReceives("destroy")
        /\ \/ /\ resources[m.id] # None
              /\ UnregisterResource(m.id, toClient)
           \/ /\ resources[m.id] = None
              /\ CloseServer(toClient)
        /\ UNCHANGED <<kind, clientVars>>

(* Any other request. Its handler returns, posts a protocol error (error() *)
(* marshals, flushes and closes), or throws, which closes.                 *)
ServerReceivesRequest ==
    LET m == Head(toServer)
    IN  /\ ServerReceives("request")
        /\ \/ /\ resources[m.id] # None
              /\ UNCHANGED <<serverVars, toClient>>
           \/ /\ resources[m.id] # None
              /\ serverClosed' = TRUE
              /\ resources' = [i \in Ids |-> None]
              /\ toClient' = Append(toClient, [op |-> "error", id |-> m.id, obj |-> m.obj])
              /\ UNCHANGED <<serverRecycled, nextId>>
           \/ CloseServer(toClient)
        /\ UNCHANGED <<kind, clientVars>>

(* The compositor sends an event to a live resource.                       *)
ServerEvent(id) ==
    /\ Len(toClient) < MaxInFlight
    /\ resources[id] # None
    /\ kind[resources[id]] \in {"object", "offer"}
    /\ toClient' = Append(toClient, [op |-> "event", id |-> id, obj |-> resources[id]])
    /\ UNCHANGED <<kind, clientVars, serverVars, toServer>>

(* Faulty variant of firing a callback: destroy(), then done().            *)
ServerFiresCallbackLate(id) ==
    /\ resources[id] # None
    /\ kind[resources[id]] = "callback"
    /\ resources' = [resources EXCEPT ![id] = None]
    /\ toClient' = toClient \o <<[op |-> "delete_id", id |-> id, obj |-> None],
                                 [op |-> "done", id |-> id, obj |-> resources[id]]>>
    /\ UNCHANGED <<serverRecycled, nextId, serverClosed, kind, clientVars, toServer>>

(* The compositor fires a callback: done(), then destroy().                *)
ServerFiresCallback(id) ==
    /\ resources[id] # None
    /\ kind[resources[id]] = "callback"
    /\ UnregisterResource(id, Append(toClient, [op |-> "done", id |-> id, obj |-> resources[id]]))
    /\ UNCHANGED <<kind, clientVars, toServer>>

(* The compositor makes an object: Client.marshallConstructor() takes an   *)
(* id and marshals, then the resource is constructed.                      *)
ServerOffer ==
    /\ ~serverClosed
    /\ Len(toClient) < MaxInFlight
    /\ Len(kind) < MaxObjects
    /\ \E id \in ServerIds :
        /\ \/ /\ serverRecycled # <<>>
              /\ id = Head(serverRecycled)
              /\ serverRecycled' = Tail(serverRecycled)
              /\ UNCHANGED nextId
           \/ /\ serverRecycled = <<>>
              /\ id = nextId
              /\ nextId' = nextId + 1
              /\ UNCHANGED serverRecycled
        /\ kind' = Append(kind, "offer")
        /\ resources' = [resources EXCEPT ![id] = Len(kind')]
        /\ toClient' = Append(toClient, [op |-> "offer", id |-> id, obj |-> Len(kind')])
    /\ UNCHANGED <<clientVars, serverClosed, toServer>>

(* Client.close() called by the compositor.                                *)
ServerClose ==
    /\ ~serverClosed
    /\ CloseServer(toClient)
    /\ UNCHANGED <<kind, clientVars, toServer>>

-----------------------------------------------------------------------------
ClientApp ==
    \/ \E k \in Kinds : ClientCreate(k)
    \/ \E id \in Ids : ClientDestroy(id) \/ ClientDestroyCallback(id) \/ ClientRequest(id)
    \/ ClientClose

ClientDispatch ==
    \/ ClientReceivesEvent
    \/ ClientReceivesDone
    \/ ClientReceivesOffer
    \/ ClientReceivesDeleteId
    \/ ClientReceivesError

ServerDispatch ==
    \/ ServerReceivesCreate
    \/ ServerReceivesDestroy
    \/ ServerReceivesRequest

ServerApp ==
    \/ \E id \in Ids : ServerEvent(id) \/ ServerFiresCallback(id)
    \/ ServerOffer
    \/ ServerClose

Next == ClientApp \/ ClientDispatch \/ ServerDispatch \/ ServerApp

Spec == Init /\ [][Next]_vars

(* Ports deliver what was posted and both event loops keep dispatching.    *)
FairSpec == Spec /\ WF_vars(ClientDispatch) /\ WF_vars(ServerDispatch)

-----------------------------------------------------------------------------
(* What the server dispatches next is what the client meant: a new id is   *)
(* free, and any other request finds the very object it was sent to, so a  *)
(* well-behaved client is never cut off for an unknown or a reused id.     *)
ServerFindsObject ==
    ~serverClosed /\ toServer # <<>> =>
        LET m == Head(toServer)
        IN  resources[m.id] = IF m.op = "create" THEN None ELSE m.obj

(* What the client dispatches next never reaches another object than the   *)
(* server meant: a done event and a new object always find the right       *)
(* state, any other event finds its object or, destroyed meanwhile, none.  *)
ClientFindsObject ==
    ~clientClosed /\ toClient # <<>> =>
        LET m == Head(toClient)
        IN  /\ m.op = "event" => proxies[m.id] \in {None, m.obj}
            /\ m.op = "done" => proxies[m.id] = m.obj
            /\ m.op = "offer" => proxies[m.id] = None

Count(seq, Test(_)) == Cardinality({i \in DOMAIN seq : Test(seq[i])})

(* While the connection is up every id handed out is in exactly one place: *)
(* in use (registered at the server or on its way there), on its way back  *)
(* in a delete_id event, waiting for reuse, or gone with a constructor     *)
(* that threw. One that waits for reuse is free at the client, unless the  *)
(* application has not destroyed a callback that is done.                  *)
IdsConserved ==
    ~clientClosed /\ ~serverClosed =>
        /\ \A id \in 2 .. lastId :
            1 = (IF resources[id] # None THEN 1 ELSE 0)
                + (IF id \in lost THEN 1 ELSE 0)
                + Count(toServer, LAMBDA m : m.op = "create" /\ m.id = id)
                + Count(toClient, LAMBDA m : m.op = "delete_id" /\ m.id = id)
                + Count(recycledIds, LAMBDA i : i = id)
        /\ \A id \in ServerIdBase .. nextId - 1 :
            1 = (IF resources[id] # None THEN 1 ELSE 0)
                + Count(serverRecycled, LAMBDA i : i = id)
        /\ \A i \in DOMAIN recycledIds : proxies[recycledIds[i]] \in {None} \cup fired

(* The id of every destroyed object comes back to the client.              *)
DestroyedIdReturns ==
    \A id \in ClientIds :
        (\E i \in DOMAIN toServer : toServer[i].op = "destroy" /\ toServer[i].id = id)
            ~> (id \in Range(recycledIds) \/ clientClosed \/ serverClosed)
=============================================================================
