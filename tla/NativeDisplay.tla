--------------------------- MODULE NativeDisplay ----------------------------
(***************************************************************************)
(* The display of the native proxy: wayland-server.c driven by the addon,  *)
(* westfield-addon.c. Node polls the descriptor of the event loop and      *)
(* calls dispatchRequests(), which flushes every client, dispatches the    *)
(* loop once and flushes again. Everything runs on Node's one thread: the  *)
(* variable pc says where inside dispatchRequests() that thread is, and    *)
(* only at "out" do calls of the addon by the browser's proxy happen.      *)
(* The processes at the other ends of the sockets run at any time.         *)
(*                                                                         *)
(* Clients are numbered in the order in which they connect; a number names *)
(* the memory of one struct wl_client, which is freed once. Messages, ids  *)
(* and descriptors are the subject of NativeConnection and ClientObjects.  *)
(***************************************************************************)
EXTENDS EventLoop

CONSTANTS
    MaxClients,         \* bound: clients that connect
    InterfaceVersion,   \* version of each interface a global may have
    CallbackSets,       \* what the proxy may register for a new client
    Requests,           \* requests that a client may send
    MaxRequests,        \* bound: requests that are sent
    Stallers,           \* clients that may stop reading
    MaxStalls,          \* bound: times that one of them does
    MaxGlobals          \* bound: globals created

(* The program that uses the proxy sets a sync-done callback for every     *)
(* client, for the proxy itself answers no sync.                           *)
ASSUME NativeDisplayAssumption ==
    /\ MaxClients \in Nat
    /\ MaxRequests \in Nat
    /\ MaxStalls \in Nat /\ MaxGlobals \in Nat
    /\ \A set \in CallbackSets : "sync" \in set

VARIABLES
    loop,           \* the event loop
    pc,             \* where Node's thread is
    current,        \* the client whose handler runs, with what it has read
    peer,           \* the client processes and their sockets
    clients,        \* wl_display.client_list
    out,            \* clients with output that is not flushed
    error,          \* clients with wl_client.error
    registries,     \* clients with a resource in registry_resource_list
    told,           \* what the registry of a client was told of globals
    globals,        \* wl_display.global_list
    nextName,       \* wl_display.id
    nativeGlobalNames, \* what the browser's proxy knows of the globals
    refs,           \* references of a client to JavaScript callbacks
    synced, done,   \* per client: its sync requests and their callbacks
    sends, stalls,  \* what the clients did, for the bounds
    usedAfterFree   \* history: clients whose freed memory the code used

globalVars == <<globals, nextName, nativeGlobalNames, told>>
clientVars == <<clients, out, error, registries, refs>>
syncVars == <<synced, done>>
history == <<sends, stalls, usedAfterFree>>
vars == <<loop, pc, current, peer, clientVars, globalVars, syncVars, history>>

Clients == 1 .. MaxClients

Listen == <<"listen">>
Term == <<"term">>
ClientSource(c) == <<"client", c>>
SyncSource(c, n) == <<"sync", c, n>>
Nobody == [client |-> 0, input |-> <<>>]

NewPeer == [socket |-> "none", sent |-> <<>>, reading |-> TRUE]
GonePeer == [NewPeer EXCEPT !.socket = "closed"]
NotTold == [emitted |-> FALSE, known |-> {}, removed |-> {}]

Names == {g.name : g \in ToSet(globals)}

(* wl_display_create(): the loop with the termination event.               *)
DisplayCreate == AddFd(LoopCreate, Term, {"R"})

(* createDisplay() and addSocketAuto(): a display with its listening       *)
(* socket and without clients or globals.                                  *)
Init ==
    /\ loop = AddFd(DisplayCreate, Listen, {"R"})
    /\ pc = "out"
    /\ current = Nobody
    /\ peer = [c \in Clients |-> NewPeer]
    /\ clients = {} /\ out = {} /\ error = {}
    /\ registries = {}
    /\ told = [c \in Clients |-> NotTold]
    /\ globals = <<>> /\ nextName = 1 /\ nativeGlobalNames = {}
    /\ refs = [c \in Clients |-> {}]
    /\ synced = [c \in Clients |-> <<>>]
    /\ done = [c \in Clients |-> <<>>]
    /\ sends = 0 /\ stalls = 0
    /\ usedAfterFree = {}

-----------------------------------------------------------------------------
(* The client processes.                                                   *)

(* connect(): the connection waits to be accepted.                         *)
PeerConnects(c) ==
    /\ peer[c].socket = "none"
    /\ \A d \in 1 .. c - 1 : peer[d].socket # "none"
    /\ pc # "gone"
    /\ peer' = [peer EXCEPT ![c].socket = "waiting"]
    /\ UNCHANGED <<loop, pc, current, clientVars, globalVars, syncVars, history>>

(* A client asks for at most one registry.                                 *)
PeerSends(c, r) ==
    /\ peer[c].socket = "open"
    /\ sends < MaxRequests
    /\ r.type = "registry" => c \notin registries /\ r \notin ToSet(peer[c].sent)
                                /\ r \notin ToSet(current.input)
    /\ peer' = [peer EXCEPT ![c].sent = Append(@, r)]
    /\ sends' = sends + 1
    /\ UNCHANGED <<stalls, usedAfterFree, loop, pc, current, clientVars, globalVars, syncVars>>

(* It stops reading, which fills its socket.                               *)
PeerStalls(c) ==
    /\ peer[c].socket = "open"
    /\ peer[c].reading
    /\ c \in Stallers
    /\ stalls < MaxStalls
    /\ peer' = [peer EXCEPT ![c].reading = FALSE]
    /\ stalls' = stalls + 1
    /\ UNCHANGED <<sends, usedAfterFree, loop, pc, current, clientVars, globalVars, syncVars>>

PeerReads(c) ==
    /\ ~peer[c].reading
    /\ peer' = [peer EXCEPT ![c].reading = TRUE]
    /\ UNCHANGED <<loop, pc, current, clientVars, globalVars, syncVars, history>>

PeerCloses(c) ==
    /\ peer[c].socket = "open"
    /\ peer' = [peer EXCEPT ![c].socket = "closed"]
    /\ UNCHANGED <<loop, pc, current, clientVars, globalVars, syncVars, history>>

Full(c) == ~peer[c].reading
Closed(c) == peer[c].socket = "closed"
Waiting == {c \in Clients : peer[c].socket = "waiting"}

(* What epoll can report of each source.                                   *)
Possible ==
    [s \in DOMAIN loop.interest |->
        IF s = Listen THEN {"R" : c \in Waiting}
        ELSE IF s = Term THEN {}
        ELSE LET c == s[2]
             IN  {"R" : x \in {x \in {c} : peer[x].sent # <<>> \/ Closed(x)}}
                 \cup {"W" : x \in {x \in {c} : ~Full(x) \/ Closed(x)}}
                 \cup {"H" : x \in {x \in {c} : Closed(x)}}]

-----------------------------------------------------------------------------
(* on_client_destroyed(), a listener of the client's destroy signal: only  *)
(* a client with a destroy callback has its references deleted.            *)
RefsDeleted(gone) ==
    [c \in Clients |-> IF c \in gone /\ "destroy" \in refs[c] THEN {} ELSE refs[c]]

(* Nothing is remembered of a client that is gone.                         *)
Forget(f, gone, default) == [c \in Clients |-> IF c \in gone THEN default ELSE f[c]]

(* wl_client_destroy() of some clients, in a given state of the loop, with *)
(* the output of others: the destroy signal, a last flush whose result is  *)
(* ignored, the resources, among them the registry, the source, the socket *)
(* and the memory.                                                         *)
ClientsDestroyed(gone, l, output) ==
    /\ refs' = RefsDeleted(gone)
    /\ out' = output \ gone
    /\ registries' = registries \ gone
    /\ loop' = SourceRemove(l, {ClientSource(c) : c \in gone})
    /\ peer' = [c \in Clients |->
                    IF c \in gone THEN GonePeer
                    ELSE peer[c]]
    /\ clients' = clients \ gone
    /\ error' = error \ gone
    /\ told' = Forget(told, gone, NotTold)
    /\ synced' = Forget(synced, gone, <<>>)
    /\ done' = Forget(done, gone, <<>>)

(* The clients for which wl_connection_flush() fails: for good, EPIPE, or  *)
(* until there is room, EAGAIN.                                            *)
Broken == {c \in clients \cap out : Closed(c)}
Blocked == {c \in clients \cap out : ~Closed(c) /\ Full(c)}

(* Mutant: a blocked client is not watched for room.                       *)
NotWatched(l, some) == l

(* wl_event_source_fd_update() of the blocked clients.                     *)
WatchWritable(l, some) ==
    [l EXCEPT !.interest = [s \in DOMAIN @ |->
        IF \E c \in some : s = ClientSource(c) THEN {"R", "W"} ELSE @[s]]]

(* wl_display_flush_clients()                                              *)
FlushClients == ClientsDestroyed(Broken, WatchWritable(loop, Blocked), Blocked)

(* dispatchRequests(): the first flush. Node calls it when the loop has    *)
(* events, see Fairness, and may call it at any other time.                *)
DispatchRequests ==
    /\ pc = "out"
    /\ FlushClients
    /\ pc' = "idle"
    /\ UNCHANGED <<current, globals, nextName, nativeGlobalNames, history>>

(* The second flush.                                                       *)
DispatchEnds ==
    /\ pc = "flush"
    /\ FlushClients
    /\ pc' = "out"
    /\ UNCHANGED <<current, globals, nextName, nativeGlobalNames, history>>

(* wl_event_loop_dispatch_idle(): on_callback_done() of a sync request and *)
(* on_sync_done(). The task has a plain pointer to the client, which may   *)
(* be freed by then: the access is recorded, and what the code finds there *)
(* is undefined, here nothing to call.                                     *)
DispatchIdle ==
    /\ pc \in {"idle", "lateIdle"}
    /\ loop.idle # <<>>
    /\ LET task == Head(loop.idle)
       IN  IF task[2] \in clients
           THEN /\ done' = [done EXCEPT ![task[2]] = Append(@, task[3])]
                /\ UNCHANGED usedAfterFree
           ELSE /\ usedAfterFree' = usedAfterFree \cup {task[2]}
                /\ UNCHANGED done
    /\ loop' = IdleDone(loop)
    /\ UNCHANGED <<pc, current, peer, clientVars, globalVars, synced, sends, stalls>>

(* epoll_wait() succeeds.                                                  *)
WaitForEvents ==
    /\ pc = "idle"
    /\ loop.idle = <<>>
    /\ \E batch \in Batches(loop, Possible) : loop' = EpollWait(loop, batch)
    /\ pc' = "events"
    /\ UNCHANGED <<current, peer, clientVars, globalVars, syncVars, history>>

(* epoll_wait() is interrupted: wl_event_loop_dispatch() returns.          *)
WaitFails ==
    /\ pc = "idle"
    /\ loop.idle = <<>>
    /\ pc' = "flush"
    /\ UNCHANGED <<loop, current, peer, clientVars, globalVars, syncVars, history>>

(* The source of the event was removed by the handler of an earlier one.   *)
SkipEvent ==
    /\ pc = "events"
    /\ loop.batch # <<>>
    /\ ~IsDispatched(loop)
    /\ loop' = TakeEvent(loop)
    /\ UNCHANGED <<pc, current, peer, clientVars, globalVars, syncVars, history>>

(* All events are dispatched: the removed sources are freed.               *)
EventsDone ==
    /\ pc = "events"
    /\ loop.batch = <<>>
    /\ loop' = ProcessDestroyList(loop)
    /\ pc' = "lateIdle"
    /\ UNCHANGED <<current, peer, clientVars, globalVars, syncVars, history>>

LateIdleDone ==
    /\ pc = "lateIdle"
    /\ loop.idle = <<>>
    /\ pc' = "flush"
    /\ UNCHANGED <<loop, current, peer, clientVars, globalVars, syncVars, history>>

HandlerOf(source) ==
    /\ pc = "events"
    /\ loop.batch # <<>>
    /\ NextEvent(loop).source = source
    /\ IsDispatched(loop)

(* wl_client_create() once nothing fails: the source of the connection and *)
(* the client.                                                             *)
ClientCreate(c) ==
    /\ loop' = AddFd(TakeEvent(loop), ClientSource(c), {"R"})
    /\ clients' = clients \cup {c}

(* setClientDestroyedCallback(), setWireMessageCallback() and              *)
(* setWireMessageEndCallback() create references; setSyncDoneCallback(),   *)
(* setRegistryCreatedCallback() and setBufferCreatedCallback() do as well. *)
SetMessageCallbacks(callbacks) == callbacks \cap {"destroy", "wire"}
SetObjectCallbacks(callbacks) == callbacks \cap {"sync", "registry"}

(* on_client_created(), the listener of the create signal, calls           *)
(* JavaScript, which sets its callbacks, among them the one for sync.      *)
OnClientCreated(c, callbacks) ==
    refs' = [refs EXCEPT ![c] = {"object"} \cup SetMessageCallbacks(callbacks)
                                           \cup SetObjectCallbacks(callbacks)]

(* socket_data(): accept() and wl_client_create().                         *)
AcceptClient(c, callbacks) ==
    /\ HandlerOf(Listen)
    /\ c \in Waiting
    /\ peer' = [peer EXCEPT ![c].socket = "open"]
    /\ ClientCreate(c)
    /\ OnClientCreated(c, callbacks)
    /\ UNCHANGED <<pc, current, out, error, registries,
                   globalVars, syncVars, history>>

(* accept() fails, or a step of wl_client_create() does and socket_data()  *)
(* closes the connection.                                                  *)
AcceptFails(c) ==
    /\ HandlerOf(Listen)
    /\ c \in Waiting
    /\ loop' = TakeEvent(loop)
    /\ peer' = [peer EXCEPT ![c] = GonePeer]
    /\ UNCHANGED <<pc, current, clientVars, globalVars, syncVars, history>>

(* wl_client_connection_data() ends with the client: it hung up, or its    *)
(* socket cannot be written or read any more.                              *)
SocketLost(c, mask) ==
    \/ "H" \in mask
    \/ "W" \in mask /\ c \in Broken
    \/ "R" \in mask /\ Closed(c) /\ peer[c].sent = <<>>

ConnectionLost(c) ==
    /\ HandlerOf(ClientSource(c))
    /\ SocketLost(c, NextEvent(loop).mask)
    /\ ClientsDestroyed({c}, TakeEvent(loop), out)
    /\ UNCHANGED <<pc, current, globals, nextName, nativeGlobalNames, history>>

(* It goes on: output is flushed if there is room for it, which ends the   *)
(* watch for room, and input is read. Without input the handler ends with  *)
(* on_wire_message_end().                                                  *)
ConnectionData(c) ==
    /\ HandlerOf(ClientSource(c))
    /\ LET mask == NextEvent(loop).mask
           flushed == "W" \in mask /\ c \notin Blocked
       IN  /\ ~SocketLost(c, mask)
           /\ loop' = IF flushed THEN FdUpdate(TakeEvent(loop), ClientSource(c), {"R"})
                      ELSE TakeEvent(loop)
           /\ out' = IF flushed THEN out \ {c} ELSE out
           /\ IF "R" \in mask
              THEN /\ current' = [client |-> c, input |-> peer[c].sent]
                   /\ peer' = [peer EXCEPT ![c].sent = <<>>]
                   /\ pc' = "requests"
              ELSE UNCHANGED <<current, peer, pc>>
    /\ UNCHANGED <<clients, error, registries, refs, globalVars, syncVars, history>>

-----------------------------------------------------------------------------
(* The requests that were read, in turn, until one of them fails:          *)
(* on_wire_message() shows each to the browser's proxy, which leaves some  *)
(* to the native objects.                                                  *)
HasRequest(c) ==
    /\ pc = "requests"
    /\ current.client = c
    /\ c \notin error
    /\ current.input # <<>>
NextRequest(c) ==
    /\ HasRequest(c)
    /\ current' = [current EXCEPT !.input = Tail(@)]
Request(c, type) ==
    /\ NextRequest(c)
    /\ "wire" \in refs[c]
    /\ Head(current.input).type = type

(* The browser takes the message, also a bind to a global that is not      *)
(* native. Without a callback nobody takes it: the message is dropped.     *)
ForBrowser(r) == r.type = "browser" \/ (r.type = "bind" /\ r.name \notin nativeGlobalNames)
BrowserRequest(c) ==
    /\ NextRequest(c)
    /\ "wire" \in refs[c] => ForBrowser(Head(current.input))
    /\ UNCHANGED <<loop, pc, peer, clientVars, globalVars, syncVars, history>>

(* The same, and the browser's proxy answers with destroyClient() of some  *)
(* client, for which the loop may hold an event already.                   *)
BrowserDestroys(c, d) ==
    /\ Request(c, "browser")
    /\ d \in clients \ {c}
    /\ ClientsDestroyed({d}, loop, out)
    /\ UNCHANGED <<pc, globals, nextName, nativeGlobalNames, history>>

(* Nothing keeps it from destroying the client whose message it is: the    *)
(* handler goes on with the freed client and its freed connection. That is *)
(* recorded; what it finds is undefined, here no more input and no error.  *)
BrowserDestroysSelf(c) ==
    /\ HasRequest(c)
    /\ "wire" \in refs[c]
    /\ Head(current.input).type = "browser"
    /\ ClientsDestroyed({c}, loop, out)
    /\ current' = [current EXCEPT !.input = <<>>]
    /\ usedAfterFree' = usedAfterFree \cup {c}
    /\ UNCHANGED <<pc, globals, nextName, nativeGlobalNames, sends, stalls>>

(* display_sync(): the callback is done when the loop is idle.             *)
DisplaySync(c) ==
    /\ Request(c, "sync")
    /\ LET n == Len(synced[c]) + 1
       IN  /\ synced' = [synced EXCEPT ![c] = Append(@, n)]
           /\ loop' = AddIdle(loop, SyncSource(c, n))
    /\ UNCHANGED <<pc, peer, clientVars, globalVars, done, history>>

(* wl_registry_emit_globals(). No filter is set, every global is visible.  *)
Emitted(c) == [told EXCEPT ![c].emitted = TRUE, ![c].known = @ \cup Names]

(* on_registry_created(): JavaScript may call emitGlobals() at once.       *)
OnRegistryCreated(c) ==
    \/ UNCHANGED <<told, out>>
    \/ "registry" \in refs[c] /\ told' = Emitted(c) /\ out' = out \cup {c}

(* display_get_registry(): the registry hears of globals from now on, and  *)
(* of those that exist when they are emitted, at once or later.            *)
DisplayGetRegistry(c) ==
    /\ Request(c, "registry")
    /\ registries' = registries \cup {c}
    /\ OnRegistryCreated(c)
    /\ UNCHANGED <<loop, pc, peer, clients, error, refs,
                   globals, nextName, nativeGlobalNames, syncVars, history>>

(* registry_bind(): the global exists, has this interface and a version    *)
(* that is high enough. What bind() creates are resources of the client.   *)
CanBind(r) ==
    \E g \in ToSet(globals) :
        /\ g.name = r.name
        /\ g.interface = r.interface
        /\ r.version # 0
        /\ r.version <= g.version

RegistryBind(c) ==
    /\ Request(c, "bind")
    /\ CanBind(Head(current.input))
    /\ UNCHANGED <<loop, pc, peer, clientVars, globalVars, syncVars, history>>

(* A request that wl_resource_post_error() answers: a bind that is         *)
(* refused, a message that is for no native object or cannot be decoded.   *)
Refused(r) == r.type = "bad" \/ (r.type = "bind" /\ ~ForBrowser(r) /\ ~CanBind(r))

RequestFails(c) ==
    /\ \E type \in {"bind", "bad"} : Request(c, type)
    /\ Refused(Head(current.input))
    /\ error' = error \cup {c}
    /\ out' = out \cup {c}
    /\ UNCHANGED <<loop, pc, peer, clients, registries, refs,
                   globalVars, syncVars, history>>

(* The end of wl_client_connection_data(): on_wire_message_end(), or the   *)
(* end of a client that made an error. A freed client has input no more.   *)
RequestsDone(c) ==
    /\ pc = "requests"
    /\ current.client = c
    /\ current.input = <<>>
    /\ c \notin error
    /\ pc' = "events"
    /\ current' = Nobody
    /\ UNCHANGED <<loop, peer, clientVars, globalVars, syncVars, history>>

DestroyClientWithError(c) ==
    /\ pc = "requests"
    /\ current.client = c
    /\ c \in error
    /\ ClientsDestroyed({c}, loop, out)
    /\ pc' = "events"
    /\ current' = Nobody
    /\ UNCHANGED <<globals, nextName, nativeGlobalNames, history>>

-----------------------------------------------------------------------------
(* Calls of the addon.                                                     *)

SendEvents(c) ==
    /\ pc = "out"
    /\ c \in clients
    /\ out' = out \cup {c}
    /\ UNCHANGED <<loop, pc, current, peer, clients, error, registries, refs,
                   globalVars, syncVars, history>>

(* flush(): a failure is ignored, and the client not watched for room.     *)
Flush(c) ==
    /\ pc = "out"
    /\ c \in (clients \cap out) \ (Broken \cup Blocked)
    /\ out' = out \ {c}
    /\ UNCHANGED <<loop, pc, current, peer, clients, error, registries, refs,
                   globalVars, syncVars, history>>

DestroyClient(c) ==
    /\ pc = "out"
    /\ c \in clients
    /\ ClientsDestroyed({c}, loop, out)
    /\ UNCHANGED <<pc, current, globals, nextName, nativeGlobalNames, history>>

EmitGlobals(c) ==
    /\ pc = "out"
    /\ c \in registries
    /\ told' = Emitted(c)
    /\ out' = out \cup {c}
    /\ UNCHANGED <<loop, pc, current, peer, clients, error, registries, refs,
                   globals, nextName, nativeGlobalNames, syncVars, history>>

(* on_global_created() and on_global_destroyed() tell the browser's proxy. *)
OnGlobalCreated(name) == nativeGlobalNames' = nativeGlobalNames \cup {name}
OnGlobalDestroyed(name) == nativeGlobalNames' = nativeGlobalNames \ {name}

(* Mutant: the registries that exist are not told of a new global.         *)
GlobalCreateUntold(interface, version) ==
    /\ pc = "out"
    /\ nextName <= MaxGlobals
    /\ version >= 1 /\ version <= InterfaceVersion[interface]
    /\ globals' = Append(globals, [name |-> nextName, interface |-> interface,
                                   version |-> version])
    /\ nextName' = nextName + 1
    /\ OnGlobalCreated(nextName)
    /\ UNCHANGED <<told, loop, pc, current, peer, clientVars, syncVars, history>>

(* wl_global_create(), which initShm() and initDrm() call: a version that  *)
(* the interface does not have is refused.                                 *)
GlobalCreate(interface, version) ==
    /\ pc = "out"
    /\ nextName <= MaxGlobals
    /\ version >= 1 /\ version <= InterfaceVersion[interface]
    /\ globals' = Append(globals, [name |-> nextName, interface |-> interface,
                                   version |-> version])
    /\ nextName' = nextName + 1
    /\ OnGlobalCreated(nextName)
    /\ told' = [c \in Clients |-> IF c \in registries
                                  THEN [told[c] EXCEPT !.known = @ \cup {nextName}]
                                  ELSE told[c]]
    /\ out' = out \cup registries
    /\ UNCHANGED <<loop, pc, current, peer, clients, error, registries, refs, syncVars, history>>

(* wl_global_remove() and wl_global_destroy(), when a step of initDrm()    *)
(* after wl_global_create() fails.                                         *)
GlobalDestroy(k) ==
    /\ pc = "out"
    /\ k \in DOMAIN globals
    /\ globals' = RemoveAt(globals, k)
    /\ OnGlobalDestroyed(globals[k].name)
    /\ told' = [c \in Clients |-> IF c \in registries
                                  THEN [told[c] EXCEPT !.removed = @ \cup {globals[k].name}]
                                  ELSE told[c]]
    /\ out' = out \cup registries
    /\ UNCHANGED <<loop, pc, current, peer, clients, error, registries, refs,
                   nextName, syncVars, history>>

(* wl_display_destroy(): the listening socket, the termination event, the  *)
(* loop, and the globals, of which nobody is told.                         *)
DisplayDestroy(l) == LoopDestroy(SourceRemove(l, {Listen, Term}))

(* destroyDisplay(): the clients, then the display.                        *)
DestroyDisplay ==
    /\ pc = "out"
    /\ ClientsDestroyed(clients, DisplayDestroy(loop), out)
    /\ pc' = "gone"
    /\ globals' = <<>>
    /\ UNCHANGED <<current, nextName, nativeGlobalNames, history>>
-----------------------------------------------------------------------------
(* The client processes run at any time. What they do while the thread     *)
(* looks at no socket counts from the next time that it does.              *)
Peers ==
    /\ pc \in {"out", "idle", "events", "flush"}
    /\ \E c \in Clients :
        \/ PeerConnects(c) \/ PeerStalls(c) \/ PeerReads(c) \/ PeerCloses(c)
        \/ \E r \in Requests : PeerSends(c, r)

(* What the thread does inside dispatchRequests().                         *)
Dispatching ==
    \/ DispatchEnds \/ DispatchIdle \/ WaitForEvents \/ WaitFails \/ SkipEvent
    \/ EventsDone \/ LateIdleDone
    \/ \E c \in Clients :
        \/ \E callbacks \in CallbackSets : AcceptClient(c, callbacks)
        \/ AcceptFails(c) \/ ConnectionLost(c) \/ ConnectionData(c)
        \/ BrowserRequest(c) \/ \E d \in Clients : BrowserDestroys(c, d)
        \/ BrowserDestroysSelf(c)
        \/ DisplaySync(c) \/ DisplayGetRegistry(c) \/ RegistryBind(c)
        \/ RequestFails(c) \/ RequestsDone(c) \/ DestroyClientWithError(c)

Calls ==
    \/ DispatchRequests \/ DestroyDisplay
    \/ \E c \in Clients :
        \/ SendEvents(c) \/ Flush(c) \/ DestroyClient(c) \/ EmitGlobals(c)
    \/ \E interface \in DOMAIN InterfaceVersion :
        \E version \in 1 .. InterfaceVersion[interface] : GlobalCreate(interface, version)
    \/ \E k \in 1 .. MaxGlobals : GlobalDestroy(k)

Next == Peers \/ Dispatching \/ Calls

(* dispatchRequests() runs to its end, Node calls it as long as the        *)
(* descriptor of the loop is readable, and a client that stalled reads     *)
(* again.                                                                  *)
Fairness ==
    /\ WF_vars(Dispatching)
    /\ WF_vars(DispatchRequests /\ Ready(loop, Possible) # {})
    /\ \A c \in Clients : WF_vars(PeerReads(c))

Spec == Init /\ [][Next]_vars /\ Fairness

-----------------------------------------------------------------------------
(* No event source runs after it was freed: what epoll_wait() reported is  *)
(* never freed before the dispatch has passed it, and the source of a      *)
(* client goes with the client, whoever destroys clients meanwhile         *)
(* (wl_event_source_remove(), wl_event_loop_process_destroy_list(),        *)
(* wl_client_destroy()). Freed clients are used in two ways only, which    *)
(* the code has and the model records: by wl_client_connection_data(), if  *)
(* the callback of its own message destroyed the client, and by the idle   *)
(* task of display_sync(). Idle tasks do not outlive the dispatch that     *)
(* made them, so a client that is destroyed between two dispatches, or by  *)
(* a flush, leaves none behind.                                            *)
FreedNeverDispatched ==
    /\ \A i \in DOMAIN loop.batch : HasMemory(loop, loop.batch[i].source)
    /\ \A c \in Clients : HasFd(loop, ClientSource(c)) => c \in clients
    /\ pc = "requests" => current.client \in clients \cup usedAfterFree
    /\ pc \in {"out", "idle", "flush", "gone"} => loop.idle = <<>>

(* When dispatchRequests() returns, every sync request that it dispatched  *)
(* for a client that still exists was answered, once and in order, in the  *)
(* same call (display_sync(), on_callback_done(), dispatch_idle).          *)
SyncAnswered == pc = "out" => \A c \in clients : done[c] = synced[c]

(* A registry whose globals were emitted knows of exactly the globals that *)
(* exist, whenever they are created or destroyed, and what a client binds  *)
(* before it hears of a removal is never native and missing: the proxy     *)
(* forgets a global with it (display_get_registry(), wl_global_create(),   *)
(* wl_registry_emit_globals(), wl_global_remove(), on_global_destroyed()). *)
RegistryKnows ==
    /\ \A c \in registries : told[c].emitted => told[c].known \ told[c].removed = Names
    /\ pc # "gone" => nativeGlobalNames \subseteq Names

(* Output that did not fit into the socket when the clients were flushed   *)
(* reaches the client once it reads again, although nothing else may ever  *)
(* happen on its connection: the loop watches it for room                  *)
(* (wl_display_flush_clients(), wl_client_connection_data()).              *)
BlockedOutputDrains ==
    \A c \in Clients : (pc = "idle" /\ c \in out) ~> c \notin out
=============================================================================
