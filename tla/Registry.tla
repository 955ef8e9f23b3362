------------------------------ MODULE Registry ------------------------------
(***************************************************************************)
(* The globals of a compositor and what its clients know of them: Registry *)
(* and RegistryResource of westfield-runtime-server.ts, with the clients   *)
(* that bind what was announced to them.                                   *)
(*                                                                         *)
(* destroyGlobal() tells the clients at once and forgets the global five   *)
(* seconds later, so that a bind request already under way still finds it. *)
(* With Timely, an event and the answer of a client that had not received  *)
(* it take less than the five seconds together. A second destroyGlobal()   *)
(* starts a second timer, but the first one takes the global away.         *)
(***************************************************************************)
EXTENDS Integers, Sequences, FiniteSets

CONSTANTS
    Clients,        \* clients, each with one wl_registry object at most
    MaxGlobals,     \* bound: globals created in all, named 1 .. MaxGlobals
    MaxRequests,    \* bound: requests of a client under way
    MaxDestroys,    \* bound: calls of destroyGlobal() for one global
    Timely          \* a round trip takes less than the delay of the timer

ASSUME RegistryAssumption ==
    /\ MaxGlobals \in Nat
    /\ MaxRequests \in Nat
    /\ MaxDestroys \in Nat
    /\ Timely \in BOOLEAN

VARIABLES
    nextGlobalName, \* Registry._nextGlobalName, from 0
    globals,        \* names in Registry._globals
    destroys,       \* calls of destroyGlobal() that took effect, by name
    timers,         \* pending timeouts by name
    missed,         \* calls of destroyGlobal() before each registry announced a global: history
    told,           \* calls of destroyGlobal() each client missed or was told of: history
    registries,     \* clients with an entry in Registry._registryResources
    asked,          \* clients that sent get_registry
    known,          \* globals each client has been told of
    closed,         \* clients whose connection was closed
    toServer,       \* requests under way
    toClient        \* events under way

vars == <<nextGlobalName, globals, destroys, timers, missed, told, registries, asked, known,
          closed, toServer, toClient>>
globalVars == <<nextGlobalName, globals, destroys, timers, missed>>
clientVars == <<told, asked, known>>

Names == 1 .. MaxGlobals
Request == [op : {"get_registry"}] \cup [op : {"bind"}, name : Names]
Event == [op : {"global", "global_remove"}, name : Names]

TypeOK ==
    /\ nextGlobalName \in 0 .. MaxGlobals
    /\ globals \subseteq 1 .. nextGlobalName
    /\ destroys \in [Names -> 0 .. MaxDestroys]
    /\ timers \in [Names -> 0 .. MaxDestroys]
    /\ missed \in [Clients -> [Names -> 0 .. MaxDestroys]]
    /\ told \in [Clients -> [Names -> Nat]]
    /\ registries \subseteq asked
    /\ asked \subseteq Clients
    /\ known \in [Clients -> SUBSET Names]
    /\ closed \subseteq Clients
    /\ toServer \in [Clients -> Seq(Request)]
    /\ toClient \in [Clients -> Seq(Event)]

Init ==
    /\ nextGlobalName = 0
    /\ globals = {}
    /\ destroys = [n \in Names |-> 0]
    /\ timers = [n \in Names |-> 0]
    /\ missed = [c \in Clients |-> [n \in Names |-> 0]]
    /\ told = missed
    /\ registries = {}
    /\ asked = {}
    /\ known = [c \in Clients |-> {}]
    /\ closed = {}
    /\ toServer = [c \in Clients |-> <<>>]
    /\ toClient = [c \in Clients |-> <<>>]

-----------------------------------------------------------------------------
(* An event on every registry; a closed connection drops it.               *)
Broadcast(event) ==
    toClient' = [c \in Clients |-> IF c \in registries \ closed THEN Append(toClient[c], event)
                                   ELSE toClient[c]]

(* Faulty variant of createGlobal(): only new registries are told.         *)
CreateGlobalSilently ==
    /\ nextGlobalName < MaxGlobals
    /\ nextGlobalName' = nextGlobalName + 1
    /\ globals' = globals \cup {nextGlobalName'}
    /\ UNCHANGED <<destroys, timers, missed, registries, clientVars, closed, toServer, toClient>>

(* createGlobal(): a new name, announced on every registry.                *)
CreateGlobal ==
    /\ nextGlobalName < MaxGlobals
    /\ nextGlobalName' = nextGlobalName + 1
    /\ globals' = globals \cup {nextGlobalName'}
    /\ Broadcast([op |-> "global", name |-> nextGlobalName'])
    /\ UNCHANGED <<destroys, timers, missed, registries, clientVars, closed, toServer>>

(* Faulty variant of destroyGlobal(): the global is forgotten at once.     *)
DestroyGlobalAtOnce(n) ==
    /\ n \in globals
    /\ destroys[n] < MaxDestroys
    /\ Broadcast([op |-> "global_remove", name |-> n])
    /\ destroys' = [destroys EXCEPT ![n] = @ + 1]
    /\ globals' = globals \ {n}
    /\ UNCHANGED <<nextGlobalName, timers, missed, registries, clientVars, closed, toServer>>

(* destroyGlobal(): also a second time while the timer runs.               *)
DestroyGlobal(n) ==
    /\ n \in globals
    /\ destroys[n] < MaxDestroys
    /\ Broadcast([op |-> "global_remove", name |-> n])
    /\ destroys' = [destroys EXCEPT ![n] = @ + 1]
    /\ timers' = [timers EXCEPT ![n] = @ + 1]
    /\ UNCHANGED <<nextGlobalName, globals, missed, registries, clientVars, closed, toServer>>

Mentions(events, n) == \E i \in DOMAIN events : events[i].name = n
Binds(requests, n) == \E i \in DOMAIN requests : requests[i] = [op |-> "bind", name |-> n]

(* The round trip of the call-th destroyGlobal() of a global: a registry   *)
(* that is older than the call is not told yet, or has binds under way.    *)
UnderWay(n, call) ==
    \E c \in registries \ closed :
        /\ missed[c][n] < call
        /\ told[c][n] < call \/ Binds(toServer[c], n)

(* The timeout of destroyGlobal(); those of one global fire in the order   *)
(* of the calls.                                                           *)
TimerFires(n) ==
    /\ timers[n] > 0
    /\ Timely => ~UnderWay(n, destroys[n] - timers[n] + 1)
    /\ timers' = [timers EXCEPT ![n] = @ - 1]
    /\ globals' = globals \ {n}
    /\ UNCHANGED <<nextGlobalName, destroys, missed, registries, clientVars, closed, toServer, toClient>>

-----------------------------------------------------------------------------
(* The client asks for the registry, and binds what it knows of.           *)
ClientGetRegistry(c) ==
    /\ c \notin asked \cup closed
    /\ asked' = asked \cup {c}
    /\ toServer' = [toServer EXCEPT ![c] = Append(@, [op |-> "get_registry"])]
    /\ UNCHANGED <<globalVars, told, registries, known, closed, toClient>>

ClientBind(c, n) ==
    /\ c \notin closed
    /\ n \in known[c]
    /\ Len(toServer[c]) < MaxRequests
    /\ toServer' = [toServer EXCEPT ![c] = Append(@, [op |-> "bind", name |-> n])]
    /\ UNCHANGED <<globalVars, registries, clientVars, closed, toClient>>

ClientReceives(c) ==
    /\ c \notin closed
    /\ toClient[c] # <<>>
    /\ LET event == Head(toClient[c])
       IN  /\ known' = [known EXCEPT ![c] = IF event.op = "global" THEN @ \cup {event.name}
                                            ELSE @ \ {event.name}]
           /\ told' = [told EXCEPT ![c][event.name] = IF event.op = "global" THEN @ ELSE @ + 1]
    /\ toClient' = [toClient EXCEPT ![c] = Tail(@)]
    /\ UNCHANGED <<globalVars, registries, asked, closed, toServer>>

(* publishGlobals(): everything in _globals in the order of the names,     *)
(* also what was destroyed and waits for its timer.                        *)
Destroyed(n) == destroys[n] > 0
Announcements ==
    {events \in [1 .. Cardinality(globals) -> [op : {"global"}, name : globals]] :
        /\ \A i, j \in DOMAIN events : i < j => events[i].name < events[j].name
        /\ \A n \in globals : Mentions(events, n)}

(* Client.getRegistry(): createRegistryResource(), then publishGlobals().  *)
ServerGetRegistry(c) ==
    /\ c \notin closed
    /\ toServer[c] # <<>>
    /\ Head(toServer[c]).op = "get_registry"
    /\ registries' = registries \cup {c}
    /\ missed' = [missed EXCEPT ![c] = [n \in Names |-> IF n \in globals THEN destroys[n] ELSE 0]]
    /\ told' = [told EXCEPT ![c] = destroys]
    /\ \E events \in Announcements : toClient' = [toClient EXCEPT ![c] = @ \o events]
    /\ toServer' = [toServer EXCEPT ![c] = Tail(@)]
    /\ UNCHANGED <<nextGlobalName, globals, destroys, timers, asked, known, closed>>

(* bind(): a name that is no longer in _globals is a TypeError, which      *)
(* closes the connection.                                                  *)
ServerBind(c) ==
    /\ c \notin closed
    /\ toServer[c] # <<>>
    /\ Head(toServer[c]).op = "bind"
    /\ \/ /\ Head(toServer[c]).name \in globals
          /\ UNCHANGED closed
       \/ /\ Head(toServer[c]).name \notin globals
          /\ closed' = closed \cup {c}
    /\ toServer' = [toServer EXCEPT ![c] = Tail(@)]
    /\ UNCHANGED <<globalVars, registries, clientVars, toClient>>

(* The client disconnects. Its registry stays in _registryResources.       *)
Disconnect(c) ==
    /\ c \notin closed
    /\ closed' = closed \cup {c}
    /\ UNCHANGED <<globalVars, registries, clientVars, toServer, toClient>>

Next ==
    \/ CreateGlobal
    \/ \E n \in Names : DestroyGlobal(n) \/ TimerFires(n)
    \/ \E c \in Clients :
        \/ ClientGetRegistry(c)
        \/ \E n \in Names : ClientBind(c, n)
        \/ ClientReceives(c)
        \/ ServerGetRegistry(c)
        \/ ServerBind(c)
        \/ Disconnect(c)

Spec == Init /\ [][Next]_vars

-----------------------------------------------------------------------------
(* The globals that were revoked before the registry of a client was       *)
(* created and that publishGlobals() announced to it all the same, and     *)
(* those of them whose removal it has not been sent since.                 *)
Late(c) == {n \in Names : missed[c][n] > 0}
Untold(c) == {n \in Late(c) : destroys[n] = missed[c][n]}

(* A client that binds only what it knows of is not cut off: what it binds *)
(* is still there when its request arrives, also when destroyGlobal() was  *)
(* called twice and only the first of the two timers has fired, unless its *)
(* registry is younger than the first removal, which it was never told of  *)
(* (publishGlobals() announces what destroyGlobal() has revoked).          *)
BindFindsGlobal ==
    \A c \in Clients \ closed :
        toServer[c] # <<>> /\ Head(toServer[c]).op = "bind" =>
            Head(toServer[c]).name \in globals \cup Late(c)

(* Once told everything, a client knows exactly the globals that exist and *)
(* were not destroyed, whether they came before or after its registry, and *)
(* besides only those that were revoked before its registry was created    *)
(* and not again since.                                                    *)
ViewExact ==
    \A c \in registries \ closed :
        toClient[c] = <<>> => known[c] = {n \in globals : ~Destroyed(n)} \cup Untold(c)
=============================================================================
