--------------------------- MODULE RegistryProofs ---------------------------
(***************************************************************************)
(* Proofs about Registry for any set of clients and any number of globals, *)
(* requests and destructions.                                              *)
(***************************************************************************)
EXTENDS Registry, FiniteSetTheorems, TLAPS

-----------------------------------------------------------------------------
(* Names are given in order, and every timer was started by a call of      *)
(* destroyGlobal().                                                        *)
GlobalsInv ==
    /\ \A n \in Names : n > nextGlobalName => ~Destroyed(n)
    /\ \A n \in Names : timers[n] <= destroys[n]
    /\ \A c \in Clients, n \in Names : missed[c][n] <= destroys[n]

(* A client's first request is for its registry; before it is served the   *)
(* client was told nothing and can have asked for nothing else.            *)
AskInv ==
    \A c \in Clients :
        /\ c \notin asked => toServer[c] = <<>>
        /\ c \notin registries =>
            /\ known[c] = {} /\ toClient[c] = <<>>
            /\ \A i \in DOMAIN toServer[c] : toServer[c][i].op = "get_registry"
        /\ \A i \in DOMAIN toServer[c] :
            toServer[c][i].op = "get_registry" => i = 1 /\ c \notin registries

(* What a client has to end up with, and the last of the events under way  *)
(* about a global.                                                         *)
Revealed(c) == {n \in globals : ~Destroyed(n)} \cup Untold(c)
IsLast(events, i) ==
    /\ i \in DOMAIN events
    /\ \A j \in DOMAIN events : j > i => events[j].name # events[i].name

(* ViewExact with events under way: about every global the last of them    *)
(* says what the client ends up with, and without one the client has it.   *)
LeadsTo(knows, events, view) ==
    /\ \A n \in Names : ~Mentions(events, n) => (n \in knows <=> n \in view)
    /\ \A i \in DOMAIN events :
        IsLast(events, i) => (events[i].op = "global" <=> events[i].name \in view)
ViewInv == \A c \in registries \ closed : LeadsTo(known[c], toClient[c], Revealed(c))

(* A client hears of a name once, before any removal of it, and a client   *)
(* that was told of a removal and missed none does not bind the name again.*)
Announced(events, n) == \E i \in DOMAIN events : events[i].op = "global" /\ events[i].name = n
ToldInv ==
    \A c \in Clients :
        /\ \A n \in Names : n > nextGlobalName => ~Mentions(toClient[c], n) /\ told[c][n] = 0
        /\ \A i, j \in DOMAIN toClient[c] :
            i < j /\ toClient[c][i].name = toClient[c][j].name /\ toClient[c][i].op = "global_remove" =>
                toClient[c][j].op # "global"
        /\ \A n \in Names : told[c][n] > 0 /\ missed[c][n] = 0 =>
            ~Announced(toClient[c], n) /\ n \notin known[c]

(* BindFindsGlobal for the whole way of a name: from the event that tells  *)
(* it through what the client knows to the request that binds it.          *)
BindInv ==
    \A c \in Clients \ closed : \A n \in Names : missed[c][n] = 0 =>
        /\ Announced(toClient[c], n) => n \in globals
        /\ n \in known[c] => n \in globals
        /\ Binds(toServer[c], n) => n \in globals

RegistryInv ==
    /\ TypeOK
    /\ GlobalsInv
    /\ AskInv
    /\ ViewInv
    /\ ToldInv
    /\ Timely => BindInv

-----------------------------------------------------------------------------
(* An event at the end of the queue may change the view of its own global. *)
LEMMA LeadsToAppend ==
  ASSUME NEW knows, NEW events \in Seq(Event), NEW view, NEW later, NEW event \in Event,
         LeadsTo(knows, events, view),
         \A n \in Names : n # event.name => (n \in view <=> n \in later),
         event.op = "global" <=> event.name \in later
  PROVE  LeadsTo(knows, Append(events, event), later)
<1> DEFINE q == Append(events, event)
<1>1. /\ q \in Seq(Event) /\ Len(q) = Len(events) + 1 /\ DOMAIN q = 1 .. Len(events) + 1
      /\ q[Len(events) + 1] = event
      /\ \A i \in 1 .. Len(events) : q[i] = events[i]
      /\ DOMAIN events = 1 .. Len(events) /\ Len(events) \in Nat
  OBVIOUS
<1>2. \A i \in 1 .. Len(events) : events[i] \in Event
  OBVIOUS
<1> HIDE DEF q
<1>3. ASSUME NEW n \in Names, ~Mentions(q, n) PROVE n \in knows <=> n \in later
  <2>1. n # event.name /\ ~Mentions(events, n)
    BY <1>1, <1>3 DEF Mentions
  <2> QED BY <2>1 DEF LeadsTo
<1>4. ASSUME NEW i \in DOMAIN q, IsLast(q, i) PROVE q[i].op = "global" <=> q[i].name \in later
  <2>1. CASE i = Len(events) + 1
    BY <1>1, <2>1
  <2>2. CASE i \in 1 .. Len(events)
    <3>1. q[i] = events[i] /\ events[i].name # event.name /\ events[i].name \in Names
      BY <1>1, <1>2, <1>4, <2>2 DEF IsLast, Event
    <3>2. IsLast(events, i)
      BY <1>1, <1>4, <2>2 DEF IsLast
    <3> QED BY <1>1, <2>2, <3>1, <3>2 DEF LeadsTo
  <2> QED BY <1>1, <2>1, <2>2
<1> QED BY <1>3, <1>4 DEF LeadsTo, q

(* The client takes the first event into account.                          *)
LEMMA LeadsToTail ==
  ASSUME NEW knows, NEW events \in Seq(Event), NEW view, events # <<>>,
         LeadsTo(knows, events, view)
  PROVE  LeadsTo(IF Head(events).op = "global" THEN knows \cup {Head(events).name}
                 ELSE knows \ {Head(events).name}, Tail(events), view)
<1> DEFINE q == Tail(events)
           after == IF events[1].op = "global" THEN knows \cup {events[1].name}
                    ELSE knows \ {events[1].name}
<1>1. /\ q \in Seq(Event) /\ Len(q) = Len(events) - 1 /\ DOMAIN q = 1 .. Len(events) - 1
      /\ \A i \in 1 .. Len(events) - 1 : q[i] = events[i + 1]
      /\ DOMAIN events = 1 .. Len(events) /\ Len(events) \in Nat /\ Len(events) > 0
      /\ Head(events) = events[1]
  OBVIOUS
<1> HIDE DEF q
<1>2. ASSUME NEW n \in Names, ~Mentions(q, n) PROVE n \in after <=> n \in view
  <2>1. \A j \in 2 .. Len(events) : events[j].name # n
    <3> SUFFICES ASSUME NEW j \in 2 .. Len(events) PROVE events[j].name # n
      OBVIOUS
    <3>1. j - 1 \in DOMAIN q /\ q[j - 1] = events[j]
      BY <1>1
    <3> QED BY <1>2, <3>1 DEF Mentions
  <2>2. CASE events[1].name = n
    <3>1. IsLast(events, 1)
      BY <1>1, <2>1, <2>2 DEF IsLast
    <3> QED BY <1>1, <2>2, <3>1 DEF LeadsTo
  <2>3. CASE events[1].name # n
    <3>1. ~Mentions(events, n)
      BY <1>1, <2>1, <2>3 DEF Mentions
    <3> QED BY <2>3, <3>1 DEF LeadsTo
  <2> QED BY <2>2, <2>3
<1>3. ASSUME NEW i \in DOMAIN q, IsLast(q, i) PROVE q[i].op = "global" <=> q[i].name \in view
  <2>1. i + 1 \in DOMAIN events /\ q[i] = events[i + 1]
    BY <1>1
  <2>2. IsLast(events, i + 1)
    <3> SUFFICES ASSUME NEW j \in DOMAIN events, j > i + 1 PROVE events[j].name # events[i + 1].name
      BY <2>1 DEF IsLast
    <3>1. j - 1 \in DOMAIN q /\ j - 1 > i /\ q[j - 1] = events[j]
      BY <1>1
    <3> QED BY <1>3, <2>1, <3>1 DEF IsLast
  <2> QED BY <2>1, <2>2 DEF LeadsTo
<1> QED BY <1>1, <1>2, <1>3 DEF LeadsTo, q

(* publishGlobals() on a new registry leads to the view of all globals.    *)
LEMMA LeadsToAll ==
  ASSUME TypeOK, NEW events \in Announcements
  PROVE  /\ events \in Seq(Event)
         /\ LeadsTo({}, events, globals)
         /\ \A n \in Names : Mentions(events, n) => n \in globals
         /\ \A i \in DOMAIN events : events[i].op = "global"
<1>1. globals \subseteq Names /\ IsFiniteSet(globals) /\ Cardinality(globals) \in Nat
  <2>1. nextGlobalName \in Int /\ globals \subseteq 1 .. nextGlobalName /\ nextGlobalName <= MaxGlobals
    BY RegistryAssumption DEF TypeOK
  <2>2. IsFiniteSet(1 .. nextGlobalName)
    BY <2>1, FS_Interval
  <2>3. globals \subseteq Names
    BY <2>1, RegistryAssumption DEF Names
  <2>4. IsFiniteSet(globals)
    BY <2>1, <2>2, FS_Subset
  <2> QED BY <2>3, <2>4, FS_CardinalityType
<1>2. /\ events \in [1 .. Cardinality(globals) -> [op : {"global"}, name : globals]]
      /\ \A n \in globals : Mentions(events, n)
  BY DEF Announcements
<1>3. \A i \in DOMAIN events : events[i] \in Event /\ events[i].op = "global" /\ events[i].name \in globals
  BY <1>1, <1>2 DEF Event
<1>4. events \in Seq(Event)
  BY <1>1, <1>2, <1>3
<1>5. \A n \in Names : Mentions(events, n) => n \in globals
  BY <1>3 DEF Mentions
<1> QED BY <1>2, <1>3, <1>4, <1>5 DEF LeadsTo

-----------------------------------------------------------------------------
(* A compositor that nobody has connected to.                              *)
LEMMA InitInv == Init => RegistryInv
<1> SUFFICES ASSUME Init PROVE RegistryInv
  OBVIOUS
<1>1. TypeOK
  BY RegistryAssumption DEF Init, TypeOK
<1>2. GlobalsInv /\ AskInv /\ ViewInv
  BY DEF Init, GlobalsInv, AskInv, ViewInv, Destroyed
<1>3. ToldInv /\ BindInv
  BY DEF Init, ToldInv, BindInv, Mentions, Announced, Binds
<1> QED BY <1>1, <1>2, <1>3 DEF RegistryInv

(* What Broadcast does to the queue of every client.                       *)
LEMMA BroadcastType ==
  ASSUME TypeOK, NEW event \in Event, Broadcast(event)
  PROVE  /\ toClient' \in [Clients -> Seq(Event)]
         /\ \A c \in Clients : toClient'[c] = IF c \in registries \ closed THEN Append(toClient[c], event)
                                              ELSE toClient[c]
  BY DEF TypeOK, Broadcast

(* What an appended event adds.                                            *)
LEMMA AppendedEvent ==
  ASSUME NEW events \in Seq(Event), NEW event \in Event
  PROVE  /\ \A n \in Names : Mentions(Append(events, event), n) => Mentions(events, n) \/ event.name = n
         /\ \A n \in Names : Announced(Append(events, event), n) =>
                Announced(events, n) \/ (event.op = "global" /\ event.name = n)
         /\ DOMAIN events = 1 .. Len(events) /\ Len(events) \in Nat
         /\ DOMAIN Append(events, event) = 1 .. Len(events) + 1
         /\ Append(events, event)[Len(events) + 1] = event
         /\ \A i \in 1 .. Len(events) : Append(events, event)[i] = events[i]
<1>1. /\ DOMAIN events = 1 .. Len(events) /\ Len(events) \in Nat
      /\ DOMAIN Append(events, event) = 1 .. Len(events) + 1
      /\ Append(events, event)[Len(events) + 1] = event
      /\ \A i \in 1 .. Len(events) : Append(events, event)[i] = events[i]
  OBVIOUS
<1>2. \A i \in DOMAIN Append(events, event) :
        \/ i = Len(events) + 1 /\ Append(events, event)[i] = event
        \/ i \in DOMAIN events /\ Append(events, event)[i] = events[i]
  BY <1>1
<1> QED BY <1>1, <1>2 DEF Mentions, Announced

(* ToldInv of a client when an event is broadcast: a new name was not      *)
(* mentioned before, and a removal announces nothing.                      *)
LEMMA BroadcastTold ==
  ASSUME RegistryInv, NEW event \in Event, Broadcast(event), NEW c \in Clients,
         event.op = "global" => ~Mentions(toClient[c], event.name)
  PROVE  /\ \A n \in Names : Mentions(toClient'[c], n) => Mentions(toClient[c], n) \/ n = event.name
         /\ \A n \in Names : Announced(toClient'[c], n) =>
                Announced(toClient[c], n) \/ (event.op = "global" /\ n = event.name)
         /\ \A i, j \in DOMAIN toClient'[c] :
                i < j /\ toClient'[c][i].name = toClient'[c][j].name
                /\ toClient'[c][i].op = "global_remove" => toClient'[c][j].op # "global"
<1>1. /\ toClient[c] \in Seq(Event)
      /\ toClient'[c] = IF c \in registries \ closed THEN Append(toClient[c], event) ELSE toClient[c]
      /\ \A i, j \in DOMAIN toClient[c] :
            i < j /\ toClient[c][i].name = toClient[c][j].name /\ toClient[c][i].op = "global_remove" =>
                toClient[c][j].op # "global"
  BY BroadcastType DEF RegistryInv, TypeOK, ToldInv
<1>2. CASE toClient'[c] = toClient[c]
  BY <1>1, <1>2
<1>3. CASE toClient'[c] = Append(toClient[c], event)
  <2> DEFINE q == toClient[c]
             r == toClient'[c]
  <2>1. /\ \A n \in Names : Mentions(r, n) => Mentions(q, n) \/ event.name = n
        /\ \A n \in Names : Announced(r, n) => Announced(q, n) \/ (event.op = "global" /\ event.name = n)
        /\ DOMAIN q = 1 .. Len(q) /\ Len(q) \in Nat /\ DOMAIN r = 1 .. Len(q) + 1
        /\ r[Len(q) + 1] = event /\ \A i \in 1 .. Len(q) : r[i] = q[i]
    BY <1>1, <1>3, AppendedEvent
  <2> HIDE DEF q, r
  <2>2. ASSUME NEW i \in DOMAIN r, NEW j \in DOMAIN r, i < j, r[i].name = r[j].name,
               r[i].op = "global_remove", r[j].op = "global"
        PROVE  FALSE
    <3>1. i \in 1 .. Len(q)
      BY <2>1, <2>2
    <3>2. CASE j = Len(q) + 1
      BY <2>1, <2>2, <3>1, <3>2 DEF Mentions, q
    <3>3. CASE j \in 1 .. Len(q)
      BY <1>1, <2>1, <2>2, <3>1, <3>3 DEF q
    <3> QED BY <2>1, <3>2, <3>3
  <2> QED BY <2>1, <2>2 DEF q, r
<1> QED BY <1>1, <1>2, <1>3

(* createGlobal(): the new name was never destroyed and everybody hears of *)
(* it.                                                                     *)
LEMMA CreateGlobalStep ==
  ASSUME RegistryInv, CreateGlobal
  PROVE  RegistryInv'
<1> DEFINE n == nextGlobalName + 1
           event == [op |-> "global", name |-> n]
<1>1. /\ nextGlobalName < MaxGlobals /\ nextGlobalName' = n
      /\ globals' = globals \cup {n}
      /\ Broadcast(event)
      /\ UNCHANGED <<destroys, timers, missed, told, registries, asked, known, closed, toServer>>
  BY DEF CreateGlobal, clientVars
<1>2. TypeOK /\ n \in Names /\ n > nextGlobalName /\ event \in Event /\ MaxGlobals \in Nat
  <2>1. TypeOK /\ MaxGlobals \in Nat /\ nextGlobalName \in 0 .. MaxGlobals
    BY RegistryAssumption DEF RegistryInv, TypeOK
  <2>2. n \in Names /\ n > nextGlobalName
    BY <1>1, <2>1 DEF Names
  <2> QED BY <2>1, <2>2 DEF Event
<1> HIDE DEF n
<1>3. ~Destroyed(n)
  BY <1>2 DEF RegistryInv, GlobalsInv
<1>4. /\ toClient' \in [Clients -> Seq(Event)]
      /\ \A c \in Clients : toClient'[c] = IF c \in registries \ closed THEN Append(toClient[c], event)
                                           ELSE toClient[c]
  BY <1>1, <1>2, BroadcastType
<1> HIDE DEF event
<1>5. TypeOK'
  <2>1. nextGlobalName' \in 0 .. MaxGlobals /\ globals' \subseteq 1 .. nextGlobalName'
    BY <1>1, <1>2 DEF TypeOK, n
  <2> QED BY <1>1, <1>2, <1>4, <2>1 DEF TypeOK
<1>6. GlobalsInv'
  BY <1>1, <1>2 DEF RegistryInv, GlobalsInv, Destroyed, TypeOK, n, Names
<1>7. AskInv'
  BY <1>1, <1>4 DEF RegistryInv, AskInv
<1>8. ViewInv'
  <2> SUFFICES ASSUME NEW c \in registries \ closed
               PROVE  LeadsTo(known[c], toClient'[c], Revealed(c)')
    BY <1>1 DEF ViewInv
  <2>1. c \in Clients /\ toClient[c] \in Seq(Event)
    BY <1>2 DEF TypeOK
  <2>2. LeadsTo(known[c], toClient[c], Revealed(c))
    BY DEF RegistryInv, ViewInv
  <2>3. \A k \in Names : k # n => (k \in Revealed(c) <=> k \in Revealed(c)')
    BY <1>1 DEF Revealed, Destroyed, Untold, Late
  <2>4. n \in Revealed(c)'
    BY <1>1, <1>3 DEF Revealed, Destroyed
  <2>5. LeadsTo(known[c], Append(toClient[c], event), Revealed(c)')
    BY <1>2, <2>1, <2>2, <2>3, <2>4, LeadsToAppend DEF event
  <2> QED BY <1>4, <2>1, <2>5
<1>9. \A c \in Clients : ~Mentions(toClient[c], n) /\ told[c][n] = 0
  BY <1>2 DEF RegistryInv, ToldInv
<1>10. ToldInv'
  <2> SUFFICES ASSUME NEW c \in Clients
               PROVE  /\ \A k \in Names : k > n => ~Mentions(toClient'[c], k) /\ told[c][k] = 0
                      /\ \A i, j \in DOMAIN toClient'[c] :
                            i < j /\ toClient'[c][i].name = toClient'[c][j].name
                            /\ toClient'[c][i].op = "global_remove" => toClient'[c][j].op # "global"
                      /\ \A k \in Names : told[c][k] > 0 /\ missed[c][k] = 0 =>
                            ~Announced(toClient'[c], k) /\ k \notin known[c]
    BY <1>1 DEF ToldInv
  <2>1. event.name = n
    BY DEF event
  <2>2. /\ \A k \in Names : Mentions(toClient'[c], k) => Mentions(toClient[c], k) \/ k = n
        /\ \A k \in Names : Announced(toClient'[c], k) => Announced(toClient[c], k) \/ k = n
        /\ \A i, j \in DOMAIN toClient'[c] :
              i < j /\ toClient'[c][i].name = toClient'[c][j].name
              /\ toClient'[c][i].op = "global_remove" => toClient'[c][j].op # "global"
    BY <1>1, <1>2, <1>9, <2>1, BroadcastTold
  <2>3. \A k \in Names : k > n => k > nextGlobalName /\ k # n
    BY <1>2 DEF Names, TypeOK
  <2> QED BY <1>9, <2>2, <2>3 DEF RegistryInv, ToldInv
<1>11. Timely => BindInv'
  <2> SUFFICES ASSUME Timely, NEW c \in Clients \ closed, NEW k \in Names, missed[c][k] = 0
               PROVE  /\ Announced(toClient'[c], k) => k \in globals'
                      /\ k \in known[c] => k \in globals'
                      /\ Binds(toServer[c], k) => k \in globals'
    BY <1>1 DEF BindInv
  <2>1. /\ Announced(toClient[c], k) => k \in globals
        /\ k \in known[c] => k \in globals
        /\ Binds(toServer[c], k) => k \in globals
    BY DEF RegistryInv, BindInv
  <2>2. Announced(toClient'[c], k) => Announced(toClient[c], k) \/ k = event.name
    BY <1>1, <1>2, <1>9, BroadcastTold DEF event
  <2>3. event.name = n
    BY DEF event
  <2> QED BY <1>1, <2>1, <2>2, <2>3
<1> QED BY <1>5, <1>6, <1>7, <1>8, <1>9, <1>10, <1>11 DEF RegistryInv

(* destroyGlobal(): the name is revoked on every registry.                 *)
LEMMA DestroyGlobalStep ==
  ASSUME RegistryInv, NEW n \in Names, DestroyGlobal(n)
  PROVE  RegistryInv'
<1> DEFINE event == [op |-> "global_remove", name |-> n]
<1>1. /\ n \in globals /\ destroys[n] < MaxDestroys
      /\ Broadcast(event)
      /\ destroys' = [destroys EXCEPT ![n] = @ + 1]
      /\ timers' = [timers EXCEPT ![n] = @ + 1]
      /\ UNCHANGED <<nextGlobalName, globals, missed, told, registries, asked, known, closed, toServer>>
  BY DEF DestroyGlobal, clientVars
<1>2. TypeOK /\ event \in Event
  BY DEF RegistryInv, Event
<1>3. /\ toClient' \in [Clients -> Seq(Event)]
      /\ \A c \in Clients : toClient'[c] = IF c \in registries \ closed THEN Append(toClient[c], event)
                                           ELSE toClient[c]
  BY <1>1, <1>2, BroadcastType
<1> HIDE DEF event
<1>4. /\ destroys \in [Names -> 0 .. MaxDestroys] /\ timers \in [Names -> 0 .. MaxDestroys]
      /\ missed \in [Clients -> [Names -> 0 .. MaxDestroys]] /\ MaxDestroys \in Nat /\ nextGlobalName \in Int
      /\ globals \subseteq 1 .. nextGlobalName
  BY <1>2, RegistryAssumption DEF TypeOK
<1>5. /\ destroys' \in [Names -> 0 .. MaxDestroys] /\ destroys'[n] > 0 /\ destroys'[n] = destroys[n] + 1
      /\ \A k \in Names : k # n => destroys'[k] = destroys[k] /\ timers'[k] = timers[k]
      /\ timers' \in [Names -> 0 .. MaxDestroys] /\ timers'[n] <= destroys'[n]
  BY <1>1, <1>4 DEF RegistryInv, GlobalsInv
<1>6. TypeOK'
  BY <1>1, <1>2, <1>3, <1>4, <1>5 DEF TypeOK
<1>7. GlobalsInv'
  <2>1. \A c \in Clients, k \in Names : missed[c][k] <= destroys[k] /\ missed[c][k] \in Nat /\ destroys[k] \in Nat
    BY <1>4 DEF RegistryInv, GlobalsInv
  <2>2. \A c \in Clients, k \in Names : missed[c][k] <= destroys'[k]
    BY <1>5, <2>1
  <2> QED BY <1>1, <1>4, <1>5, <2>2 DEF RegistryInv, GlobalsInv, Destroyed
<1>8. AskInv'
  BY <1>1, <1>3 DEF RegistryInv, AskInv
<1>9. ViewInv'
  <2> SUFFICES ASSUME NEW c \in registries \ closed
               PROVE  LeadsTo(known[c], toClient'[c], Revealed(c)')
    BY <1>1 DEF ViewInv
  <2>1. c \in Clients /\ toClient[c] \in Seq(Event)
    BY <1>2 DEF TypeOK
  <2>2. LeadsTo(known[c], toClient[c], Revealed(c))
    BY DEF RegistryInv, ViewInv
  <2>3. \A k \in Names : k # n => (k \in Revealed(c) <=> k \in Revealed(c)')
    BY <1>1, <1>5, <2>1 DEF Revealed, Destroyed, Untold, Late
  <2>4. n \notin Revealed(c)'
    <3>1. missed[c][n] <= destroys[n] /\ missed[c][n] \in Nat /\ destroys[n] \in Nat
      BY <1>4, <2>1 DEF RegistryInv, GlobalsInv
    <3> QED BY <1>1, <1>5, <2>1, <3>1 DEF Revealed, Destroyed, Untold, Late
  <2>5. LeadsTo(known[c], Append(toClient[c], event), Revealed(c)')
    BY <1>2, <2>1, <2>2, <2>3, <2>4, LeadsToAppend DEF event
  <2> QED BY <1>3, <2>1, <2>5
<1>10. event.op = "global_remove" /\ event.name = n
  BY DEF event
<1>11. ASSUME NEW c \in Clients
       PROVE  /\ \A k \in Names : Mentions(toClient'[c], k) => Mentions(toClient[c], k) \/ k = n
              /\ \A k \in Names : Announced(toClient'[c], k) => Announced(toClient[c], k)
              /\ \A i, j \in DOMAIN toClient'[c] :
                    i < j /\ toClient'[c][i].name = toClient'[c][j].name
                    /\ toClient'[c][i].op = "global_remove" => toClient'[c][j].op # "global"
  BY <1>1, <1>2, <1>10, BroadcastTold
<1>12. ToldInv'
  <2> SUFFICES ASSUME NEW c \in Clients
               PROVE  /\ \A k \in Names : k > nextGlobalName => ~Mentions(toClient'[c], k) /\ told[c][k] = 0
                      /\ \A i, j \in DOMAIN toClient'[c] :
                            i < j /\ toClient'[c][i].name = toClient'[c][j].name
                            /\ toClient'[c][i].op = "global_remove" => toClient'[c][j].op # "global"
                      /\ \A k \in Names : told[c][k] > 0 /\ missed[c][k] = 0 =>
                            ~Announced(toClient'[c], k) /\ k \notin known[c]
    BY <1>1 DEF ToldInv
  <2>1. \A k \in Names : k > nextGlobalName => k # n
    BY <1>1, <1>4
  <2> QED BY <1>11, <2>1 DEF RegistryInv, ToldInv
<1>13. Timely => BindInv'
  BY <1>1, <1>11 DEF RegistryInv, BindInv
<1> QED BY <1>6, <1>7, <1>8, <1>9, <1>12, <1>13 DEF RegistryInv

(* The timeout of destroyGlobal(): the global goes, which no view shows    *)
(* that was told of its destruction; with Timely nobody is about to bind   *)
(* it.                                                                     *)
LEMMA TimerFiresStep ==
  ASSUME RegistryInv, NEW n \in Names, TimerFires(n)
  PROVE  RegistryInv'
<1>1. /\ timers[n] > 0 /\ (Timely => ~UnderWay(n, destroys[n] - timers[n] + 1))
      /\ timers' = [timers EXCEPT ![n] = @ - 1]
      /\ globals' = globals \ {n}
      /\ UNCHANGED <<nextGlobalName, destroys, missed, told, registries, asked, known, closed, toServer, toClient>>
  BY DEF TimerFires, clientVars
<1>2. TypeOK /\ Destroyed(n) /\ destroys[n] - timers[n] + 1 \in Nat /\ destroys[n] - timers[n] + 1 > 0
  <2>1. timers[n] <= destroys[n] /\ timers[n] \in Nat /\ destroys[n] \in Nat
    BY DEF RegistryInv, TypeOK, GlobalsInv
  <2> QED BY <1>1, <2>1 DEF RegistryInv, Destroyed
<1>3. timers \in [Names -> 0 .. MaxDestroys] /\ MaxDestroys \in Nat
  BY <1>2, RegistryAssumption DEF TypeOK
<1>4. timers' \in [Names -> 0 .. MaxDestroys] /\ timers'[n] <= timers[n] /\ \A k \in Names : k # n => timers'[k] = timers[k]
  BY <1>1, <1>3
<1>5. TypeOK'
  BY <1>1, <1>2, <1>4 DEF TypeOK
<1>6. GlobalsInv'
  BY <1>1, <1>2, <1>3, <1>4 DEF RegistryInv, GlobalsInv, Destroyed, TypeOK
<1>7. AskInv'
  BY <1>1 DEF RegistryInv, AskInv
<1>8. \A c \in Clients : Revealed(c)' = Revealed(c)
  BY <1>1, <1>2 DEF Revealed, Destroyed, Untold, Late
<1>9. ViewInv'
  <2>1. registries \subseteq Clients
    BY <1>2 DEF TypeOK
  <2> QED BY <1>1, <1>8, <2>1 DEF RegistryInv, ViewInv
<1>10. ToldInv'
  BY <1>1 DEF RegistryInv, ToldInv
<1>11. Timely => BindInv'
  <2> SUFFICES ASSUME Timely, NEW c \in Clients \ closed, missed[c][n] = 0
               PROVE  ~Announced(toClient[c], n) /\ n \notin known[c] /\ ~Binds(toServer[c], n)
    BY <1>1 DEF RegistryInv, BindInv
  <2>1. CASE c \notin registries
    BY <2>1 DEF RegistryInv, AskInv, Announced, Binds
  <2>2. CASE c \in registries
    <3>1. ~(told[c][n] < destroys[n] - timers[n] + 1) /\ ~Binds(toServer[c], n)
      BY <1>1, <1>2, <2>2 DEF UnderWay
    <3>2. told[c][n] \in Nat
      BY <1>2 DEF TypeOK
    <3>3. told[c][n] > 0
      BY <1>2, <3>1, <3>2
    <3> QED BY <3>1, <3>3 DEF RegistryInv, ToldInv
  <2> QED BY <2>1, <2>2
<1> QED BY <1>5, <1>6, <1>7, <1>9, <1>10, <1>11 DEF RegistryInv

-----------------------------------------------------------------------------
(* The client's request for its registry is its first.                     *)
LEMMA ClientGetRegistryStep ==
  ASSUME RegistryInv, NEW c \in Clients, ClientGetRegistry(c)
  PROVE  RegistryInv'
<1>1. /\ c \notin asked
      /\ asked' = asked \cup {c}
      /\ toServer' = [toServer EXCEPT ![c] = Append(@, [op |-> "get_registry"])]
      /\ UNCHANGED <<nextGlobalName, globals, destroys, timers, missed, told, registries, known, closed, toClient>>
  BY DEF ClientGetRegistry, globalVars
<1>2. TypeOK /\ c \notin registries /\ toServer[c] = <<>> /\ toServer \in [Clients -> Seq(Request)]
  BY <1>1 DEF RegistryInv, TypeOK, AskInv
<1>3. /\ toServer'[c] = <<[op |-> "get_registry"]>>
      /\ \A d \in Clients : d # c => toServer'[d] = toServer[d]
  BY <1>1, <1>2
<1>4. TypeOK'
  <2>1. toServer' \in [Clients -> Seq(Request)]
    BY <1>1, <1>2 DEF Request
  <2> QED BY <1>1, <1>2, <2>1 DEF TypeOK
<1>5. GlobalsInv'
  BY <1>1 DEF RegistryInv, GlobalsInv, Destroyed
<1>6. AskInv'
  <2> SUFFICES ASSUME NEW d \in Clients
               PROVE  /\ d \notin asked' => toServer'[d] = <<>>
                      /\ d \notin registries =>
                            /\ known[d] = {} /\ toClient[d] = <<>>
                            /\ \A i \in DOMAIN toServer'[d] : toServer'[d][i].op = "get_registry"
                      /\ \A i \in DOMAIN toServer'[d] :
                            toServer'[d][i].op = "get_registry" => i = 1 /\ d \notin registries
    BY <1>1 DEF AskInv
  <2>1. CASE d = c
    BY <1>1, <1>2, <1>3, <2>1 DEF RegistryInv, AskInv
  <2>2. CASE d # c
    BY <1>1, <1>3, <2>2 DEF RegistryInv, AskInv
  <2> QED BY <2>1, <2>2
<1>7. ViewInv'
  BY <1>1 DEF RegistryInv, ViewInv, Revealed, Destroyed, Untold, Late
<1>8. Timely => BindInv'
  <2>1. \A n \in Names : ~Binds(toServer'[c], n)
    BY <1>3 DEF Binds
  <2>2. \A d \in Clients : d # c => toServer'[d] = toServer[d]
    BY <1>3
  <2> QED BY <1>1, <2>1, <2>2 DEF RegistryInv, BindInv
<1>9. ToldInv'
  BY <1>1 DEF RegistryInv, ToldInv
<1> QED BY <1>4, <1>5, <1>6, <1>7, <1>8, <1>9 DEF RegistryInv

(* A bind request names something the client knows.                        *)
LEMMA ClientBindStep ==
  ASSUME RegistryInv, NEW c \in Clients, NEW n \in Names, ClientBind(c, n)
  PROVE  RegistryInv'
<1> DEFINE request == [op |-> "bind", name |-> n]
<1>1. /\ c \notin closed /\ n \in known[c]
      /\ toServer' = [toServer EXCEPT ![c] = Append(@, request)]
      /\ UNCHANGED <<nextGlobalName, globals, destroys, timers, missed, told, registries, asked, known, closed, toClient>>
  BY DEF ClientBind, globalVars, clientVars
<1>2. TypeOK /\ request \in Request /\ toServer[c] \in Seq(Request) /\ c \in registries /\ c \in asked
  BY <1>1 DEF RegistryInv, TypeOK, AskInv, Request
<1>3. /\ toServer'[c] = Append(toServer[c], request)
      /\ \A d \in Clients : d # c => toServer'[d] = toServer[d]
      /\ toServer' \in [Clients -> Seq(Request)]
  BY <1>1, <1>2 DEF TypeOK
<1>4. TypeOK'
  BY <1>1, <1>2, <1>3 DEF TypeOK
<1>5. GlobalsInv'
  BY <1>1 DEF RegistryInv, GlobalsInv, Destroyed
<1>6. /\ DOMAIN toServer'[c] = 1 .. Len(toServer[c]) + 1 /\ Len(toServer[c]) \in Nat
      /\ DOMAIN toServer[c] = 1 .. Len(toServer[c])
      /\ toServer'[c][Len(toServer[c]) + 1] = request
      /\ \A i \in 1 .. Len(toServer[c]) : toServer'[c][i] = toServer[c][i]
  BY <1>2, <1>3
<1>7. request.op = "bind" /\ request.name = n
  OBVIOUS
<1> HIDE DEF request
<1>8. AskInv'
  <2> SUFFICES ASSUME NEW d \in Clients
               PROVE  /\ d \notin asked => toServer'[d] = <<>>
                      /\ d \notin registries =>
                            /\ known[d] = {} /\ toClient[d] = <<>>
                            /\ \A i \in DOMAIN toServer'[d] : toServer'[d][i].op = "get_registry"
                      /\ \A i \in DOMAIN toServer'[d] :
                            toServer'[d][i].op = "get_registry" => i = 1 /\ d \notin registries
    BY <1>1 DEF AskInv
  <2>1. CASE d = c
    BY SMTT(40), <1>2, <1>6, <1>7, <2>1 DEF RegistryInv, AskInv
  <2>2. CASE d # c
    BY <1>3, <2>2 DEF RegistryInv, AskInv
  <2> QED BY <2>1, <2>2
<1>9. ViewInv'
  BY <1>1 DEF RegistryInv, ViewInv, Revealed, Destroyed, Untold, Late
<1>10. Timely => BindInv'
  <2> SUFFICES ASSUME Timely, NEW d \in Clients \ closed, NEW k \in Names, missed[d][k] = 0,
                      Binds(toServer'[d], k)
               PROVE  k \in globals
    BY <1>1 DEF RegistryInv, BindInv
  <2>1. CASE d # c
    BY <1>3, <2>1 DEF RegistryInv, BindInv
  <2>2. CASE d = c /\ Binds(toServer[c], k)
    BY <2>2 DEF RegistryInv, BindInv
  <2>3. CASE d = c /\ ~Binds(toServer[c], k)
    <3>1. k = n
      BY SMTT(40), <1>6, <1>7, <2>3 DEF Binds
    <3> QED BY <1>1, <2>3, <3>1 DEF RegistryInv, BindInv
  <2> QED BY <2>1, <2>2, <2>3
<1>11. ToldInv'
  BY <1>1 DEF RegistryInv, ToldInv
<1> QED BY <1>4, <1>5, <1>8, <1>9, <1>10, <1>11 DEF RegistryInv

(* The client takes an event into account.                                 *)
LEMMA ClientReceivesStep ==
  ASSUME RegistryInv, NEW c \in Clients, ClientReceives(c)
  PROVE  RegistryInv'
<1> DEFINE event == Head(toClient[c])
           after == IF event.op = "global" THEN known[c] \cup {event.name} ELSE known[c] \ {event.name}
<1>1. /\ c \notin closed /\ toClient[c] # <<>>
      /\ known' = [known EXCEPT ![c] = after]
      /\ toClient' = [toClient EXCEPT ![c] = Tail(@)]
      /\ told' = [told EXCEPT ![c][event.name] = IF event.op = "global" THEN @ ELSE @ + 1]
      /\ UNCHANGED <<nextGlobalName, globals, destroys, timers, missed, registries, asked, closed, toServer>>
  BY DEF ClientReceives, globalVars
<1>2. /\ TypeOK /\ toClient[c] \in Seq(Event) /\ known[c] \subseteq Names /\ c \in registries
      /\ toClient \in [Clients -> Seq(Event)] /\ known \in [Clients -> SUBSET Names]
      /\ told \in [Clients -> [Names -> Nat]]
  BY <1>1 DEF RegistryInv, TypeOK, AskInv
<1>3. event \in Event /\ event = toClient[c][1] /\ 1 \in DOMAIN toClient[c] /\ event.name \in Names
  <2>1. event \in Event /\ event = toClient[c][1] /\ 1 \in DOMAIN toClient[c]
    BY <1>1, <1>2
  <2> QED BY <2>1 DEF Event
<1>4. LeadsTo(known[c], toClient[c], Revealed(c))
  BY <1>1, <1>2 DEF RegistryInv, ViewInv
<1>5. LeadsTo(after, Tail(toClient[c]), Revealed(c))
  BY <1>1, <1>2, <1>4, LeadsToTail
<1>6. /\ after \subseteq Names /\ after \subseteq known[c] \cup {event.name}
      /\ event.op # "global" => after = known[c] \ {event.name}
      /\ event.op = "global" \/ event.op = "global_remove"
  BY <1>2, <1>3 DEF Event
<1> HIDE DEF after
<1>7. /\ known'[c] = after /\ toClient'[c] = Tail(toClient[c])
      /\ \A d \in Clients : d # c => known'[d] = known[d] /\ toClient'[d] = toClient[d]
      /\ known' \in [Clients -> SUBSET Names] /\ toClient' \in [Clients -> Seq(Event)]
  BY <1>1, <1>2, <1>6
<1>8. TypeOK'
  <2>1. told' \in [Clients -> [Names -> Nat]]
    BY <1>1, <1>2, <1>3
  <2> QED BY <1>1, <1>2, <1>7, <2>1 DEF TypeOK
<1>9. GlobalsInv'
  BY <1>1 DEF RegistryInv, GlobalsInv, Destroyed
<1>10. AskInv'
  BY <1>1, <1>2, <1>7 DEF RegistryInv, AskInv
<1>11. ViewInv'
  <2>1. \A d \in Clients : Revealed(d)' = Revealed(d)
    BY <1>1 DEF Revealed, Destroyed, Untold, Late
  <2>2. registries \subseteq Clients
    BY <1>2 DEF TypeOK
  <2> QED BY <1>1, <1>5, <1>7, <2>1, <2>2 DEF RegistryInv, ViewInv
<1>12. /\ DOMAIN toClient[c] = 1 .. Len(toClient[c]) /\ Len(toClient[c]) \in Nat
       /\ \A i \in DOMAIN toClient'[c] : /\ i + 1 \in DOMAIN toClient[c] /\ i \in Nat /\ i > 0
                                         /\ toClient'[c][i] = toClient[c][i + 1]
  BY <1>1, <1>2, <1>7
<1>13. \A k \in Names : /\ Mentions(toClient'[c], k) => Mentions(toClient[c], k)
                        /\ Announced(toClient'[c], k) => Announced(toClient[c], k)
  BY <1>12 DEF Mentions, Announced
<1>14. /\ Mentions(toClient[c], event.name)
       /\ event.op = "global" => Announced(toClient[c], event.name)
  BY <1>3 DEF Mentions, Announced
<1>15. event.op = "global_remove" => ~Announced(toClient'[c], event.name)
  <2> SUFFICES ASSUME event.op = "global_remove", NEW i \in DOMAIN toClient'[c],
                      toClient'[c][i].op = "global", toClient'[c][i].name = event.name
               PROVE  FALSE
    BY DEF Announced
  <2>1. i + 1 \in DOMAIN toClient[c] /\ 1 < i + 1 /\ toClient[c][i + 1] = toClient'[c][i]
    BY <1>12
  <2> QED BY <1>3, <2>1 DEF RegistryInv, ToldInv
<1>16. /\ \A d \in Clients : d # c => told'[d] = told[d]
       /\ \A k \in Names : k # event.name => told'[c][k] = told[c][k]
       /\ event.op = "global" => told'[c] = told[c]
  BY <1>1, <1>2, <1>3
<1> HIDE DEF event
<1>17. ToldInv'
  <2> SUFFICES ASSUME NEW d \in Clients
               PROVE  /\ \A k \in Names : k > nextGlobalName => ~Mentions(toClient'[d], k) /\ told'[d][k] = 0
                      /\ \A i, j \in DOMAIN toClient'[d] :
                            i < j /\ toClient'[d][i].name = toClient'[d][j].name
                            /\ toClient'[d][i].op = "global_remove" => toClient'[d][j].op # "global"
                      /\ \A k \in Names : told'[d][k] > 0 /\ missed[d][k] = 0 =>
                            ~Announced(toClient'[d], k) /\ k \notin known'[d]
    BY <1>1 DEF ToldInv
  <2>1. CASE d # c
    BY SMTT(40), <1>7, <1>16, <2>1 DEF RegistryInv, ToldInv
  <2>2. CASE d = c
    <3>1. ASSUME NEW k \in Names, k > nextGlobalName PROVE ~Mentions(toClient'[c], k) /\ told'[c][k] = 0
      <4>1. ~Mentions(toClient[c], k) /\ told[c][k] = 0
        BY <3>1 DEF RegistryInv, ToldInv
      <4> QED BY <1>13, <1>14, <1>16, <4>1
    <3>2. ASSUME NEW i \in DOMAIN toClient'[c], NEW j \in DOMAIN toClient'[c], i < j,
                 toClient'[c][i].name = toClient'[c][j].name, toClient'[c][i].op = "global_remove"
          PROVE  toClient'[c][j].op # "global"
      <4>1. i + 1 < j + 1 /\ i + 1 \in DOMAIN toClient[c] /\ j + 1 \in DOMAIN toClient[c]
            /\ toClient'[c][i] = toClient[c][i + 1] /\ toClient'[c][j] = toClient[c][j + 1]
        BY <1>12, <3>2
      <4> QED BY <3>2, <4>1 DEF RegistryInv, ToldInv
    <3>3. ASSUME NEW k \in Names, told'[c][k] > 0, missed[c][k] = 0
          PROVE  ~Announced(toClient'[c], k) /\ k \notin known'[c]
      <4>1. told[c][k] > 0 => ~Announced(toClient[c], k) /\ k \notin known[c]
        BY <3>3 DEF RegistryInv, ToldInv
      <4>2. CASE k # event.name
        BY <1>6, <1>7, <1>13, <1>16, <3>3, <4>1, <4>2
      <4>3. CASE k = event.name /\ event.op = "global"
        BY <1>14, <1>16, <3>3, <4>1, <4>3
      <4>4. CASE k = event.name /\ event.op = "global_remove"
        BY <1>6, <1>7, <1>15, <4>4
      <4> QED BY <1>6, <4>2, <4>3, <4>4
    <3> QED BY <2>2, <3>1, <3>2, <3>3
  <2> QED BY <2>1, <2>2
<1>18. Timely => BindInv'
  <2> SUFFICES ASSUME Timely, NEW d \in Clients \ closed, NEW k \in Names, missed[d][k] = 0
               PROVE  /\ Announced(toClient'[d], k) => k \in globals
                      /\ k \in known'[d] => k \in globals
                      /\ Binds(toServer[d], k) => k \in globals
    BY <1>1 DEF BindInv
  <2>1. /\ Announced(toClient[d], k) => k \in globals
        /\ k \in known[d] => k \in globals
        /\ Binds(toServer[d], k) => k \in globals
    BY DEF RegistryInv, BindInv
  <2>2. CASE d # c
    BY <1>7, <2>1, <2>2
  <2>3. CASE d = c
    BY <1>6, <1>7, <1>13, <1>14, <2>1, <2>3
  <2> QED BY <2>2, <2>3
<1> QED BY <1>8, <1>9, <1>10, <1>11, <1>17, <1>18 DEF RegistryInv

-----------------------------------------------------------------------------
(* Taking the first request of a client leaves the others as they are.     *)
LEMMA TailRequests ==
  ASSUME TypeOK, NEW c \in Clients, toServer[c] # <<>>,
         toServer' = [toServer EXCEPT ![c] = Tail(@)]
  PROVE  /\ toServer' \in [Clients -> Seq(Request)]
         /\ \A d \in Clients : d # c => toServer'[d] = toServer[d]
         /\ \A i \in DOMAIN toServer'[c] : i + 1 \in DOMAIN toServer[c] /\ i + 1 # 1
                                           /\ toServer'[c][i] = toServer[c][i + 1]
         /\ Head(toServer[c]) = toServer[c][1] /\ 1 \in DOMAIN toServer[c]
         /\ Head(toServer[c]) \in Request
<1>1. toServer[c] \in Seq(Request) /\ toServer'[c] = Tail(toServer[c])
  BY DEF TypeOK
<1>2. /\ Tail(toServer[c]) \in Seq(Request)
      /\ Head(toServer[c]) = toServer[c][1] /\ 1 \in DOMAIN toServer[c]
      /\ Head(toServer[c]) \in Request
      /\ \A i \in DOMAIN Tail(toServer[c]) : i + 1 \in DOMAIN toServer[c] /\ i + 1 # 1
                                             /\ Tail(toServer[c])[i] = toServer[c][i + 1]
  BY <1>1
<1>3. toServer' \in [Clients -> Seq(Request)] /\ \A d \in Clients : d # c => toServer'[d] = toServer[d]
  BY <1>2 DEF TypeOK
<1> QED BY <1>1, <1>2, <1>3

(* Client.getRegistry(): the new registry is told every global there is,   *)
(* and the destroyed ones among them are the ones it hears of too late.    *)
LEMMA ServerGetRegistryStep ==
  ASSUME RegistryInv, NEW c \in Clients, ServerGetRegistry(c)
  PROVE  RegistryInv'
<1>1. /\ c \notin closed /\ toServer[c] # <<>> /\ Head(toServer[c]).op = "get_registry"
      /\ registries' = registries \cup {c}
      /\ missed' = [missed EXCEPT ![c] = [n \in Names |-> IF n \in globals THEN destroys[n] ELSE 0]]
      /\ told' = [told EXCEPT ![c] = destroys]
      /\ toServer' = [toServer EXCEPT ![c] = Tail(@)]
      /\ UNCHANGED <<nextGlobalName, globals, destroys, timers, asked, known, closed>>
  BY DEF ServerGetRegistry, clientVars
<1>2. PICK events \in Announcements : toClient' = [toClient EXCEPT ![c] = @ \o events]
  BY DEF ServerGetRegistry
<1>3. TypeOK
  BY DEF RegistryInv
<1>4. /\ toServer' \in [Clients -> Seq(Request)]
      /\ \A d \in Clients : d # c => toServer'[d] = toServer[d]
      /\ \A i \in DOMAIN toServer'[c] : i + 1 \in DOMAIN toServer[c] /\ i + 1 # 1
                                        /\ toServer'[c][i] = toServer[c][i + 1]
      /\ Head(toServer[c]) = toServer[c][1] /\ 1 \in DOMAIN toServer[c]
  BY <1>1, <1>3, TailRequests
<1>5. /\ c \notin registries /\ c \in asked /\ known[c] = {} /\ toClient[c] = <<>>
      /\ \A i \in DOMAIN toServer[c] : toServer[c][i].op = "get_registry" /\ i = 1
  BY <1>1, <1>4 DEF RegistryInv, AskInv
<1>6. DOMAIN toServer'[c] = {}
  BY <1>4, <1>5
<1>7. /\ events \in Seq(Event) /\ LeadsTo({}, events, globals)
      /\ \A n \in Names : Mentions(events, n) => n \in globals
      /\ \A i \in DOMAIN events : events[i].op = "global"
  BY <1>3, LeadsToAll
<1>8. /\ toClient'[c] = events
      /\ \A d \in Clients : d # c => toClient'[d] = toClient[d]
      /\ toClient' \in [Clients -> Seq(Event)]
  <2>1. toClient[c] \o events = events
    BY <1>5, <1>7
  <2> QED BY <1>2, <1>3, <1>7, <2>1 DEF TypeOK
<1>9. /\ \A n \in Names : missed'[c][n] = IF n \in globals THEN destroys[n] ELSE 0
      /\ told'[c] = destroys
      /\ \A d \in Clients : d # c => missed'[d] = missed[d] /\ told'[d] = told[d]
      /\ missed' \in [Clients -> [Names -> 0 .. MaxDestroys]]
      /\ told' \in [Clients -> [Names -> Nat]]
      /\ globals \subseteq Names /\ \A n \in Names : destroys[n] \in Nat
  <2>1. globals \subseteq Names /\ MaxDestroys \in Nat
    BY <1>3, RegistryAssumption DEF TypeOK, Names
  <2>2. /\ destroys \in [Names -> 0 .. MaxDestroys] /\ missed \in [Clients -> [Names -> 0 .. MaxDestroys]]
        /\ told \in [Clients -> [Names -> Nat]]
    BY <1>3 DEF TypeOK
  <2>3. destroys \in [Names -> Nat]
    BY <2>1, <2>2
  <2>4. [n \in Names |-> IF n \in globals THEN destroys[n] ELSE 0] \in [Names -> 0 .. MaxDestroys]
    BY <2>1, <2>2
  <2> QED BY <1>1, <2>1, <2>2, <2>3, <2>4
<1>10. TypeOK'
  BY <1>1, <1>3, <1>4, <1>5, <1>8, <1>9 DEF TypeOK
<1>11. GlobalsInv'
  BY <1>1, <1>9 DEF RegistryInv, GlobalsInv, Destroyed
<1>12. AskInv'
  BY ZenonT(60), <1>1, <1>4, <1>5, <1>6, <1>8 DEF RegistryInv, AskInv
<1>13. ViewInv'
  <2> SUFFICES ASSUME NEW d \in registries' \ closed
               PROVE  LeadsTo(known[d], toClient'[d], Revealed(d)')
    BY <1>1 DEF ViewInv
  <2>1. CASE d = c
    <3>1. Revealed(c)' = globals
      BY <1>1, <1>9 DEF Revealed, Destroyed, Untold, Late
    <3> QED BY <1>5, <1>7, <1>8, <2>1, <3>1
  <2>2. CASE d # c
    <3>1. d \in registries /\ d \in Clients
      BY <1>1, <1>3, <2>2 DEF TypeOK
    <3>2. Revealed(d)' = Revealed(d)
      BY <1>1, <1>9, <2>2, <3>1 DEF Revealed, Destroyed, Untold, Late
    <3> QED BY <1>8, <2>2, <3>1, <3>2 DEF RegistryInv, ViewInv
  <2> QED BY <2>1, <2>2
<1>14. \A n \in Names : Announced(toClient'[c], n) => n \in globals
  BY <1>7, <1>8 DEF Announced, Mentions
<1>15. ToldInv'
  <2> SUFFICES ASSUME NEW d \in Clients
               PROVE  /\ \A k \in Names : k > nextGlobalName => ~Mentions(toClient'[d], k) /\ told'[d][k] = 0
                      /\ \A i, j \in DOMAIN toClient'[d] :
                            i < j /\ toClient'[d][i].name = toClient'[d][j].name
                            /\ toClient'[d][i].op = "global_remove" => toClient'[d][j].op # "global"
                      /\ \A k \in Names : told'[d][k] > 0 /\ missed'[d][k] = 0 =>
                            ~Announced(toClient'[d], k) /\ k \notin known[d]
    BY <1>1 DEF ToldInv
  <2>1. CASE d # c
    <3>1. toClient'[d] = toClient[d] /\ told'[d] = told[d] /\ missed'[d] = missed[d]
      BY <1>8, <1>9, <2>1
    <3>2. /\ \A k \in Names : k > nextGlobalName => ~Mentions(toClient[d], k) /\ told[d][k] = 0
          /\ \A i, j \in DOMAIN toClient[d] :
                i < j /\ toClient[d][i].name = toClient[d][j].name
                /\ toClient[d][i].op = "global_remove" => toClient[d][j].op # "global"
          /\ \A k \in Names : told[d][k] > 0 /\ missed[d][k] = 0 =>
                ~Announced(toClient[d], k) /\ k \notin known[d]
      BY DEF RegistryInv, ToldInv
    <3> QED BY <3>1, <3>2
  <2>2. CASE d = c
    <3>1. ASSUME NEW k \in Names, k > nextGlobalName PROVE ~Mentions(toClient'[c], k) /\ told'[c][k] = 0
      <4>1. k \notin globals /\ destroys[k] = 0
        BY <1>3, <1>9, <3>1 DEF TypeOK, RegistryInv, GlobalsInv, Destroyed, Names
      <4> QED BY <1>7, <1>8, <1>9, <4>1
    <3>2. ASSUME NEW k \in Names, told'[c][k] > 0, missed'[c][k] = 0
          PROVE  ~Announced(toClient'[c], k) /\ k \notin known[c]
      BY <1>5, <1>9, <1>14, <3>2
    <3> QED BY <1>7, <1>8, <2>2, <3>1, <3>2
  <2> QED BY <2>1, <2>2
<1>16. Timely => BindInv'
  <2> SUFFICES ASSUME Timely, NEW d \in Clients \ closed, NEW k \in Names, missed'[d][k] = 0
               PROVE  /\ Announced(toClient'[d], k) => k \in globals
                      /\ k \in known[d] => k \in globals
                      /\ Binds(toServer'[d], k) => k \in globals
    BY <1>1 DEF BindInv
  <2>1. CASE d = c
    BY <1>5, <1>6, <1>14, <2>1 DEF Binds
  <2>2. CASE d # c
    BY <1>4, <1>8, <1>9, <2>2 DEF RegistryInv, BindInv
  <2> QED BY <2>1, <2>2
<1> QED BY <1>10, <1>11, <1>12, <1>13, <1>15, <1>16 DEF RegistryInv

(* bind() takes the request, and closes the connection if its global is    *)
(* gone.                                                                   *)
LEMMA ServerBindStep ==
  ASSUME RegistryInv, NEW c \in Clients, ServerBind(c)
  PROVE  RegistryInv'
<1>1. /\ toServer[c] # <<>> /\ Head(toServer[c]).op = "bind"
      /\ closed \subseteq closed' /\ closed' \subseteq Clients
      /\ toServer' = [toServer EXCEPT ![c] = Tail(@)]
      /\ UNCHANGED <<nextGlobalName, globals, destroys, timers, missed, told, registries, asked, known, toClient>>
  BY DEF ServerBind, globalVars, clientVars, RegistryInv, TypeOK
<1>2. TypeOK
  BY DEF RegistryInv
<1>3. /\ toServer' \in [Clients -> Seq(Request)]
      /\ \A d \in Clients : d # c => toServer'[d] = toServer[d]
      /\ \A i \in DOMAIN toServer'[c] : i + 1 \in DOMAIN toServer[c] /\ i + 1 # 1
                                        /\ toServer'[c][i] = toServer[c][i + 1]
      /\ Head(toServer[c]) = toServer[c][1] /\ 1 \in DOMAIN toServer[c]
  BY <1>1, <1>2, TailRequests
<1>4. c \in registries /\ c \in asked /\ \A i \in DOMAIN toServer[c] : toServer[c][i].op # "get_registry"
  <2>1. c \in registries
    BY <1>1, <1>3 DEF RegistryInv, AskInv
  <2> QED BY <1>2, <2>1 DEF RegistryInv, AskInv, TypeOK
<1>5. TypeOK'
  BY <1>1, <1>2, <1>3 DEF TypeOK
<1>6. GlobalsInv'
  BY <1>1 DEF RegistryInv, GlobalsInv, Destroyed
<1>7. AskInv'
  <2> SUFFICES ASSUME NEW d \in Clients
               PROVE  /\ d \notin asked => toServer'[d] = <<>>
                      /\ d \notin registries =>
                            /\ known[d] = {} /\ toClient[d] = <<>>
                            /\ \A i \in DOMAIN toServer'[d] : toServer'[d][i].op = "get_registry"
                      /\ \A i \in DOMAIN toServer'[d] :
                            toServer'[d][i].op = "get_registry" => i = 1 /\ d \notin registries
    BY <1>1 DEF AskInv
  <2>1. CASE d = c
    BY <1>3, <1>4, <2>1
  <2>2. CASE d # c
    BY <1>3, <2>2 DEF RegistryInv, AskInv
  <2> QED BY <2>1, <2>2
<1>8. ViewInv'
  BY <1>1 DEF RegistryInv, ViewInv, Revealed, Destroyed, Untold, Late
<1>9. Timely => BindInv'
  <2>1. \A n \in Names : Binds(toServer'[c], n) => Binds(toServer[c], n)
    BY <1>3 DEF Binds
  <2> QED BY <1>1, <1>3, <2>1 DEF RegistryInv, BindInv
<1>10. ToldInv'
  BY <1>1 DEF RegistryInv, ToldInv
<1> QED BY <1>5, <1>6, <1>7, <1>8, <1>9, <1>10 DEF RegistryInv

(* A client that disconnects takes part in no view any more.               *)
LEMMA DisconnectStep ==
  ASSUME RegistryInv, NEW c \in Clients, Disconnect(c)
  PROVE  RegistryInv'
<1> USE DEF Disconnect, globalVars, clientVars, RegistryInv
<1>1. TypeOK' /\ GlobalsInv' /\ AskInv'
  BY DEF TypeOK, GlobalsInv, AskInv, Destroyed
<1>2. ViewInv' /\ ToldInv'
  <2>1. ViewInv'
    BY DEF ViewInv, Revealed, Destroyed, Untold, Late
  <2>2. ToldInv'
    BY DEF ToldInv
  <2> QED BY <2>1, <2>2
<1>3. Timely => BindInv'
  BY DEF BindInv
<1> QED BY <1>1, <1>2, <1>3

-----------------------------------------------------------------------------
(* Every step of the compositor and of its clients.                        *)
LEMMA NextInv == RegistryInv /\ [Next]_vars => RegistryInv'
<1> SUFFICES ASSUME RegistryInv, [Next]_vars PROVE RegistryInv'
  OBVIOUS
<1>1. CASE UNCHANGED vars
  <2>1. TypeOK' /\ GlobalsInv' /\ AskInv'
    BY <1>1 DEF vars, RegistryInv, TypeOK, GlobalsInv, AskInv, Destroyed
  <2>2. ViewInv'
    BY <1>1 DEF vars, RegistryInv, ViewInv, Revealed, Destroyed, Untold, Late
  <2>3. ToldInv' /\ (Timely => BindInv')
    BY <1>1 DEF vars, RegistryInv, ToldInv, BindInv
  <2> QED BY <2>1, <2>2, <2>3 DEF RegistryInv
<1>2. CASE Next
  BY <1>2, CreateGlobalStep, DestroyGlobalStep, TimerFiresStep, ClientGetRegistryStep,
     ClientBindStep, ClientReceivesStep, ServerGetRegistryStep, ServerBindStep, DisconnectStep
     DEF Next
<1> QED BY <1>1, <1>2

(* The invariant of globals, registries and what is under way.             *)
THEOREM RegistryInvariant == Spec => []RegistryInv
  BY InitInv, NextInv, PTL DEF Spec

(* Told everything, a client knows exactly the globals that exist and were *)
(* not destroyed, and those that publishGlobals() announced although they  *)
(* were: whatever the delays, and whatever the timers have done.           *)
THEOREM ViewsExact == Spec => []ViewExact
<1>1. RegistryInv => ViewExact
  <2> SUFFICES ASSUME RegistryInv, NEW c \in registries \ closed, toClient[c] = <<>>
               PROVE  known[c] = Revealed(c)
    BY DEF ViewExact, Revealed
  <2>1. \A n \in Names : n \in known[c] <=> n \in Revealed(c)
    BY DEF RegistryInv, ViewInv, LeadsTo, Mentions
  <2>2. c \in Clients /\ known[c] \subseteq Names /\ Untold(c) \subseteq Names /\ globals \subseteq Names
    BY RegistryAssumption DEF RegistryInv, TypeOK, Names, Untold, Late
  <2> QED BY <2>1, <2>2 DEF Revealed
<1> QED BY <1>1, RegistryInvariant, PTL

(* If a round trip is shorter than the timer of destroyGlobal(), bind()    *)
(* finds the global, however often destroyGlobal() was called, unless the  *)
(* registry is younger than the first of these calls.                      *)
THEOREM BindsFindGlobals ==
  ASSUME Timely
  PROVE  Spec => []BindFindsGlobal
<1>1. RegistryInv => BindFindsGlobal
  <2> SUFFICES ASSUME RegistryInv, NEW c \in Clients \ closed,
                      toServer[c] # <<>>, Head(toServer[c]).op = "bind"
               PROVE  Head(toServer[c]).name \in globals \cup Late(c)
    BY DEF BindFindsGlobal
  <2> DEFINE request == Head(toServer[c])
  <2>1. toServer[c] \in Seq(Request)
    BY DEF RegistryInv, TypeOK
  <2>2. request \in Request /\ 1 \in DOMAIN toServer[c] /\ request = toServer[c][1]
    BY <2>1
  <2>3. request.name \in Names /\ request = [op |-> "bind", name |-> request.name]
    BY <2>2 DEF Request
  <2>4. Binds(toServer[c], request.name)
    BY <2>2, <2>3 DEF Binds
  <2>5. missed[c][request.name] \in Nat
    BY <2>3, RegistryAssumption DEF RegistryInv, TypeOK
  <2> QED BY <2>3, <2>4, <2>5 DEF RegistryInv, BindInv, Late
<1> QED BY <1>1, RegistryInvariant, PTL
=============================================================================
