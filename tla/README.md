# Westfield in TLA+

Westfield runs the Wayland protocol between a browser compositor and its
clients. Browser applications speak it over message ports; native applications
reach the same compositor through a Node.js proxy that links a fork of
libwayland-server. This directory holds TLA+ models of its parts, the TLC
configurations that check them, and proofs that TLAPS checks.

Every module starts with a comment on what it models; `PROJECT.json` maps each
definition to the lines it stands for.

## 1. The system

| Part | Source | State | Operations |
| --- | --- | --- | --- |
| Connection | `common/src/Connection.ts` | queue of received buffers, queue of marshalled messages, table of objects, `closed` | `message()`, `flush()`, `close()`, `marshallMsg()`, `registerWlObject()`, `unregisterWlObject()`, and the argument codec |
| Client runtime | `client/web/runtime/src/westfield-runtime-client.ts` and generated proxies | proxies by id, reusable ids, `lastId`, promise of `onClose()` | constructors and destructors of proxies, `sync()`, `close()`, the events `delete_id` and `error`, the connect handshake |
| Server runtime | `server/web/runtime/src/westfield-runtime-server.ts` | resources by id, server ids, clients of a display, globals, registries | `Client.close()`, `unregisterResource()`, `sync()`, `Resource.destroy()`, `createGlobal()`, `destroyGlobal()`, `bind()` |
| Native object table | `wayland-util.c`, `wayland-server.c` | `wl_map` (two arrays and a free list threaded through one), resources | `wl_resource_create()`, `wl_resource_destroy()`, `wl_resource_destroy_silently()`, `wl_get_server_object_ids_batch()`, `wl_client_destroy()` |
| Native shared memory | `wayland-shm.c` | pool, reference counts, mappings, buffers | create and destroy buffers and pools, resize, reference and release |
| Native event loop | `event-loop.c` | timer heap, timerfd, sources, idle and destroy lists | add, arm, disarm and remove, dispatch |
| Native connection | `connection.c` | ring buffers for bytes and for file descriptors | read, write, flush, (de)marshal |
| Native dispatch and interception | `wayland-server.c:335`, `westfield-addon.c`, `westfield-proxy-server.ts` | per-client callbacks into JavaScript | offer each message to the browser first, then dispatch natively |
| Native display | `wayland-server.c`, `westfield-addon.c` | clients, globals, registries, sync tasks, what the proxy knows of globals | `dispatchRequests()`, accept, flush and destroy clients, create and remove globals, `registry_bind`, `display_sync` |
| Listening socket | `wayland-server.c:1157-1775` | socket and lock file of each display number | `wl_display_add_socket_auto()`, `wl_socket_destroy()` |
| XWayland launcher | `westfield-xwayland.c` | lock file and socket of an X display, the X server process, descriptors | listen, spawn, tear down |
| Dmabuf, DRM, EGL | `wlr_linux_dmabuf_v1.c`, `wlr_drm.c`, `westfield-egl.c`, `drm_format_set.c`, ... | format sets and their table, parameter objects that own descriptors, buffers | `initDrm()`, bind, feedback, add planes, create, destroy |
| OS wrappers | `wayland-os.c`, `westfield-fdutils.c` | descriptors and their close-on-exec flag | socket, dup, accept, epoll, recvmsg, anonymous file, pipe |
| Generators | `*/generator`, `proxy-generator` | none | emit one method per request and event |

How they interact. Both runtimes put a Connection on either end of a message
port. The client allocates ids for the objects it makes, the server for its
own; each side keeps a table of the ids in use, and `delete_id` returns an id
to the client. For a native client the proxy shares the id space with the
browser: the addon offers each request to JavaScript, which keeps it (the
object lives in the browser) or lets the native library dispatch it (shared
memory, dmabuf), and the browser reserves native server ids in batches and
creates and destroys native resources by id.

What makes it hard. JavaScript is single threaded, but `message()` awaits its
handlers, so the loop, the application and later buffers interleave at every
await. Two endpoints reuse ids while messages for earlier objects are under
way. Removal of a global is announced now and effective five seconds later.
Native destroy listeners run in the middle of walks over the data they change.
Readers hold a mapping that the client resizes or truncates. Bytes and file
descriptors of a message travel in separate queues, sockets accept as little as
they like, and a client may stop reading. Processes compete for display names
and crash holding them. Operating system calls fail between two assignments.
The list in `PROJECT.json` under `hazards` gives the
line of each, and the properties that answer it.

Correctness, by part: a connection dispatches every message once, in order, one
at a time, until it closes, and sends what was marshalled without gap; objects
and ids correspond at both ends and no id is lost; clients know exactly the
globals that exist and can bind what they know; the native table keeps its free
list, finds only live resources and frees each once; what is read stays mapped
and nothing stays mapped for nobody; no deadline is slept through; what is
written to a native client arrives once, in order and with its descriptors,
also after it was blocked; no event source runs once it was freed; every
descriptor has one owner; a display name belongs to one process; what is
advertised can be imported.

## 2. Modules

### Connection (with MCConnection, ConnectionProofs)

`message()` is cut at its awaits: `Message` is the queueing with the early
return, `LoopTop` the flush and the snapshot, `CallHandler` or `RejectMessage`
one message, `HandlerAwait`, `HandlerResume`, `HandlerReturn` and
`HandlerThrow` what a handler may do, `BatchDone` the end of a pass and
`Settle` the end of the call. `running` is the call that owns the thread. The
`Api...` actions are the methods of a Connection as listeners and applications
call them; they happen while a handler runs, between tasks, and in destroy
listeners. `close()` is a loop of steps (`DestroyNext`, `CloseFinish`) because
each `destroy()` runs listeners that use the connection. They may register
objects, which no snapshot of `close()` contains (`late`), call `close()`
again, as it is not closed yet (`closing` is the stack of these calls), or
throw, which ends the innermost `close()` (`ListenerThrows`). A buffer is a
number of messages; what a message says (an id and a form: well formed, too
large, unknown opcode) is chosen when the loop looks at it, since nobody looks
before. Offsets count messages, since handlers are assumed to consume their
arguments; `WireCodec` looks into that assumption. `onFlush` may throw when
`FlushMayThrow` is set.

### WireCodec (with MCWireCodec)

One flush from marshalling to the last argument read. The buffer is a sequence
of words: a number, or four bytes of a payload, so that a misplaced reader
shows. A text is a sequence of code units, of which the marshaller keeps the low
bytes (`PayloadBytes`) and the readers decode those as UTF-8 (`Decode`); an
array is a view at an offset of its buffer, and the marshaller copies from the
beginning of the buffer. `MarshallMsg` is `marshall()`, `marshallMsg()` and the
joining of messages and descriptors in `onFlush`; `ReadHeader` is the head of
the message loop; `ReadArg` is a reader (`u`, `i`, `s`, ... keep their names)
with `checkMessageSize()`, `ReadFd` is `h()`, `ReadThrows` the closing of the
connection when one throws. `NoListener` is an event nobody listens to: its
arguments are not evaluated, so not consumed. `n` is read like `u` and `f` like
`i`. A reader that is out of step meets words of another kind; the model stops
there. `UnmarshallArgs` is the unmarshaller of the proxy, which works on one
message at a time.

Two operators name the inputs that do not arrive as they were sent, and both
properties would fail without them. `Altered` are arguments that the conversion
changes: text that is not ASCII, and views that do not begin where their buffer
does. After `LosesStep` arguments the reader is out of step: non-empty arrays,
and empty optional strings (`stringOptional()` counts the empty string in its
size and leaves it out of its value); `Sound` adds events without a listener
and messages of 2^16 bytes. `DecodedExact` says that what was read is what was
sent, unless it was altered, and that the reader is in step while it is `Sound`,
whatever the texts are. `ProxyExact` excepts altered arguments and messages
with an empty optional string.

### ObjectIds (with MCObjectIds, ObjectIdsProofs)

Client and server runtime with two queues between them, each an endpoint of a
Connection (messages are handled one by one in order, which module Connection
shows). Four kinds of object stand for the ways objects end: by a destructor
request, by the server after a done event (`callback`, and `sync`, which the
server ends at once), and server-made objects ended by the client. Every object
has a serial number, carried by messages, to tell apart the objects that share
an id; the program does not see it. `lost` records ids that were taken by a
constructor that threw. Either side closes at any time and loses a suffix of
what was not flushed.

### Registry (with MCRegistry, RegistryProofs)

Globals, registries and binds of the server runtime with several clients.
`TimerFires` is the timeout of `destroyGlobal()`, which forgets the global; a
second call starts a second timer, and the timers of a global fire in the order
of the calls. `Timely` says of each call on its own that an event and the answer
of a client that had not received it take less than its five seconds together:
`UnderWay(n, call)` is false when the timer of that call fires. The first timer
takes the global away while the events of a second call, and binds from before
them, may be under way. Two histories count calls of `destroyGlobal()`: those a
registry `missed` because it is younger, and those a client was `told` of. A
registry that missed one was told of a global that is going (`Late`), and
unless there is another call never of its removal (`Untold`); the properties
except exactly those.

### ClientObjects and ObjectTable (with MCClientObjects, ClientObjectsProofs)

`wl_map` word by word: an entry is NULL, a pointer or a link of the free list,
and the end of the list looks like an id without a resource. The operations are
those of the fork: the browser takes server ids (`GetServerObjectId`), a
resource is created at one of them or at a client id (0 included), whether the
entry is taken or not, destroyed natively or silently, and
`wl_client_destroy()` walks both arrays while destroy callbacks destroy other
resources. Destroy callbacks create none. A resource whose entry another one is
written over is `orphaned`: nothing finds it any more, so that it is leaked.
`freeIds` is auxiliary: the list in order. `ObjectTable` is the promise: a
function from the server ids in somebody's hands to what they refer to;
`ImplementsTable` is the refinement.

### ShmPool (with MCShmPool, ShmPoolProofs)

One pool. Addresses number mappings; `mremap()` moves the mapping, or, with an
external reference, makes another and records the old one, or fails. Sizes,
offsets and strides are ints of `IntMax`, so products wrap. The compositor
takes references only while the client is not on its way out after an error.
Its threads (`Holders`) nest accesses; the client truncates the file (`short`),
a read there raises SIGBUS, and the handler replaces the mapping (`replaced`)
or raises the signal again, which ends the process (`killed`). `grown` says
that the pool was resized after its file had been judged safe.

### TimerHeap (with MCTimerHeap, proofs in NativeDisplayProofs)

The binary heap with its sifts, the reserved array, the timerfd, and a dispatch.
A sift is given in closed form: `Downwards` and `Upwards` say for each place of
the array where the loop goes next, `Trail` is the set of places it comes
through, and `HeapSet` is what its calls of `heap_set()` leave there. Written
so, the sifts can be reasoned about; `MCTimerHeap` has the two loops as they are
written and an assumption that both are the same on every array of up to six
timers, in order or not. `wl_timer_heap_dispatch()` is cut into `ReadClock`,
`TakeDue` for each due timer, `SetTimer` for the timerfd, `CallDue` for each
function (it may use every operation) and `EndDispatch` with the destroy list;
`expired` remembers what was due when the clock was read, for the property.
`Unreserve` may leave the array as it is, since `realloc()` may fail. Failures
of `wl_timer_heap_reserve()` (no timer is added) and of the timerfd calls are
not modelled. `MinSpace` is 8 in the code and 1 here, so that the array grows
and shrinks with few timers.

### RingBuffer and NativeConnection (with MCNativeConnection, proofs in ClientObjectsProofs)

`RingBuffer` is the arithmetic of `wl_ring_buffer`: counters that wrap, one or
two blocks. `NativeConnection` is one direction of a socket with this code at
both ends. A call such as `HandleArray` or `SendEvents` folds what it does over
a record of the sending end (`Tx`), because each descriptor and each write may
flush, and each flush may send all, a part, or fail (`FlushOutcomes`). Words
are tagged with the message they belong to, descriptor `<<n, i>>` is the i-th of
message n. The receiving end is `wl_client_connection_data()`: `ReadConnection`,
then per message `BrowserConsumes`, `Refuse`, `DemarshalFails` or `Dispatch`,
then `PassEnds`, which hands what is left of the descriptors to the browser.
`RawRequest` is a client that does not use this library. `lost` says that the
addon ignored a failed write or a raw request was sent; the properties about
descriptors except both.

### EventLoop and NativeDisplay (with MCNativeDisplay, NativeDisplayProofs)

`EventLoop` gives each function of the loop as an operator from loop to loop: a
source has a descriptor (`interest`) or only memory (`destroy`). `NativeDisplay`
runs one: `pc` is the place of Node's thread inside `dispatchRequests()` (flush,
idle tasks, `epoll_wait()`, the handlers of a batch with the requests of a
client one by one, the destroy list, idle tasks again, flush), and the calls of
the addon happen only outside. The client processes send, stall, read and close
at any time. `ClientsDestroyed` is the whole of `wl_client_destroy()`. A
callback may destroy another client (`BrowserDestroys`) or the one whose message
it handles (`BrowserDestroysSelf`), after which the handler goes on with freed
memory; the idle task of `display_sync()` may meet a freed client too
(`DispatchIdle`). `usedAfterFree` records both. What such an access finds is
undefined; the model goes on as if nothing was there, so that what follows it
can be checked.

### FormatSet, EglRenderer and GpuBuffers (with MCGpuBuffers, GpuBuffersProofs)

`FormatSet` is `drm_format_set.c` with its capacities, as far as it is used.
`EglRenderer` is the set up of the renderer as a function of the driver:
extensions, devices, formats and the calls that fail. `GpuBuffers` adds what
`initDrm()` makes of it: the feedback table, the globals, and a client that
binds, adds planes and creates buffers, with the lowest free descriptor numbers,
as the kernel gives them, so that a descriptor closed twice or kept too long
shows. `create` makes its buffer at id 0 (`named` is FALSE), over the one that
is there (`Overwritten`). `leaked` are the descriptors of the client, and `lost`
those of devices, that are open and that nothing refers to. Two kinds of driver
end the process and have no behaviour: one without dmabuf formats, and one with
`EXT_device_enumeration` but without `EXT_device_query` (`NullCall`).

### WaylandSocket, OsFds, XWayland, DisplayNames (with MCDisplayNames, DisplayNamesProofs)

`WaylandSocket` and `XWayland` cut starting and ending at the system calls on
shared files; processes crash at any point and pids are used again. `raced` and
`taken` record the three windows that the code leaves open: an `flock()` on a
file that another process has unlinked since it was opened; an X lock that is
judged stale, then removed after another process has claimed it; and the X
socket, removed after the lock that protected it. The properties say that
nothing else takes a name away. `OsFds` gives the descriptors each wrapper
leaves open on a given kernel; `XWayland` uses it for what Xwayland inherits.
`DisplayNames` puts both together; they share no file, so that a behaviour is
about one of them.

## 3. Runs

All runs but `gpubuffers_safety` set `CHECK_DEADLOCK FALSE`: sends and objects
are bounded, and a closed connection, a freed pool or a destroyed display
really has nothing left to do.

| Run | Shows | Bounds |
| --- | --- | --- |
| `connection_safety` | loops never overlap, dispatch and flush keep order, no object outlives `close()`, the loop is lost only to an exception of `onFlush` or of a destroy listener in `close()`, every buffer is read otherwise | 2 unfinished calls, 2 objects, 3 buffers of a message, 3 sends, `close()` nested twice, `onFlush` and listeners may throw, fairness |
| `wirecodec_safety` | readers stay in step and get what was sent, also in the proxy | 2 messages of up to 2 arguments out of 22, 4-bit words, 32-byte messages |
| `objectids_safety` | messages find their object, ids are conserved and come back | 2 client ids, 2 server ids, 3 objects, 2 free messages in flight, fairness |
| `registry_safety` | timely binds find their global, views are exact | 2 clients, 2 globals, each destroyed up to twice |
| `clientobjects_safety` | free list, lookups, single freeing of what is not overwritten, refinement | 5 resources, 4 entries of each kind |
| `shmpool_safety` | held memory stays mapped, buffers in bounds, exact counts, no leak, truncation contained | 2 buffers, 2 holders, accesses nested twice, 3-bit ints, 3 mappings |
| `timers_safety` | heap order, room, timerfd, exact dispatch | 6 timers, 2 deadlines |
| `nativeconnection_safety` | bytes and descriptors conserved, descriptors in time, one owner each | 6 kinds of message, 2 sent, rings of 4 words, 2 descriptors a control message, 2 segments in the socket |
| `nativeconnection_split` | violation: a request that was split loses its descriptor | one kind of message, same bounds |
| `nativedisplay_safety` | no freed event source runs, freed clients are used in two ways only, sync answered, globals agree, blocked output drains | 2 clients, 2 requests of 5 kinds, 1 stall, 1 global, batches of 2 events, fairness |
| `gpubuffers_safety` | descriptors owned, buffers in bounds, advertised pairs importable | 46 drivers, 1 params, 3 descriptors, 3 kinds of plane, 5 shapes |
| `displaynames_safety` | names of displays stay with their process, Xwayland inherits only its own | 2 processes, 2 displays of each kind, 4 or 3 starts, 3 pids, 4 kernels, 2 spawns |

Why the bounds are enough. Two calls of `message()` and three buffers are the
least in which a buffer arrives during the await of a pass that has a
successor; three sends can be flushed, queued and sent meanwhile in every
split, out of order if the code let them; with two objects one is registered or
destroyed while the other is being destroyed, and two calls of `close()` are
one inside the other. Two arguments in two messages give a payload followed by
an argument and by a message, and sizes that reach the limit of the size field.
With three objects on two ids an id is reused while another is in use, and two
free messages let an event cross a destructor. Two globals and two clients give
a registry between two announcements. Four entries give a free list whose
middle, head and end can each be removed and taken again, with a fifth resource
to reuse an id. `IntMax` of 3 has products that wrap to a positive, a zero and
a negative number, and three mappings are one in use and two recorded ones. Six
timers are the least for which the entry that replaces a disarmed one must move
up, and two deadlines are what such a comparison distinguishes. Two messages of
two or three words wrap a ring of four at every offset, and two with up to two
descriptors exceed the limit of a control message. With two clients in one
batch the handler of the first destroys the second; two requests are a sync
behind a sync and a bind behind the registry; one stall blocks output. Three
descriptors and four planes give every gap; the planes are one that fits, one
whose sums overflow and one of unknown size. With two processes and four starts
a third life of a display meets the files of both earlier ones.

Fairness. `connection_safety`: the JavaScript engine runs what is ready (weak
fairness of the loop), and the promise of a handler settles (strong fairness of
resuming, and of returning or throwing, since a handler may await any number of
times but not for ever). Destroy listeners return (strong fairness of `close()`
at every depth, since listeners may call it again and again). It is assumed of
handlers and listeners, which are not the library's code. `objectids_safety`:
ports deliver and both ends dispatch (weak fairness of dispatching as a whole,
which suffices as queues are served in order). Nothing is assumed of
applications. `nativedisplay_safety`: `dispatchRequests()` runs to its end,
Node calls it while the descriptor of the loop is readable, and a client that
stalled reads again, for without that its output cannot drain.

## 4. What the violation says, and what else was met

`nativeconnection_split`. `on_wire_message_end()` takes every descriptor in the
queue at the end of a pass. A request whose descriptor came with its first
bytes, while its last bytes were not read yet, finds the queue empty in the
next pass: `wl_connection_demarshal()` fails and the client is destroyed,
although it did nothing wrong.

Also met. What is marked with an operator is in the models, which except it
from a property by name; the rest was read in the code.

* `Connection.ts`: `flush()` at 552 and 603 is outside the try block, so that
  an exception of `onFlush` leaves a queue no loop will read, and so does an
  exception of a destroy listener, which ends `close()` at 641 before it sets
  `closed` (`LoopKept` shows that nothing else does); objects that destroy
  listeners register stay in the closed connection (`late`); texts that are not
  ASCII arrive changed, as do views that begin inside their buffer (`Altered`);
  `a()` and `aOptional()` add bytes to an offset in words (482),
  `stringOptional()` counts an empty string it leaves out, events without a
  listener are not consumed (`Sound`); `close()` destroys in
  ascending order of ids where its comment says descending (638).
* Runtimes: an id is put up for reuse although a callback proxy the application
  has not destroyed is still registered under it, so that the next constructor
  throws (`lost` in `ObjectIds`); `setupMessageHandling()` does not await
  `message()`, so an abnormal close is not reported by `onClose()`; a registry
  created within five seconds after `destroyGlobal()` is told of the global and
  never of its removal (`Late`).
* Native objects and display: the branch of `wl_resource_create()` that
  allocates an id for id 0 is commented out (`wayland-server.c:1879`), while
  its documentation (1862) and `params_create()` rely on it, so that a second
  buffer overwrites the first (`Overwritten`); no creation looks at what it
  overwrites (`orphaned`); the idle task of `display_sync()` uses a client that
  may be freed, and a client destroyed in its own `wire_message_cb` is used
  afterwards (`usedAfterFree`); `emitGlobals()` announces removed globals, and
  again what was announced; requests are dropped when no callback is
  set; the descriptors of a message for the browser are taken by a later native
  message of the same pass; references to callbacks are deleted only if a
  destroy callback was set, and `sync_done_cb_ref` is not initialised.
* Native connection: `sendEvents()` ignores failures and may exceed 28
  descriptors (`lost` in `NativeConnection`); `flush()` of the addon ignores
  EAGAIN and does not watch for room; a hangup drops requests not yet read.
* Shared memory: `sigbus_is_impossible` is not renewed by a resize, and the
  handler does not know previous mappings, so a truncated file ends the process
  after a resize (`grown`); `shm_pool_grow_mapping()` records the mapping in
  use when `mremap()` fails; `shm_create_pool()` leaks the descriptor when
  `wl_resource_create()` fails; `begin_access` without memory makes
  `end_access` assert.
* GPU: planes given up with a gap are not closed (`leaked`); the descriptor of
  the main device stays open when the format set cannot be built, that of GBM
  always (`lost`); formats are advertised without `KHR_image_base`, but no image
  can be made of them then (`AdvertisedImportable` excepts those displays);
  without `EXT_device_query` a null pointer is called (`NullCall`); surfaces are
  not freed; a driver without formats fails the assertion
  `table_len > 0`; modifiers for rendering are added to the formats for
  textures (`AddModifier`).
* Display names and Xwayland: the three windows of section 2; a failed set up
  frees the server twice (`SetupFailed`); failures before `fork()` return 1,
  which passes for a pid; a failed `fork()` leaves the source in the loop; the
  exit of Xwayland goes unnoticed; the pipes of `makePipe()` are not
  close-on-exec.

## 5. Proofs

Checked by TLAPS for every value of the constants that satisfies the assumption
named after the module (`ConnectionAssumption`, ...). The assumptions say what
the code's types say: sets are finite where the code counts them, numbers have
the range of their C type, and bounds are natural numbers. One is about the
program that uses the proxy: `NativeDisplayAssumption` has it call
`setSyncDoneCallback()` for every client, without which the addon answers no
sync. TLC evaluates them
in every run, and checked each inductive invariant on the instance of its run
before it was proved. Each `...Proofs` module begins with its invariant, then
has lemmas about the operators and one lemma per action or group of actions,
then the theorems. Of the 40 properties of the passing runs, 31 are theorems.

`ConnectionProofs`. `TypeCorrect`, then `Inductive` for `IInv = TypeOK /\
LoopInv /\ OrderInv /\ CloseInv /\ FlushInv`, and from it `LoopsNeverOverlap`,
`NothingOutlivesClose`, `StreamContiguous`, `DispatchedInOrder` and
`LoopsKept`. `OneLoop` alone is not inductive: that a second call returns early
follows from the queue being non-empty while any call is past its queueing
step, and that from its snapshot being part of the queue (`LoopInv`). Order
needs that what has left the queue was read to its end and that a snapshot
holds the oldest buffers (`OrderInv`). Nothing outlives `close()` but what its
listeners registered, because at every depth of `close()` what is registered is
in its snapshot or is late (`CloseInv`). `FlushInv` adds that nothing was sent
before `onFlush` was set.

`ClientObjectsProofs`. `TableInvariant` for `IInv = TypeOK /\ FreeListOK /\
OwnedHoldPointers /\ StoredOnce /\ FreedOnce /\ WalkInv`, and from it
`FreeListCorrect`, `NoLeakNoDoubleFree`, `LookupsAlive` and `Refinement`. The
links of the list say nothing about resources until it is known that an id in
somebody's hands holds a pointer and a free id a link (`OwnedHoldPointers`);
freeing once needs that a resource is stored once (`StoredOnce`), and that it
is stored at all unless it was orphaned (`FreedOnce`). Lemmas state
what each operation of `wl_map` does to the list, one lemma per action carries
the invariant together with the abstract step, and the refinement is their
conjunction.

The last part of `ClientObjectsProofs` is about the operators of `RingBuffer`,
for any size, any elements and any position of the counters: `PutAppends`,
`FillAppends`, `UsedIsOldest` and `DropTakesOldest`. Every operation is reduced
to `Slot(i, k)`, the k-th slot behind a counter: the one or two blocks of each
are these slots in order (`TwoBlocks`, `FreeIs`, `UsedIs`), no two of which are
the same, and those behind the tail go on where the length leads to the head
(`SlotMoved`). `FillAppends` needs that the buffer is not full, which
`wl_connection_read()` checks, because the free blocks of a full buffer are
those of an empty one; `UsedIsOldest` needs that it is not empty, as
`wl_connection_flush()` checks. Counters that wrap around at twice the size
stand for those of the code, which wrap around at another even multiple of it.

`ObjectIdsProofs`. `IdsInvariant` for `IdsInv = Typed /\ ServerInv /\ ClientInv
/\ LinkInv /\ ClosedEmpty`, and from it `ServerFinds`, `ClientFinds` and
`IdsKept`. The properties speak of the message that is handled next; the
invariant speaks of every message under way and of those before it in its
queue. A create finds its id free and nothing was sent to that id before it;
any other request meets an object that is registered or whose create comes
first; nothing follows a destructor (`ServerInv`). On the way back `Fits` says
the same of events, done events, new objects of the server and `delete_id`,
relative to the messages before (`ClientInv`). `LinkInv` holds both ends
together while both are open: an id that is in use at the server, or will be
once a create arrives, is nowhere else, and an id that is in no other place is
in one of these. Each part is guarded by its end being open, since an end that
closes forgets its objects while messages for them are still under way.

`RegistryProofs`. `RegistryInvariant` for `RegistryInv`, and from it
`ViewsExact` and `BindsFindGlobals`. `ViewExact` is about a client that has
received everything; with events under way, the last one about a global decides
what the client ends up with (`LeadsTo`). A bind finds its global because the
whole way of a name is covered, from the event that tells it through what the
client knows to the request that binds it (`BindInv`, only if `Timely`, and
only for a registry that missed no removal). The first timer is enough for it: a
client that was told of one removal and missed none neither knows the name nor
will hear of it again (`ToldInv`).

`ShmPoolProofs`. `PoolInvariant` for `PoolInv`, and from it
`ReadersKeepTheirMappings`, `BuffersStayInBounds`, `CountersExact`,
`MappingsExact` and `FaultsContained`. The five properties support each other:
what is held stays mapped because the counts are exact. Beyond them it is
needed that the current mapping is not among the recorded ones, that only a
sealed file makes SIGBUS impossible, and that until a resize there is one
address to read. Lemmas show that what the division of
`shm_pool_create_buffer()` lets through fits an int, for any width.

`NativeDisplayProofs`. `DisplayInvariant` for `DisplayInv = SafeLoop(loop) /\
ClientInv /\ SyncInv /\ GlobalInv`, and from it `NothingFreedRuns`,
`SyncsAnswered` and `RegistriesKnow`. Whatever `epoll_wait()` reported has
memory until the batch is done (`SafeLoop`), because removal only moves a
source to the destroy list; and the client whose requests are dispatched is
alive or was destroyed by its own message, which is recorded (`ClientInv`). The
syncs of a client that were answered are a
prefix of those it sent, and the idle tasks of the others are in order
(`SyncInv`). Names of globals are not used again, so that a registry never
knows one that was never created (`GlobalInv`).

The second half of `NativeDisplayProofs` is about `TimerHeap`: `TimersInHeap`,
`TimersHaveRoom`, `TimersAreWoken` and `TimersDispatched`, for any number of
timers, from `TimersInv = TimersTypeOK /\ GoodHeap(Heap) /\ ArmedCovered /\
SpaceInv /\ DispatchInv`. The lemmas come in three layers. A trail that only
goes up, or only down, visits a place once (`OnceUp`, `OnceDown`), so that
`heap_set()` along it permutes the array and the indexes follow
(`HeapSetFacts`). A sift starts from an array that is in order except at one
place, where the parent and the children still are in order with each other
(`OrderedBut`); `SiftUpFacts` and `SiftDownFacts` show that it ends in order.
Disarming, which calls both, is right because the entry that takes the gap is
either no earlier than the parent, and the first sift restores the order, or
earlier than the parent and thereby than the children, and the first sift does
nothing (`DisarmFacts`), as the code's comment says. `ArmedCovered` strengthens
`TimerfdCovers` from the root to every armed timer, which is what remains true
when the root is disarmed and the timerfd is not set. `DispatchInv` says that
while due timers are collected, what was due is what is on the list and what is
still armed and due, and that nobody on the list is later than anybody armed.
The array has room because its entries are different timers that exist.

`GpuBuffersProofs`. `GpuInvariant` for `GpuInv = HoldersInv /\ DevicesInv`, and
from it `OwnersExact` and `BuffersUsable`. That a descriptor is closed once
follows from no two params or buffers holding it, all that is held being open
and not leaked, and, since numbers are used again, all that is open being held
or leaked (`HeldOnce`, `OpenHeld`); that a buffer has no gap from the planes of
params being counted and their descriptors being different (`Collected`). The
arithmetic lemmas show that the checks of `params_create()` exclude an overflow
at any width.

`DisplayNamesProofs`. `NamesInvariant` for `NamesInv = SocketInv /\ XInv`, and
from it `WaylandNamesHeld`, `XDisplaysHeld` and `ServersInherit`. A process that
holds a lock holds it from `flock()` to `close()`, and the file it locked is the
one at the path (`LockInv`, `NameInv`); a process that created an X lock is the
only one with that display until it removes it (`PidInv`, `ClaimInv`), both
unless one of the windows of section 2 was hit. Before its first attempt a
process has no descriptor of an attempt, and only pipes are inherited
(`FdsInv`).

Only model-checked:

* liveness (`EveryBufferRead`, `DestroyedIdReturns`, `BlockedOutputDrains`),
  which is out of the prover's reach;
* `SiftsAreLoops`: that the closed form of the sifts is what the loops compute
  is an induction over their rounds;
* `DecodedExact` and `ProxyExact` of `WireCodec`, `StreamConserved`,
  `DescriptorsArrive` and `FdsOwnedOnce` of `NativeConnection`, and
  `AdvertisedImportable` of `GpuBuffers`: what they say is the result of folding
  over the arguments of a message, the writes of a call or the formats of a
  driver, for every input, which needs induction over data. What the ring
  buffers contribute to those of `NativeConnection` is proved.

## 6. Not modelled, and what is open

Not modelled, and why:

* the connect handshake and `terminate()` of the client runtime: messages
  exchanged with a page whose half is not in this repository;
* `Display.clients` and the promises of `sync()` and `onClose()` in the web
  runtimes;
* native signals: the listeners this program adds remove at most themselves;
* signal and check sources of the event loop, which this program does not add;
* a callback that destroys the resource whose message it handles, which the code
  answers with undefined behaviour;
* the client, the proxy and the browser of one native client in one model: ids
  in both runtimes at once, `delete_id` from the browser against silent
  destruction by id;
* EGL and GL calls that only draw, `wl_closure_print()`, the libffi call, the
  environment and arguments of Xwayland;
* the generators and what they emit (the largest files of the repository, all
  inline wrappers and tables), except for the shapes the models use.

Proofs that are open: the properties of section 5 that are only model-checked.
Proofs of those of `NativeConnection` can build on the theorems about
`RingBuffer` once its calls, which put several descriptors and then words, are
cut into one action per descriptor, and the socket is described by positions in
the stream instead of a concatenation.
