----------------------------- MODULE GpuBuffers -----------------------------
(***************************************************************************)
(* The GPU buffers of the native proxy: initDrm() sets up the renderer of  *)
(* EglRenderer and the globals zwp_linux_dmabuf_v1                         *)
(* (wlr_linux_dmabuf_v1.c) and wl_drm (wlr_drm.c), through which a client  *)
(* learns which formats can be imported and turns descriptors of dmabufs   *)
(* into wl_buffers. One client is enough: what it creates is its own.      *)
(*                                                                         *)
(* A plane is the arguments of params_add() and the size of the dmabuf, -1 *)
(* if it does not tell. Its descriptor gets the lowest number that is not  *)
(* open, as in the kernel. Numbers are 32 bits wide in the code, MaxUint   *)
(* here.                                                                   *)
(***************************************************************************)
EXTENDS EglRenderer

CONSTANTS
    Drivers,        \* what the driver of the device may be like
    Params,         \* zwp_linux_buffer_params_v1 objects of the client
    Planes,         \* planes that are added: size, offset, stride, modifier
    Shapes,         \* arguments of create: width, height, flags
    Surfaces,       \* wl_surface objects of the client
    KnownFlags,     \* the flags the protocol defines
    MaxUint,        \* UINT32_MAX
    MaxFds          \* bound: descriptors of the client that are open at a time

(* Offsets and strides are uint32_t, the size of a dmabuf is what lseek()  *)
(* returns, -1 when it fails, and the size of a buffer is an int32_t.      *)
ASSUME GpuBuffersAssumption ==
    /\ MaxUint \in Nat
    /\ MaxFds \in Nat
    /\ \A plane \in Planes : /\ plane.size \in Nat \cup {-1}
                             /\ plane.offset \in 0 .. MaxUint
                             /\ plane.stride \in 0 .. MaxUint
    /\ \A shape \in Shapes : shape.width \in Int /\ shape.height \in Int

MaxPlanes == 4      \* WESTFIELD_DMABUF_MAX_PLANES
NoFd == -1

VARIABLES
    egl,        \* struct westfield_egl, with what is left open
    dmabuf,     \* struct wlr_linux_dmabuf_v1
    drm,        \* struct wlr_drm
    devices,    \* descriptors open for devices and the format table
    fds,        \* descriptors of the client that are open in the server
    params,     \* the state of each params object
    buffers,    \* wl_buffers that exist
    told,       \* format and modifier pairs that the client is told by a step
    surfaces,   \* surfaces with feedback
    error,      \* the client made a protocol error
    leaked,     \* descriptors of the client that nothing refers to any more
    lost        \* descriptors of devices that nothing refers to any more

vars == <<egl, dmabuf, drm, devices, fds, params, buffers, told,
          surfaces, error, leaked, lost>>

NoEgl == [ok |-> FALSE, fds |-> {}, display |-> "none", texture |-> EmptySet,
          render |-> EmptySet, hasModifiers |-> FALSE, exts |-> {}]
NoDmabuf == [live |-> FALSE, table |-> <<>>, indices |-> <<>>, formats |-> EmptySet]
NoDrm == [live |-> FALSE, formats |-> EmptySet]
NoParams == [state |-> "none", fd |-> [i \in 0 .. MaxPlanes - 1 |-> NoFd],
             plane |-> [i \in 0 .. MaxPlanes - 1 |-> <<>>], n |-> 0]

Init ==
    /\ egl = NoEgl /\ dmabuf = NoDmabuf /\ drm = NoDrm
    /\ devices = {} /\ fds = {}
    /\ params = [p \in Params |-> NoParams]
    /\ buffers = {} /\ told = {} /\ surfaces = {}
    /\ error = FALSE /\ leaked = {} /\ lost = {}

-----------------------------------------------------------------------------
(* initDrm()                                                               *)

(* allocate_shm_file_pair(): what its failures leave open, nothing, or the *)
(* two descriptors of the table.                                           *)
ShmFilePair(d) ==
    IF \A call \in {"shm_open rw", "shm_open ro", "fchmod", "ftruncate"} : Works(d, call)
    THEN {"rw", "table"} ELSE {}

(* feedback_compile() of one tranche: its pairs in a table, numbered as    *)
(* they come. There are no tranches before it in this program.             *)
FeedbackCompile(d, formats) ==
    LET pair == ShmFilePair(d)
        table == Pairs(formats)
        ok == pair # {} /\ \A call \in {"mmap", "calloc compiled", "wl_array_add"} : Works(d, call)
    IN  [ok |-> ok,
         fds |-> IF ok THEN pair \ {"rw"} ELSE {},
         table |-> table,
         indices |-> [i \in DOMAIN table |-> i - 1]]

(* set_default_feedback(): the table, the device for checking imports and  *)
(* a set of all formats. When that set runs out of memory the descriptor   *)
(* of the device stays open.                                               *)
SetDefaultFeedback(d, formats) ==
    LET compiled == FeedbackCompile(d, formats)
        opened == compiled.ok /\ Works(d, "drmGetDeviceFromDevId") /\ Works(d, "open main device")
        ok == opened /\ Works(d, "formats")
    IN  [ok |-> ok,
         fds |-> IF ok THEN compiled.fds \cup {"main"}
                 ELSE IF opened THEN {"main"} ELSE {},
         dmabuf |-> [live |-> TRUE, table |-> compiled.table, indices |-> compiled.indices,
                     formats |-> FoldLeft(LAMBDA set, pair : SetAdd(set, pair[1], pair[2]),
                                          EmptySet, Pairs(formats))]]

(* feedback_tranche_init_with_renderer()                                   *)
TrancheInit(d) == Works(d, "fstat")

(* wlr_linux_dmabuf_v1_create_with_renderer() and                          *)
(* wlr_linux_dmabuf_v1_create(): the global is destroyed again when the    *)
(* feedback cannot be set.                                                 *)
DmabufCreate(d, e) ==
    LET feedback == SetDefaultFeedback(d, e.texture)
    IN  IF ~TrancheInit(d) \/ ~Works(d, "wl_global_create") THEN [fds |-> {}, dmabuf |-> NoDmabuf]
        ELSE [fds |-> feedback.fds, dmabuf |-> IF feedback.ok THEN feedback.dmabuf ELSE NoDmabuf]

(* wlr_drm_create()                                                        *)
DrmCreate(d, e) ==
    IF \A call \in {"drmGetDevice2", "strdup", "copy", "wl_global_create"} : Works(d, call)
    THEN [live |-> TRUE, formats |-> SetCopy(e.texture)]
    ELSE NoDrm

(* The globals need a renderer. A driver without dmabuf formats makes the  *)
(* assertion table_len > 0 of feedback_compile() fail, which ends the      *)
(* process, and so does a driver with EXT_device_enumeration but without   *)
(* EXT_device_query: there are no such behaviours here. The device for     *)
(* checking imports is lost when set_default_feedback() fails after it.    *)
InitDrm(d) ==
    LET e == EglNew(d)
        made == DmabufCreate(d, e)
    IN  /\ egl = NoEgl
        /\ ~NullCall(d)
        /\ e.ok => e.texture.formats # <<>>
        /\ egl' = e
        /\ dmabuf' = IF e.ok THEN made.dmabuf ELSE NoDmabuf
        /\ drm' = IF e.ok THEN DrmCreate(d, e) ELSE NoDrm
        /\ devices' = e.fds \cup (IF e.ok THEN made.fds ELSE {})
        /\ lost' = IF e.ok /\ ~made.dmabuf.live THEN made.fds ELSE {}
        /\ told' = {}
        /\ UNCHANGED <<fds, params, buffers, surfaces, error, leaked>>

(* finalize_westfield_drm(): the GBM device goes, its descriptor is lost.  *)
Finalize ==
    /\ egl.ok
    /\ egl' = [egl EXCEPT !.ok = FALSE, !.display = "finalized"]
    /\ devices' = devices \ {"drm"}
    /\ lost' = lost \cup (devices \cap {"gbm"})
    /\ told' = {}
    /\ UNCHANGED <<dmabuf, drm, fds, params, buffers, surfaces, error, leaked>>

-----------------------------------------------------------------------------
(* What the client is told.                                                *)

Requests == dmabuf.live /\ ~error

(* linux_dmabuf_send_modifiers() for one format.                           *)
SentModifiers(version, fmt) ==
    LET mods == ToSet(fmt.modifiers)
    IN  IF version < 3 THEN mods \cap {Invalid}
        ELSE IF mods = {Invalid, Linear} THEN {Invalid}
        ELSE mods

(* linux_dmabuf_send_formats()                                             *)
SentFormats(version) ==
    UNION {{<<fmt.format, mod>> : mod \in SentModifiers(version, fmt)} :
           fmt \in ToSet(dmabuf.formats.formats)}

(* linux_dmabuf_bind(): clients of version 4 ask for feedback instead.     *)
BindDmabuf(version) ==
    /\ Requests
    /\ told' = IF version < 4 THEN SentFormats(version) ELSE {}
    /\ UNCHANGED <<egl, dmabuf, drm, devices, fds, params, buffers,
                   surfaces, error, leaked, lost>>

(* feedback_send() and feedback_tranche_send(): indices into the table.    *)
FeedbackSent == {dmabuf.table[dmabuf.indices[i] + 1] : i \in DOMAIN dmabuf.indices}

(* linux_dmabuf_get_default_feedback()                                     *)
GetDefaultFeedback ==
    /\ Requests
    /\ told' = FeedbackSent
    /\ UNCHANGED <<egl, dmabuf, drm, devices, fds, params, buffers,
                   surfaces, error, leaked, lost>>

(* linux_dmabuf_get_surface_feedback(): no surface has feedback of its own *)
(* and all get the default one; surface_get_or_create() remembers them.    *)
GetSurfaceFeedback(s) ==
    /\ Requests
    /\ surfaces' = surfaces \cup {s}
    /\ told' = FeedbackSent
    /\ UNCHANGED <<egl, dmabuf, drm, devices, fds, params, buffers,
                   error, leaked, lost>>

(* drm_bind(): formats with the implicit modifier.                         *)
BindDrm ==
    /\ drm.live /\ ~error
    /\ told' = {<<fmt.format, Invalid>> :
                 fmt \in {f \in ToSet(drm.formats.formats) : FormatHas(f, Invalid)}}
    /\ UNCHANGED <<egl, dmabuf, drm, devices, fds, params, buffers,
                   surfaces, error, leaked, lost>>

-----------------------------------------------------------------------------
(* Buffers of zwp_linux_dmabuf_v1.                                         *)

Indexes == 0 .. MaxPlanes - 1
HeldBy(a) == {a.fd[i] : i \in Indexes} \ {NoFd}

(* dmabuf_attributes_finish(): as many planes as were added are closed,    *)
(* from the first. Planes above a gap are not, and are leaked.             *)
Finished(all) == UNION {{a.fd[i] : i \in 0 .. a.n - 1} : a \in all}
AboveGap(all) == UNION {{a.fd[i] : i \in {j \in Indexes : j >= a.n}} \ {NoFd} : a \in all}

(* The number of a descriptor that arrives.                                *)
NewFd == CHOOSE fd \in 1 .. MaxFds : fd \notin fds /\ \A low \in 1 .. fd - 1 : low \in fds

(* linux_dmabuf_create_params()                                            *)
CreateParams(p) ==
    /\ Requests
    /\ params[p].state = "none"
    /\ params' = [params EXCEPT ![p].state = "live"]
    /\ told' = {}
    /\ UNCHANGED <<egl, dmabuf, drm, devices, fds, buffers, surfaces, error, leaked, lost>>

(* params_add(): the planes may come in any order, each once, and all have *)
(* one modifier. A descriptor that is refused is closed.                   *)
AddRefused(a, i, plane) ==
    \/ a.state = "inert"
    \/ i >= MaxPlanes
    \/ a.fd[i] # NoFd
    \/ a.n > 0 /\ \E j \in Indexes : a.fd[j] # NoFd /\ a.plane[j].modifier # plane.modifier

ParamsAdd(p, i, plane) ==
    LET fd == NewFd
    IN  /\ Requests
        /\ params[p].state # "none"
        /\ fds # 1 .. MaxFds
        /\ IF AddRefused(params[p], i, plane)
           THEN error' = TRUE /\ UNCHANGED <<params, fds>>
           ELSE /\ params' = [params EXCEPT ![p].fd[i] = fd, ![p].plane[i] = plane, ![p].n = @ + 1]
                /\ fds' = fds \cup {fd}
                /\ UNCHANGED error
        /\ told' = {}
        /\ UNCHANGED <<egl, dmabuf, drm, devices, buffers, surfaces, leaked, lost>>

(* The planes of params_create_common() that are out of bounds. Sums of    *)
(* 32 bits wrap around, sums of 64 bits do not.                            *)
Wrap32(n) == n % (MaxUint + 1)

(* Mutant: sums that do not fit in 32 bits are not refused.                *)
NoOverflow(plane, height) == FALSE

Overflows(plane, height) ==
    \/ plane.offset + plane.stride > MaxUint
    \/ plane.offset + plane.stride * height > MaxUint
OutOfBounds(a, i, height) ==
    LET plane == a.plane[i]
        bytes == plane.size
    IN  a.fd[i] # NoFd =>
        \/ Overflows(plane, height)
        \/ /\ bytes # -1
           /\ \/ plane.offset > bytes
              \/ Wrap32(plane.offset + plane.stride) > bytes
              \/ plane.stride = 0
              \/ i = 0 /\ Wrap32(plane.offset + Wrap32(plane.stride * height)) > bytes

(* check_import_dmabuf(): every plane, if it is of this device.            *)
CanImport(a, ofDevice) == ofDevice /\ \A i \in 0 .. a.n - 1 : a.fd[i] # NoFd

(* params_create_common(): what becomes of the planes a. Errors come in    *)
(* the order of the checks; a failure is no error unless the buffer had to *)
(* be created at once or there is no memory for it.                        *)
Incomplete(a) ==
    \/ a.n = 0
    \/ a.fd[0] = NoFd
    \/ (a.fd[3] # NoFd \/ a.fd[2] # NoFd) /\ (a.fd[2] = NoFd \/ a.fd[1] = NoFd)
Verdict(a, shape, ofDevice, memory) ==
    IF Incomplete(a) \/ ~(shape.flags \subseteq KnownFlags) THEN "error"
    ELSE IF shape.flags # {} THEN "failed"
    ELSE IF shape.width < 1 \/ shape.height < 1 THEN "error"
    ELSE IF \E i \in 0 .. a.n - 1 : OutOfBounds(a, i, shape.height) THEN "error"
    ELSE IF ~CanImport(a, ofDevice) THEN "failed"
    ELSE IF ~memory THEN "error"
    ELSE "created"

(* Mutant: the params stay usable.                                         *)
StillLive(p) == params

(* The params object is inert from then on.                                *)
MadeInert(p) == [params EXCEPT ![p] = [NoParams EXCEPT !.state = "inert"]]

(* A buffer. The client gave it an id, or it is entry 0 of its objects.    *)
Buffer(kind, a, height, named) ==
    [kind |-> kind, n |-> a.n, fd |-> a.fd, plane |-> a.plane, height |-> height, named |-> named]

(* What wl_resource_create() overwrites: nothing at an id of the client,   *)
(* which wl_map_reserve_new() found free, but an earlier buffer at id 0.   *)
Overwritten(immed) == {b \in buffers : ~immed /\ ~b.named}

(* params_create(), immed = FALSE, which creates the buffer at id 0, and   *)
(* params_create_immed(). A buffer that is overwritten is never destroyed, *)
(* and its descriptors are leaked.                                         *)
ParamsCreate(p, immed, shape) ==
    LET a == params[p]
    IN  /\ Requests
        /\ a.state = "live"
        /\ params' = MadeInert(p)
        /\ \E ofDevice, memory \in BOOLEAN :
            LET verdict == Verdict(a, shape, ofDevice, memory)
            IN  IF verdict = "created"
                THEN /\ buffers' = (buffers \ Overwritten(immed))
                                     \cup {Buffer("dmabuf", a, shape.height, immed)}
                     /\ leaked' = leaked \cup UNION {HeldBy(b) : b \in Overwritten(immed)}
                     /\ UNCHANGED <<fds, error>>
                ELSE /\ fds' = fds \ Finished({a})
                     /\ leaked' = leaked \cup AboveGap({a})
                     /\ error' = (verdict = "error" \/ immed)
                     /\ UNCHANGED buffers
        /\ told' = {}
        /\ UNCHANGED <<egl, dmabuf, drm, devices, surfaces, lost>>

ParamsReused(p) ==
    /\ Requests
    /\ params[p].state = "inert"
    /\ error' = TRUE
    /\ told' = {}
    /\ UNCHANGED <<egl, dmabuf, drm, devices, fds, params, buffers, surfaces, leaked, lost>>

(* params_handle_resource_destroy()                                        *)
ParamsDestroy(p) ==
    /\ ~error
    /\ params[p].state # "none"
    /\ params' = [params EXCEPT ![p] = NoParams]
    /\ fds' = fds \ Finished({params[p]})
    /\ leaked' = leaked \cup AboveGap({params[p]})
    /\ told' = {}
    /\ UNCHANGED <<egl, dmabuf, drm, devices, buffers, surfaces, error, lost>>

(* drm_handle_create_prime_buffer(): one plane, which nothing checks. It   *)
(* is closed when there is no memory, which is an error.                   *)
CreatePrimeBuffer ==
    LET fd == NewFd
        a == [NoParams EXCEPT !.n = 1, !.fd[0] = fd]
    IN  /\ drm.live /\ ~error
        /\ fds # 1 .. MaxFds
        /\ \/ /\ buffers' = buffers \cup {Buffer("drm", a, 0, TRUE)}
              /\ fds' = fds \cup {fd}
              /\ UNCHANGED error
           \/ error' = TRUE /\ UNCHANGED <<buffers, fds>>
        /\ told' = {}
        /\ UNCHANGED <<egl, dmabuf, drm, devices, params, surfaces, leaked, lost>>

(* drm_handle_create_buffer(), drm_handle_create_planar_buffer()           *)
CreateFlinkBuffer ==
    /\ drm.live /\ ~error
    /\ error' = TRUE
    /\ told' = {}
    /\ UNCHANGED <<egl, dmabuf, drm, devices, fds, params, buffers, surfaces, leaked, lost>>

(* Binding a global, creating params or feedback without memory for the    *)
(* resource: wl_client_post_no_memory() or wl_resource_post_no_memory().   *)
NoMemory ==
    /\ dmabuf.live \/ drm.live
    /\ ~error
    /\ error' = TRUE
    /\ told' = {}
    /\ UNCHANGED <<egl, dmabuf, drm, devices, fds, params, buffers, surfaces, leaked, lost>>

(* buffer_handle_resource_destroy(): westfield_buffer_drop() and the       *)
(* buffer_destroy() of its kind. wl_map_lookup() finds entry 0 as well.    *)
BufferDestroy(b) ==
    /\ ~error
    /\ buffers' = buffers \ {b}
    /\ fds' = fds \ Finished({b})
    /\ told' = {}
    /\ UNCHANGED <<egl, dmabuf, drm, devices, params, surfaces, error, leaked, lost>>

(* The client goes, after an error or by itself, and with it everything in *)
(* its objects.                                                            *)
ClientGone ==
    LET all == buffers \cup {params[p] : p \in Params}
    IN  /\ params' = [p \in Params |-> NoParams]
        /\ buffers' = {}
        /\ fds' = fds \ Finished(all)
        /\ leaked' = leaked \cup AboveGap(all)
        /\ told' = {}
        /\ error' = FALSE
ClientDestroyed ==
    /\ ClientGone
    /\ UNCHANGED <<egl, dmabuf, drm, devices, surfaces, lost>>

(* destroyDisplay(): after the clients linux_dmabuf_v1_destroy(), with the *)
(* surfaces, the table and the device, and drm_destroy().                  *)
DestroyDisplay ==
    /\ ClientGone
    /\ dmabuf' = NoDmabuf
    /\ drm' = NoDrm
    /\ surfaces' = {}
    /\ devices' = IF dmabuf.live THEN devices \ {"table", "main"} ELSE devices
    /\ UNCHANGED <<egl, lost>>

Next ==
    \/ \E d \in Drivers : InitDrm(d)
    \/ Finalize
    \/ \E version \in 1 .. 4 : BindDmabuf(version)
    \/ GetDefaultFeedback \/ BindDrm
    \/ \E s \in Surfaces : GetSurfaceFeedback(s)
    \/ \E p \in Params :
        \/ CreateParams(p) \/ ParamsReused(p) \/ ParamsDestroy(p)
        \/ \E i \in 0 .. MaxPlanes, plane \in Planes : ParamsAdd(p, i, plane)
        \/ \E immed \in BOOLEAN, shape \in Shapes : ParamsCreate(p, immed, shape)
    \/ CreatePrimeBuffer \/ CreateFlinkBuffer \/ NoMemory
    \/ \E b \in buffers : BufferDestroy(b)
    \/ ClientDestroyed \/ DestroyDisplay

Spec == Init /\ [][Next]_vars

-----------------------------------------------------------------------------
Holders == {params[p] : p \in Params} \cup buffers
AllHeld == UNION {HeldBy(a) : a \in Holders}
OwnedDevices ==
    (IF egl.ok THEN egl.fds ELSE {}) \cup (IF dmabuf.live THEN {"table", "main"} ELSE {})

(* Every descriptor that the client sent is held by one params or one      *)
(* buffer exactly as long as it is open: none is closed early or held      *)
(* twice, whichever check refuses it, and two kinds are leaked: planes     *)
(* above a gap in params that are given up, which                          *)
(* dmabuf_attributes_finish() does not reach, and those of a buffer that a *)
(* second create overwrites at id 0 (params_create()). What initDrm()      *)
(* opens is open exactly as long as its owner lives, whichever of its      *)
(* calls fails, and two descriptors are lost: the device for checking      *)
(* imports when the set of formats fails after it (error_formats of        *)
(* set_default_feedback()), and that of the GBM device when the renderer   *)
(* goes (westfield_egl_finalize()).                                        *)
DescriptorsOwned ==
    /\ \A a, b \in Holders : a # b => HeldBy(a) \cap HeldBy(b) = {}
    /\ fds = AllHeld \cup leaked
    /\ AllHeld \cap leaked = {}
    /\ devices = OwnedDevices \cup lost
    /\ OwnedDevices \cap lost = {}
    /\ lost \subseteq {"main", "gbm"}
    /\ egl.ok <=> "drm" \in devices

(* The planes of a buffer lie inside of their dmabufs.                     *)
InsideDmabuf(b) ==
    \A i \in 0 .. b.n - 1 :
        /\ b.plane[i].modifier = b.plane[0].modifier
        /\ b.plane[i].size # -1 =>
            /\ b.plane[i].stride > 0
            /\ b.plane[i].offset + b.plane[i].stride <= b.plane[i].size
            /\ i = 0 => b.plane[i].offset + b.plane[i].stride * b.height <= b.plane[i].size

(* A buffer that was created can be used: its planes are those it counts,  *)
(* without a gap, their descriptors are open, and no row of a plane whose  *)
(* size is known, no byte of the first plane, lies outside of it, although *)
(* the sums are computed with 32 bits (params_create_common()).            *)
BufferUsable ==
    \A b \in buffers :
        /\ \A i \in Indexes : b.fd[i] # NoFd <=> i < b.n
        /\ HeldBy(b) \subseteq fds
        /\ b.kind = "dmabuf" => InsideDmabuf(b)

(* Whatever a client of any version was told, by events, by the table or   *)
(* by wl_drm, the renderer knows and makes images of, with room for the    *)
(* attributes of all planes, unless the display has no KHR_image_base:     *)
(* get_egl_dmabuf_formats() does not ask for it, and no image can be made. *)
(* The table has every pair once, where its index says; and the arrays     *)
(* hold no more than fits (init_dmabuf_formats(),                          *)
(* linux_dmabuf_send_modifiers(), feedback_compile(),                      *)
(* westfield_egl_create_image_from_dmabuf()).                              *)
AdvertisedImportable ==
    /\ \A pair \in told :
        /\ SetHas(egl.texture, pair[1], pair[2])
        /\ Has(egl.exts, "KHR_image_base") => CanCreateImage(egl, pair[2])
        /\ ImageAttribs(egl, pair[2], MaxPlanes) < 50
    /\ \A set \in {egl.texture, egl.render, dmabuf.formats, drm.formats} : SetOK(set)
    /\ dmabuf.live => ToSet(Pairs(egl.texture)) = ToSet(dmabuf.table)
    /\ IsInjective(dmabuf.table)
    /\ dmabuf.live => FeedbackSent = ToSet(dmabuf.table)
=============================================================================
