---------------------------- MODULE EglRenderer -----------------------------
(***************************************************************************)
(* westfield-egl.c: how the renderer of initDrm() is set up on a device.   *)
(* What the driver offers is a record d: the EGL extensions of the client, *)
(* the device and the display, the EGL devices with their DRM nodes, the   *)
(* nodes of the DRM device itself, the dmabuf formats with their           *)
(* modifiers, and the calls that fail. Every function is an operator of d. *)
(* Descriptors are named after what they are opened for.                   *)
(***************************************************************************)
EXTENDS FormatSet, FiniteSets

CONSTANTS
    Invalid, Linear,    \* DRM_FORMAT_MOD_INVALID and DRM_FORMAT_MOD_LINEAR
    FallbackFormats,    \* formats that are assumed when they cannot be queried
    RenderNodeHeader,   \* do the EGL headers know EGL_EXT_device_drm_render_node?
    AllowSoftware       \* is RENDERER_ALLOW_SOFTWARE set?

(* load_egl_proc() and every other call of the driver that may fail.       *)
Works(d, call) == call \notin d.fails

(* check_egl_ext()                                                         *)
Has(exts, name) == name \in exts

(* egl_create(): whether EGL can be used at all.                           *)
EglCreate(d) ==
    /\ Works(d, "eglQueryString")
    /\ Has(d.client, "EXT_platform_base")
    /\ Works(d, "eglGetPlatformDisplayEXT")
    /\ Works(d, "eglBindAPI")

(* device_has_name()                                                       *)
DeviceHasName(nodes, name) == \E kind \in DOMAIN nodes : nodes[kind] = name

(* get_render_name(): the render node, else the primary node, of the first *)
(* DRM device with a node of this name; none when the devices cannot be    *)
(* listed or have no such node.                                            *)
RenderName(d, name) ==
    LET at == SelectInSeq(d.drmDevices, LAMBDA nodes : DeviceHasName(nodes, name))
        nodes == d.drmDevices[at]
    IN  IF ~Works(d, "drmGetDevices2") \/ at = 0 THEN "none"
        ELSE IF "render" \in DOMAIN nodes THEN nodes.render ELSE nodes.primary

(* get_egl_device_from_drm_fd(): the first EGL device whose node is one of *)
(* the DRM device, 0 for none.                                             *)
EglDeviceFromDrmFd(d) ==
    LET name(device) == IF RenderNodeHeader THEN device.render
                        ELSE IF device.primary = "none" THEN "none"
                        ELSE RenderName(d, device.primary)
        match(device) == name(device) # "none" /\ DeviceHasName(d.nodes, name(device))
    IN  IF /\ Has(d.client, "EXT_device_enumeration")
           /\ Works(d, "eglQueryDevicesEXT")
           /\ Works(d, "drmGetDevice")
        THEN SelectInSeq(d.eglDevices, match) ELSE 0

(* get_egl_device_from_drm_fd() asks every EGL device for its node through *)
(* eglQueryDeviceStringEXT, which egl_create() leaves NULL when there is   *)
(* no EXT_device_query. Calling it ends the process.                       *)
NullCall(d) ==
    /\ Works(d, "open device") /\ EglCreate(d)
    /\ Has(d.client, "EXT_platform_device") /\ Has(d.client, "EXT_device_enumeration")
    /\ Works(d, "eglQueryDevicesEXT") /\ Works(d, "drmGetDevice")
    /\ d.eglDevices # <<>>
    /\ ~Has(d.client, "EXT_device_query")

(* get_egl_dmabuf_modifiers(): for a format, the modifiers the driver      *)
(* knows and which of them are for external textures only. Without the     *)
(* extension there are none, which is no failure.                          *)
ModifiersFail(d, format) ==
    \/ ~Has(d.display, "EXT_image_dma_buf_import")
    \/ Has(d.display, "EXT_image_dma_buf_import_modifiers") /\ ~Works(d, format)
DmabufModifiers(d, format) ==
    IF Has(d.display, "EXT_image_dma_buf_import_modifiers") THEN d.formats[format] ELSE <<>>

(* get_egl_dmabuf_formats()                                                *)
DmabufFormats(d) ==
    IF ~Has(d.display, "EXT_image_dma_buf_import") THEN <<>>
    ELSE IF ~Has(d.display, "EXT_image_dma_buf_import_modifiers") THEN FallbackFormats
    ELSE IF Works(d, "eglQueryDmaBufFormatsEXT") THEN SetToSeq(DOMAIN d.formats)
    ELSE <<>>

(* init_dmabuf_formats(): the formats for textures, for rendering, and     *)
(* whether there are modifiers. Modifiers that are not for external        *)
(* textures only are added to the formats for textures once more.          *)
AddModifier(set, format, entry) ==
    LET once == SetAdd(set, format, entry.modifier)
    IN  IF entry.external THEN once ELSE SetAdd(once, format, entry.modifier)
AddFormat(d, sets, format) ==
    LET modifiers == DmabufModifiers(d, format)
        all == FoldLeft(LAMBDA set, entry : AddModifier(set, format, entry),
                        sets.texture, modifiers)
        implicit == SetAdd(all, format, Invalid)
    IN  IF ModifiersFail(d, format) THEN sets
        ELSE [texture |-> IF modifiers = <<>> THEN SetAdd(implicit, format, Linear)
                          ELSE implicit,
              render |-> IF modifiers = <<>> THEN SetAdd(sets.render, format, Linear)
                         ELSE sets.render,
              hasModifiers |-> sets.hasModifiers \/ modifiers # <<>>]
InitDmabufFormats(d) ==
    FoldLeft(LAMBDA sets, format : AddFormat(d, sets, format),
             [texture |-> EmptySet, render |-> EmptySet, hasModifiers |-> FALSE],
             DmabufFormats(d))

(* egl_init_display(): what a display must have.                           *)
InitDisplay(d) ==
    /\ Works(d, "eglInitialize")
    /\ Works(d, "eglQueryDisplayString")
    /\ Has(d.client, "EXT_device_query") =>
        /\ Works(d, "eglQueryDisplayAttribEXT")
        /\ Works(d, "eglQueryDeviceStringEXT")
        /\ Has(d.device, "MESA_device_software") => AllowSoftware
    /\ Has(d.display, "KHR_no_config_context") \/ Has(d.display, "MESA_configless_context")
    /\ Has(d.display, "KHR_surfaceless_context")

(* egl_init(): no display, a display that is terminated again, one without *)
(* a context, or one that is ready.                                        *)
EglInit(d) ==
    IF ~Works(d, "display") THEN "none"
    ELSE IF ~InitDisplay(d) THEN "terminated"
    ELSE IF ~Works(d, "eglCreateContext") THEN "live"
    ELSE "ready"

(* open_render_node(): by its name, or that of the primary node.           *)
OpenRenderNode(d) ==
    /\ Works(d, "drmGetRenderDeviceNameFromFd") \/ Works(d, "drmGetPrimaryDeviceNameFromFd")
    /\ Works(d, "open render node")

(* westfield_egl_egl_create_with_drm_fd(): on the EGL device of the DRM    *)
(* device, or on a GBM device when there is none. Returns the descriptors  *)
(* that are left open and the display; the error path terminates it.       *)
Failed(display) ==
    [ok |-> FALSE, fds |-> {}, display |-> IF display = "none" THEN "none" ELSE "terminated"]
Ready(fds) == [ok |-> TRUE, fds |-> fds, display |-> "ready"]
CreateWithDrmFd(d) ==
    LET display == EglInit(d)
    IN  IF ~EglCreate(d) THEN Failed("none")
        ELSE IF Has(d.client, "EXT_platform_device") /\ EglDeviceFromDrmFd(d) # 0
        THEN IF display = "ready" THEN Ready({}) ELSE Failed(display)
        ELSE IF ~Has(d.client, "KHR_platform_gbm") \/ ~OpenRenderNode(d) \/ ~Works(d, "gbm_create_device")
        THEN Failed("none")
        ELSE IF display = "ready" THEN Ready({"gbm"}) ELSE Failed(display)

(* westfield_egl_new()                                                     *)
EglNew(d) ==
    LET created == CreateWithDrmFd(d)
        formats == InitDmabufFormats(d)
    IN  IF Works(d, "open device") /\ created.ok
        THEN [ok |-> TRUE, fds |-> created.fds \cup {"drm"}, display |-> "ready",
              texture |-> formats.texture, render |-> formats.render,
              hasModifiers |-> formats.hasModifiers, exts |-> d.display]
        ELSE [ok |-> FALSE, fds |-> {}, display |-> IF Works(d, "open device") THEN created.display ELSE "none",
              texture |-> EmptySet, render |-> EmptySet, hasModifiers |-> FALSE, exts |-> {}]

(* westfield_egl_create_image_from_dmabuf(): which buffers become images,  *)
(* and the attributes of an image of n planes, for which there are 50      *)
(* slots.                                                                  *)
CanCreateImage(egl, modifier) ==
    /\ Has(egl.exts, "KHR_image_base") /\ Has(egl.exts, "EXT_image_dma_buf_import")
    /\ modifier \notin {Invalid, Linear} => egl.hasModifiers
ImageAttribs(egl, modifier, n) ==
    9 + n * (IF egl.hasModifiers /\ modifier # Invalid THEN 10 ELSE 6)
=============================================================================
