---------------------------- MODULE MCGpuBuffers ----------------------------
(* GpuBuffers on a small instance: a driver that has everything, and those *)
(* that lack any one extension or fail in one call, on an EGL device and   *)
(* on a GBM device; planes that fit up to the height 2, whose sums         *)
(* overflow, and one of unknown size.                                      *)
EXTENDS GpuBuffers

Base ==
    [client |-> {"EXT_platform_base", "EXT_platform_device", "KHR_platform_gbm",
                 "EXT_device_enumeration", "EXT_device_query"},
     device |-> {},
     display |-> {"KHR_image_base", "EXT_image_dma_buf_import",
                  "EXT_image_dma_buf_import_modifiers", "KHR_no_config_context",
                  "KHR_surfaceless_context"},
     eglDevices |-> <<[render |-> "none", primary |-> "card1"],
                      [render |-> "render0", primary |-> "card0"]>>,
     nodes |-> [primary |-> "card0", render |-> "render0"],
     drmDevices |-> <<[primary |-> "card0", render |-> "render0"], [primary |-> "card1"]>>,
     formats |-> [argb |-> <<[modifier |-> "tiled", external |-> FALSE],
                             [modifier |-> "linear", external |-> TRUE]>>,
                  nv12 |-> <<>>],
     fails |-> {}]

MCCalls ==
    {"eglQueryString", "eglGetPlatformDisplayEXT", "eglBindAPI", "eglQueryDevicesEXT",
     "drmGetDevice", "eglInitialize", "eglQueryDisplayAttribEXT", "display",
     "eglCreateContext", "open device", "argb",
     "shm_open rw", "shm_open ro", "fchmod", "ftruncate", "mmap", "calloc compiled", "wl_array_add",
     "drmGetDeviceFromDevId", "open main device", "formats", "fstat", "wl_global_create",
     "drmGetDevice2", "strdup", "copy"}
MCGbm == [Base EXCEPT !.client = @ \ {"EXT_platform_device"}]

MCDrivers ==
    {Base, MCGbm, [Base EXCEPT !.device = {"MESA_device_software"}]}
    \cup {[Base EXCEPT !.fails = {call}] : call \in MCCalls}
    \cup {[MCGbm EXCEPT !.fails = {call}] :
          call \in {"open render node", "gbm_create_device", "eglInitialize", "eglCreateContext"}}
    \cup {[Base EXCEPT !.client = @ \ {ext}] : ext \in Base.client}
    \cup {[MCGbm EXCEPT !.client = @ \ {ext}] : ext \in MCGbm.client}
    \cup {[Base EXCEPT !.display = @ \ {ext}] : ext \in Base.display}

Plane(bytes, offset, stride, modifier) ==
    [size |-> bytes, offset |-> offset, stride |-> stride, modifier |-> modifier]
MCPlanes == {Plane(4, 0, 2, "tiled"), Plane(4, 2, 6, "tiled"), Plane(-1, 0, 2, "linear")}
Shape(width, height, flags) == [width |-> width, height |-> height, flags |-> flags]
MCShapes == {Shape(1, 2, {}), Shape(1, 3, {}), Shape(1, 0, {}), Shape(1, 1, {"invert"}), Shape(1, 1, {"other"})}
MCFallback == <<"argb", "xrgb">>
=============================================================================
