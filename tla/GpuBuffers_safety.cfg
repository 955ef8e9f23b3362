SPECIFICATION Spec
CONSTANTS
    MinCapacity = 1
    Invalid = "invalid"
    Linear = "linear"
    FallbackFormats <- MCFallback
    RenderNodeHeader = FALSE
    AllowSoftware = FALSE
    Drivers <- MCDrivers
    Params = {p1}
    Planes <- MCPlanes
    Shapes <- MCShapes
    Surfaces = {s1}
    KnownFlags = {"invert"}
    MaxUint = 7
    MaxFds = 3
INVARIANTS DescriptorsOwned BufferUsable AdvertisedImportable
