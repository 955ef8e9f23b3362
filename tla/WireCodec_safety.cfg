CONSTANTS
    Arguments <- AllArguments
    None <- Undefined
    WordModulus = 16
    SizeModulus = 32
    KnownIds = {1}
    MaxMessages = 2
    MaxArgs = 2
SPECIFICATION Spec
CHECK_DEADLOCK FALSE
INVARIANTS DecodedExact ProxyExact
