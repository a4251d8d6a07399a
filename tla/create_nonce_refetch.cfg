CONSTANTS
    a1 = a1
    a2 = a2
    a3 = a3
    k1 = k1
    NONE = NONE
    Addr <- MCAddr
    Key <- MCKey
    HistStorage <- MCHistStorage
    HistBalance <- MCHistBalance
    HistCode <- MCHistCode
    HistNonce <- MCHistNonce
    RequireRPC = TRUE
    StoreVal = {0, 2}
    CallValue = {0, 1}
    CreateValue = {0}
    MaxDepth = 3
    MaxOps = 5
    MaxTx = 1
    SubcallErrorReported = TRUE
    ProviderFaults = FALSE
SPECIFICATION Spec
INVARIANT CreatorNonceIsTrue
CHECK_DEADLOCK FALSE
