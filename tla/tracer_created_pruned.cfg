CONSTANTS
    s = s
    t = t
    c = c
    x = x
    k1 = k1
    NONE = NONE
    Addr <- MCAddr
    Key <- MCKey
    Sender = s
    Target <- MCTarget
    InitStorage <- MCInitStorage
    InitBalance <- MCInitBalance
    InitCode <- MCInitCode
    InitNonce <- MCInitNonce
    StoreVal = {2}
    CallValue = {0, 1}
    MaxDepth = 3
    MaxFrames = 3
    MaxOps = 5
    BalanceSlot <- MCBalanceSlot
    LogParty = {s}
    TxKinds = {"CALL"}
SPECIFICATION Spec
INVARIANT CreatedPruned
CHECK_DEADLOCK FALSE
