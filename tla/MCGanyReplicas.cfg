\* Two clocks; blocks in the same second, batches that fill up, durations that
\* overflow.
SPECIFICATION Spec2
CONSTANTS
    t1 = t1
    t2 = t2
    alice = alice
    bob = bob
    carol = carol
    x = x
    y = y
    auth1 = auth1
    auth2 = auth2
    p1 = p1
    p2 = p2
    p3 = p3
    Topics = {t1, t2}
    Addrs = {alice, bob, carol}
    Contents = {x, y}
    Auths = {auth1, auth2}
    Prefix <- MCPrefix
    NoSn = NoSn
    NoContent = NoContent
    TimeWidth = 16
    RangeSize = 2
    MaxTimeDiff = 0
    MinTTL = 1
    MaxTTL = 2
    DurationHalf = 4
    Txs <- MCTxs
    MinBlockGap = 0
    TxnLimit = 1
    DiskMayFail = FALSE
    MaxNow = 2
    MaxBlockTime = 1
    MaxHeight = 2
    MaxBlockTxs = 2
INVARIANTS
    OneIdPerHistory
    ReplicasAgree
PROPERTIES
    RefusedTouchesNoOther
\* The model stops at its bounds.
CHECK_DEADLOCK FALSE
