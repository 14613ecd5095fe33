\* Pages of two bulletins, read while blocks are committed.
SPECIFICATION QSpec
CONSTANTS
    t1 = t1
    t2 = t2
    alice = alice
    x = x
    y = y
    auth1 = auth1
    p1 = p1
    Topics = {t1, t2}
    Addrs = {alice}
    Contents = {x, y}
    Auths = {auth1}
    Prefix <- MCPrefix
    NoSn = NoSn
    NoContent = NoContent
    TimeWidth = 16
    RangeSize = 2
    MaxTimeDiff = 3
    MinTTL = 1
    MaxTTL = 10
    DurationHalf = 50
    Txs <- MCTxs
    MinBlockGap = 1
    TxnLimit = 3
    DiskMayFail = FALSE
    MaxNow = 2
    MaxBlockTime = 2
    MaxHeight = 2
    MaxBlockTxs = 2
    MaxQueryResultCount = 1
    Periods <- MCPeriods
PROPERTIES
    PageIsWanted
    ReaderMissesNothing
    ReadingEnds
\* The model stops at its bounds.
CHECK_DEADLOCK FALSE
