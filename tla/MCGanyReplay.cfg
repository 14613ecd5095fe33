\* Two crashes anywhere in a chain of three blocks; nothing expires.
SPECIFICATION RSpec
CONSTANTS
    t1 = t1
    alice = alice
    x = x
    y = y
    auth1 = auth1
    p1 = p1
    p2 = p2
    Topics = {t1}
    Addrs = {alice}
    Contents = {x, y}
    Auths = {auth1}
    Prefix <- MCPrefix
    NoSn = NoSn
    NoContent = NoContent
    TimeWidth = 16
    RangeSize = 2
    MaxTimeDiff = 3
    MinTTL = 4
    MaxTTL = 10
    DurationHalf = 50
    Txs <- MCTxs
    MinBlockGap = 1
    TxnLimit = 3
    DiskMayFail = FALSE
    BlindOverwrites = FALSE
    MaxNow = 2
    MaxBlockTime = 3
    MaxHeight = 3
    MaxBlockTxs = 2
    MaxCrashes = 2
INVARIANTS
    ReplayRestoresBulletins
\* The model stops at its bounds.
CHECK_DEADLOCK FALSE
