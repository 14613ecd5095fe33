\* Blocks at least a second apart, batches that never fill up.
SPECIFICATION Spec
CONSTANTS
    t1 = t1
    t2 = t2
    alice = alice
    bob = bob
    carol = carol
    x = x
    y = y
    auth1 = auth1
    auth2 = auth2
    p1 = p1
    p2 = p2
    p3 = p3
    Topics = {t1, t2}
    Addrs = {alice, bob, carol}
    Contents = {x, y}
    Auths = {auth1, auth2}
    Prefix <- MCPrefix
    NoSn = NoSn
    NoContent = NoContent
    TimeWidth = 16
    RangeSize = 2
    MaxTimeDiff = 1
    MinTTL = 1
    MaxTTL = 2
    DurationHalf = 50
    Txs <- MCTxs
    MinBlockGap = 1
    TxnLimit = 3
    DiskMayFail = TRUE
    MaxNow = 3
    MaxBlockTime = 3
    MaxHeight = 2
    MaxBlockTxs = 2
INVARIANTS
    TypeOK
    SnNamesOneBulletin
    RetentionBounded
    LoneBulletinResolves
PROPERTIES
    VersionsOnlyExtend
    DeletedStaysDeleted
    AcceptedTakesEffect
    ImplementsBoard
\* The model stops at its bounds.
CHECK_DEADLOCK FALSE
