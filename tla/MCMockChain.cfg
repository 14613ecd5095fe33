SPECIFICATION Spec
CONSTANTS
    p = p
    q = q
    v = v
    main = main
    poor = poor
    nobody = nobody
    c = c
    d = d
    auth = auth
    Topics = {1, 2}
    Addrs <- MCAddrs
    Contents = {c, d}
    Auths = {auth}
    Prefix <- MCPrefix
    NoSn = NoSn
    NoContent = NoContent
    TimeWidth = 4
    RangeSize = 2
    MaxTimeDiff = 0
    MinTTL = 1
    MaxTTL = 2
    DurationHalf = 4
    NoAddress = NoAddress
    ZeroAddress = ZeroAddress
    Stranger = Stranger
    MaxAmountLen = 2
    Requests <- MCRequests
    Delegated <- MCDelegated
    FirstWallets <- MCFirstWallets
    ValidatorAddr = v
    ValidatorKey <- MCValidatorKey
    ValidatorList <- MCValidatorList
    Beta <- MCBeta
    Shards = 2
    TopicHash <- MCTopicHash
    NonceWrap = 3
    MaxPayments = 4
    MaxNow = 2
\* Payments are bounded.
CHECK_DEADLOCK FALSE
INVARIANTS
    TypeOK
    TokensAreConserved
    StoredIsPaid
    PaymentTakenOnce
    MockPaysAsContract
    MockChecksAsBackend
