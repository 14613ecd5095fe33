---------------------------- MODULE BulletinStore ----------------------------
(***************************************************************************)
(* The data layer of a shard's application (src/app/app.go, "Data"): what   *)
(* one GanyTx does to the badger database, and what a reader gets back.     *)
(*                                                                          *)
(* A store is the content of the database, as three maps:                   *)
(*   entries  main key -> the versions' ids, the latest GanyTx, its expiry  *)
(*   keyMap   SN       -> the main key head, its expiry                     *)
(*   ranges   SN / RangeSize -> a list of main key heads, its expiry        *)
(* The operators are pure: the wall clock of the process is an argument,    *)
(* and so is the number of writes badger's transaction accepts.             *)
(***************************************************************************)
EXTENDS Integers, Sequences, Functions

CONSTANTS
    Topics, Addrs,     \* topics (their hashes) and author addresses
    Contents,          \* the content lists that are not empty
    Auths,             \* first bytes of the AuthProof, with the AuthChallenge
    Prefix,            \* the first 8 bytes of a topic hash or of an address
    NoSn, NoContent,   \* an empty OldSn, an empty ContentList
    TimeWidth,         \* times are stored in 5 bytes: 2^40 values
    RangeSize,         \* the low byte of a TxIndex: 256 values
    MaxTimeDiff,       \* seconds a new bulletin may lag behind its block
    MinTTL, MaxTTL,    \* bounds of a time to live, seconds
    DurationHalf       \* seconds that overflow a time.Duration (2^63 ns)

ASSUME StoreAssumption ==
    /\ TimeWidth \in Nat \ {0}
    /\ RangeSize \in Nat \ {0}
    /\ MaxTimeDiff \in Nat
    /\ MinTTL \in Nat \ {0}
    /\ MaxTTL \in Nat
    /\ MinTTL <= MaxTTL
    /\ DurationHalf \in Nat
    /\ MaxTTL < DurationHalf
    /\ NoSn \notin Nat \X Nat
    /\ NoContent \notin Contents

-----------------------------------------------------------------------------
(* Transactions and keys.                                                   *)

BulletinType == 0 .. 4
CENSOR == 4

\* SN8: BlockTime5||TxIndex3
Sn == Nat \X Nat

\* The Bulletin of a GanyTx, with the part of its authentication the store
\* looks at.
GanyTx == [type : BulletinType, topic : Topics, timestamp : Nat,
           duration : Nat, oldSn : Sn \cup {NoSn}, from : Addrs,
           content : Contents \cup {NoContent}, auth : Auths]

\* 5 bytes of a big-endian int64
Low5(t) == t % TimeWidth

\* Type1||TopicHashXX8||Timestamp5
getMainKeyHead(tx) == <<tx.type, Prefix[tx.topic], Low5(tx.timestamp)>>

\* Type1||TopicHashXX8||Timestamp5||SN8||FromHashXX8
MainKey(tx, sn) ==
    [head |-> getMainKeyHead(tx), sn |-> sn, from |-> Prefix[tx.from]]

\* Only the first two bytes of the Bulletin enter its hash: the type, or for a
\* COMMENT, whose type is not encoded, the length of the topic (one length here).
GetBulletinID(tx) == <<tx.type, tx.auth>>

\* An overwrite by any author who has the main key.
CanBeOverwrittenBy_AnyAuthor(old, new) ==
    /\ old.topic = new.topic
    /\ old.type = new.type
    /\ old.timestamp = new.timestamp
    /\ old.duration = new.duration

CanBeOverwrittenBy(old, new) ==
    /\ old.topic = new.topic
    /\ old.type = new.type
    /\ old.timestamp = new.timestamp
    /\ old.from = new.from
    /\ old.duration = new.duration

-----------------------------------------------------------------------------
(* What the code takes from badger: entries expire by the wall clock.       *)

\* A product of seconds with time.Second, in an int64 of nanoseconds.
ToDuration(s) == ((s + DurationHalf) % (2 * DurationHalf)) - DurationHalf

\* An expiry is an unsigned number: one before 1970 is beyond any clock, and
\* 0 means that the entry does not expire.
ExpiresAt(ttl, now) == now + ttl
NeverExpires(e) == e.expireAt <= 0
Live(e, now) == NeverExpires(e) \/ e.expireAt > now

\* a < b as unsigned numbers
Sooner(a, b) == IF (a < 0) = (b < 0) THEN a < b ELSE b < 0

\* Get finds a key that was set, not deleted and has not expired.
Found(map, key, now) == key \in DOMAIN map /\ Live(map[key], now)

Put(map, key, value) ==
    [k \in DOMAIN map \cup {key} |-> IF k = key THEN value ELSE map[k]]

Delete(map, key) == Restrict(map, DOMAIN map \ {key})

\* What a store holds, apart from when it expires.
Bulletins(store) ==
    [k \in DOMAIN store.entries |->
        [ids |-> store.entries[k].ids, tx |-> store.entries[k].tx]]

EmptyMap == [k \in {} |-> 0]
EmptyStore == [entries |-> EmptyMap, keyMap |-> EmptyMap, ranges |-> EmptyMap]

-----------------------------------------------------------------------------
(* Response codes of the application.                                       *)

OK == 0
TimestampTooLong == 100
InvalidOldSN == 101
CannotOverwriteBulletin == 103
ErrorOther == 104

PutCodes ==
    {OK, TimestampTooLong, InvalidOldSN, CannotOverwriteBulletin, ErrorOther}

-----------------------------------------------------------------------------
(* Creating a bulletin.                                                     *)

\* A time to live without the cap, and without the floor.
toValidTTL_NoCap(expire, now) ==
    IF expire <= now THEN MinTTL ELSE ToDuration(expire - now)
toValidTTL_NoFloor(expire, now) ==
    LET ttl == ToDuration(expire - now)
    IN  IF ttl > MaxTTL THEN MaxTTL ELSE ttl

toValidTTL(expire, now) ==
    LET ttl == ToDuration(expire - now)
    IN  IF expire <= now THEN MinTTL
        ELSE IF ttl > MaxTTL THEN MaxTTL
        ELSE ttl

TooLongAgo(tx, blockTime) ==
    tx.type < CENSOR /\ tx.timestamp < blockTime - MaxTimeDiff

RangeKey(sn) == <<sn[1], sn[2] \div RangeSize>>

\* The old heads are copied into a nil slice, which takes none of them.
CopiedHeads(heads) == << >>

\* The range a block's new head is recorded in. When the new bulletin does not
\* outlive the range, the time left is taken in nanoseconds: it expires at once.
NewRange(ranges, key, head, expireAt, now) ==
    IF ~Found(ranges, key, now)
    THEN [heads |-> <<head>>, expireAt |-> expireAt]
    ELSE LET old == ranges[key]
         IN  [heads |-> Append(CopiedHeads(old.heads), head),
              expireAt |-> IF Sooner(old.expireAt, expireAt) THEN expireAt ELSE now]

CreateWriteCount == 3

\* The range written first.
CreateWrites_RangeFirst(store, tx, sn, now, accepted) ==
    LET head == getMainKeyHead(tx)
        expireAt == ExpiresAt(toValidTTL(tx.duration, now), now)
        entry == [ids |-> <<GetBulletinID(tx)>>, tx |-> tx, expireAt |-> expireAt]
        range == RangeKey(sn)
    IN  [entries |-> IF accepted >= 2
                     THEN Put(store.entries, MainKey(tx, sn), entry)
                     ELSE store.entries,
         keyMap |-> IF accepted >= 3
                    THEN Put(store.keyMap, sn, [head |-> head, expireAt |-> expireAt])
                    ELSE store.keyMap,
         ranges |-> IF accepted >= 1
                    THEN Put(store.ranges, range,
                             NewRange(store.ranges, range, head, expireAt, now))
                    ELSE store.ranges]

\* The store after the first `accepted` of the three writes of a creation.
CreateWrites(store, tx, sn, now, accepted) ==
    LET head == getMainKeyHead(tx)
        expireAt == ExpiresAt(toValidTTL(tx.duration, now), now)
        entry == [ids |-> <<GetBulletinID(tx)>>, tx |-> tx, expireAt |-> expireAt]
        range == RangeKey(sn)
    IN  [entries |-> IF accepted >= 1
                     THEN Put(store.entries, MainKey(tx, sn), entry)
                     ELSE store.entries,
         keyMap |-> IF accepted >= 2
                    THEN Put(store.keyMap, sn, [head |-> head, expireAt |-> expireAt])
                    ELSE store.keyMap,
         ranges |-> IF accepted >= 3
                    THEN Put(store.ranges, range,
                             NewRange(store.ranges, range, head, expireAt, now))
                    ELSE store.ranges]

\* A creation that is refused by the clock of the process.
createGanyTx_Clock(store, tx, sn, now, accepted) ==
    IF tx.content = NoContent THEN [code |-> OK, store |-> store]
    ELSE IF TooLongAgo(tx, now)
    THEN [code |-> TimestampTooLong, store |-> store]
    ELSE [code |-> IF accepted = CreateWriteCount THEN OK ELSE ErrorOther,
          store |-> CreateWrites(store, tx, sn, now, accepted)]

createGanyTx(store, tx, sn, now, accepted) ==
    IF tx.content = NoContent THEN [code |-> OK, store |-> store]
    ELSE IF TooLongAgo(tx, sn[1])
    THEN [code |-> TimestampTooLong, store |-> store]
    ELSE [code |-> IF accepted = CreateWriteCount THEN OK ELSE ErrorOther,
          store |-> CreateWrites(store, tx, sn, now, accepted)]

-----------------------------------------------------------------------------
(* Overwriting and deleting.                                                *)

\* A history that is not searched.
historyContainsId_Any(entry, id) == TRUE

historyContainsId(entry, id) == id \in Range(entry.ids)

\* A missing bulletin is reported as badger's own error, hence ErrorOther.
OverwriteError(store, tx, now) ==
    LET key == MainKey(tx, tx.oldSn)
        old == store.entries[key]
    IN  IF ~Found(store.entries, key, now) THEN ErrorOther
        ELSE IF ~historyContainsId(old, GetBulletinID(tx)) THEN InvalidOldSN
        ELSE IF ~CanBeOverwrittenBy(old.tx, tx) THEN CannotOverwriteBulletin
        ELSE OK

NextVersion(entry, tx, now) ==
    [ids |-> Append(entry.ids, GetBulletinID(tx)), tx |-> tx,
     expireAt |-> ExpiresAt(toValidTTL(tx.duration, now), now)]

overwriteBulletin(store, tx, now, accepted) ==
    LET key == MainKey(tx, tx.oldSn)
        error == OverwriteError(store, tx, now)
    IN  IF error # OK THEN [code |-> error, store |-> store]
        ELSE IF accepted = 0 THEN [code |-> ErrorOther, store |-> store]
        ELSE [code |-> OK,
              store |-> [store EXCEPT !.entries =
                            IF tx.content = NoContent THEN Delete(@, key)
                            ELSE Put(@, key, NextVersion(@[key], tx, now))]]

putGanyTx(store, tx, sn, now, accepted) ==
    IF tx.oldSn = NoSn THEN createGanyTx(store, tx, sn, now, accepted)
    ELSE overwriteBulletin(store, tx, now, accepted)

-----------------------------------------------------------------------------
(* Reading by Gany URL: the topic of the URL only selects the shard.        *)

\* Heads counted from 1.
LookupMainKeyFromRange_FromOne(store, sn, now) ==
    LET range == RangeKey(sn)
        index == sn[2] % RangeSize
    IN  IF /\ Found(store.ranges, range, now)
           /\ index + 1 < Len(store.ranges[range].heads)
        THEN {store.ranges[range].heads[index + 2]}
        ELSE {}

\* The head at the TxIndex's low byte in the range, as a set of at most one.
LookupMainKeyFromRange(store, sn, now) ==
    LET range == RangeKey(sn)
        index == sn[2] % RangeSize
    IN  IF /\ Found(store.ranges, range, now)
           /\ index < Len(store.ranges[range].heads)
        THEN {store.ranges[range].heads[index + 1]}
        ELSE {}

\* The main keys whose values a URL returns, one after the other.
getGanyTx(store, sn, now) ==
    {k \in DOMAIN store.entries :
        /\ Live(store.entries[k], now)
        /\ k.sn = sn
        /\ k.head \in LookupMainKeyFromRange(store, sn, now)}
=============================================================================
