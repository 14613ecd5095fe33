---------------------------- MODULE GanyAppProofs ----------------------------
(***************************************************************************)
(* Theorems about GanyApp, for every value of its constants.                *)
(***************************************************************************)
EXTENDS GanyApp, TLAPS

-----------------------------------------------------------------------------
(* The operators of BulletinStore return values of their types.             *)

\* What is computed from a transaction: its id, its main key head and its key.
LEMMA KeyTypes ==
    ASSUME NEW tx \in GanyTx, NEW sn \in Sn
    PROVE  /\ GetBulletinID(tx) \in BulletinIds
           /\ getMainKeyHead(tx) \in MainKeyHeads
           /\ MainKey(tx, sn) \in MainKeys
           /\ RangeKey(sn) \in Sn
<1>1. /\ tx.type \in BulletinType /\ tx.topic \in Topics /\ tx.timestamp \in Nat
      /\ tx.from \in Addrs /\ tx.auth \in Auths
  BY DEF GanyTx
<1>2. GetBulletinID(tx) \in BulletinIds
  BY <1>1 DEF GetBulletinID, BulletinIds
<1>3. Low5(tx.timestamp) \in Nat
  BY <1>1, StoreAssumption DEF Low5
<1>4. Prefix[tx.topic] \in HashPrefixes /\ Prefix[tx.from] \in HashPrefixes
  BY <1>1 DEF HashPrefixes
<1>5. getMainKeyHead(tx) \in MainKeyHeads
  BY <1>1, <1>3, <1>4 DEF getMainKeyHead, MainKeyHeads
<1>6. MainKey(tx, sn) \in MainKeys
  BY <1>4, <1>5 DEF MainKey, MainKeys
<1>7. sn[1] \in Nat /\ sn[2] \in Nat
  BY DEF Sn
<1>8. sn[2] \div RangeSize \in Nat
  BY <1>7, StoreAssumption
<1>9. RangeKey(sn) \in Sn
  BY <1>7, <1>8 DEF RangeKey, Sn
<1> QED BY <1>2, <1>5, <1>6, <1>9

\* The expiry of an entry is a number, whatever the Duration overflows to.
LEMMA ExpiryType ==
    ASSUME NEW expire \in Nat, NEW clock \in Nat
    PROVE  ExpiresAt(toValidTTL(expire, clock), clock) \in Int
<1>1. ToDuration(expire - clock) \in Int
  BY StoreAssumption DEF ToDuration
<1>2. toValidTTL(expire, clock) \in Int
  BY <1>1, StoreAssumption DEF toValidTTL
<1> QED BY <1>2 DEF ExpiresAt

\* Setting and deleting a key keep a map well-typed.
LEMMA PutType ==
    ASSUME NEW map, NEW keys, NEW values, MapOK(map, keys, values),
           NEW key \in keys, NEW value \in values
    PROVE  MapOK(Put(map, key, value), keys, values)
BY DEF MapOK, Put

\* Deleting a key keeps a map well-typed.
LEMMA DeleteType ==
    ASSUME NEW map, NEW keys, NEW values, MapOK(map, keys, values), NEW key
    PROVE  MapOK(Delete(map, key), keys, values)
BY DEF MapOK, Delete, Restrict

\* The range a creation records is a list of heads with an expiry.
LEMMA NewRangeType ==
    ASSUME NEW ranges, MapOK(ranges, Sn, RangeItems), NEW key \in Sn,
           NEW head \in MainKeyHeads, NEW expireAt \in Int, NEW clock \in Nat
    PROVE  NewRange(ranges, key, head, expireAt, clock) \in RangeItems
<1>1. <<head>> \in Seq(MainKeyHeads)
  OBVIOUS
<1>2. \A old : Append(CopiedHeads(old), head) \in Seq(MainKeyHeads)
  BY DEF CopiedHeads
<1> QED BY <1>1, <1>2 DEF NewRange, RangeItems

\* Any number of the writes of a creation leaves a well-typed store.
LEMMA CreateWritesType ==
    ASSUME NEW store, StoreOK(store), NEW tx \in GanyTx, NEW sn \in Sn,
           NEW clock \in Nat, NEW accepted \in 0 .. CreateWriteCount
    PROVE  StoreOK(CreateWrites(store, tx, sn, clock, accepted))
<1> DEFINE head == getMainKeyHead(tx)
           expireAt == ExpiresAt(toValidTTL(tx.duration, clock), clock)
           entry == [ids |-> <<GetBulletinID(tx)>>, tx |-> tx, expireAt |-> expireAt]
           range == RangeKey(sn)
           new == CreateWrites(store, tx, sn, clock, accepted)
<1>1. /\ MapOK(store.entries, MainKeys, Entries)
      /\ MapOK(store.keyMap, Sn, KeyMapItems)
      /\ MapOK(store.ranges, Sn, RangeItems)
  BY DEF StoreOK
<1>2. expireAt \in Int
  BY ExpiryType DEF GanyTx
<1>3. head \in MainKeyHeads /\ MainKey(tx, sn) \in MainKeys /\ range \in Sn
  BY KeyTypes
<1>4. entry \in Entries
  BY KeyTypes, <1>2 DEF Entries
<1>5. [head |-> head, expireAt |-> expireAt] \in KeyMapItems
  BY <1>2, <1>3 DEF KeyMapItems
<1>6. NewRange(store.ranges, range, head, expireAt, clock) \in RangeItems
  BY <1>1, <1>2, <1>3, NewRangeType
<1>7. MapOK(Put(store.entries, MainKey(tx, sn), entry), MainKeys, Entries)
  BY <1>1, <1>3, <1>4, PutType
<1>8. MapOK(Put(store.keyMap, sn, [head |-> head, expireAt |-> expireAt]),
            Sn, KeyMapItems)
  BY <1>1, <1>5, PutType
<1>9. MapOK(Put(store.ranges, range,
                NewRange(store.ranges, range, head, expireAt, clock)),
            Sn, RangeItems)
  BY <1>1, <1>3, <1>6, PutType
<1> QED BY <1>1, <1>7, <1>8, <1>9 DEF StoreOK, CreateWrites

\* The next version of an entry is an entry.
LEMMA NextVersionType ==
    ASSUME NEW old \in Entries, NEW tx \in GanyTx, NEW clock \in Nat
    PROVE  NextVersion(old, tx, clock) \in Entries
<1>1. GetBulletinID(tx) \in BulletinIds
  BY DEF GetBulletinID, BulletinIds, GanyTx
<1>2. ExpiresAt(toValidTTL(tx.duration, clock), clock) \in Int
  BY ExpiryType DEF GanyTx
<1>3. old.ids \in Seq(BulletinIds)
  BY DEF Entries
<1>4. Append(old.ids, GetBulletinID(tx)) \in Seq(BulletinIds)
  BY <1>1, <1>3
<1> QED BY <1>2, <1>4 DEF NextVersion, Entries

\* Whatever a transaction does, it leaves a well-typed store and a known code.
LEMMA PutGanyTxType ==
    ASSUME NEW store, StoreOK(store), NEW tx \in GanyTx, NEW sn \in Sn,
           NEW clock \in Nat, NEW accepted \in 0 .. CreateWriteCount
    PROVE  LET put == putGanyTx(store, tx, sn, clock, accepted)
           IN  StoreOK(put.store) /\ put.code \in PutCodes
<1> DEFINE put == putGanyTx(store, tx, sn, clock, accepted)
<1>1. CASE tx.oldSn = NoSn
  <2>1. put = createGanyTx(store, tx, sn, clock, accepted)
    BY <1>1 DEF putGanyTx
  <2>2. StoreOK(CreateWrites(store, tx, sn, clock, accepted))
    BY CreateWritesType
  <2> QED BY <2>1, <2>2
      DEF createGanyTx, PutCodes, OK, TimestampTooLong, ErrorOther
<1>2. CASE tx.oldSn # NoSn
  <2> DEFINE key == MainKey(tx, tx.oldSn)
             error == OverwriteError(store, tx, clock)
  <2>1. put = overwriteBulletin(store, tx, clock, accepted)
    BY <1>2 DEF putGanyTx
  <2>2. error \in PutCodes
    BY DEF OverwriteError, PutCodes
  <2>3. CASE error # OK \/ accepted = 0
    BY <2>1, <2>2, <2>3 DEF overwriteBulletin, PutCodes
  <2>4. CASE error = OK /\ accepted # 0
    <3>1. key \in DOMAIN store.entries
      BY <2>4 DEF OverwriteError, Found, ErrorOther, OK
    <3>2. MapOK(store.entries, MainKeys, Entries)
      BY DEF StoreOK
    <3>3. key \in MainKeys /\ store.entries[key] \in Entries
      BY <3>1, <3>2 DEF MapOK
    <3>4. MapOK(Delete(store.entries, key), MainKeys, Entries)
      BY <3>2, DeleteType
    <3>5. NextVersion(store.entries[key], tx, clock) \in Entries
      BY <3>3, NextVersionType
    <3>6. MapOK(Put(store.entries, key, NextVersion(store.entries[key], tx, clock)),
                MainKeys, Entries)
      BY <3>2, <3>3, <3>5, PutType
    <3>7. put = [code |-> OK,
                 store |-> [store EXCEPT !.entries =
                    IF tx.content = NoContent THEN Delete(store.entries, key)
                    ELSE Put(store.entries, key,
                             NextVersion(store.entries[key], tx, clock))]]
      BY <2>1, <2>4 DEF overwriteBulletin, StoreOK
    <3>8. /\ MapOK(put.store.entries, MainKeys, Entries)
          /\ put.store.keyMap = store.keyMap
          /\ put.store.ranges = store.ranges
          /\ put.store = [entries |-> put.store.entries,
                          keyMap |-> put.store.keyMap, ranges |-> put.store.ranges]
      BY <3>4, <3>6, <3>7 DEF StoreOK
    <3> QED BY <3>7, <3>8 DEF StoreOK, PutCodes
  <2> QED BY <2>3, <2>4
<1> QED BY <1>1, <1>2

-----------------------------------------------------------------------------
(* Type correctness.                                                        *)

\* Every step keeps the types.
LEMMA TypeStep ==
    ASSUME TypeOK, [Next]_vars
    PROVE  TypeOK'
<1>1. CASE Tick
  BY <1>1 DEF Tick, TypeOK
<1>2. CASE BeginBlock
  BY <1>2 DEF BeginBlock, TypeOK, PutCodes
<1>3. CASE DeliverInvalidTx
  BY <1>3 DEF DeliverInvalidTx, TypeOK
<1>4. ASSUME NEW tx \in Txs, DeliverTx(tx)
      PROVE  TypeOK'
  <2>1. PICK accepted \in Accepted :
          LET put == putGanyTx(batch, tx, CurrentSn, now, accepted)
          IN  resp' = put.code /\ batch' = put.store /\ txIndex' = NextTxIndex(put.code)
    BY <1>4 DEF DeliverTx, Deliver
  <2>2. accepted \in 0 .. CreateWriteCount
    BY DEF Accepted, CreateWriteCount
  <2>3. tx \in GanyTx
    BY AppAssumption
  <2>4. CurrentSn \in Sn
    BY DEF CurrentSn, Sn, TypeOK
  <2>5. StoreOK(batch') /\ resp' \in PutCodes
    BY <2>1, <2>2, <2>3, <2>4, PutGanyTxType DEF TypeOK
  <2>6. txIndex' \in Nat
    BY <2>1 DEF NextTxIndex, TypeOK
  <2> QED BY <1>4, <2>5, <2>6 DEF DeliverTx, Deliver, TypeOK
<1>5. CASE Commit
  BY <1>5 DEF Commit, TypeOK, PutCodes
<1>6. CASE UNCHANGED vars
  BY <1>6 DEF vars, TypeOK
<1> QED BY <1>1, <1>2, <1>3, <1>4, <1>5, <1>6 DEF Next

\* The variables keep their types, and every entry the database holds has the
\* layout of app.go:73-76.
THEOREM TypeCorrect == Spec => []TypeOK
<1>1. Init => TypeOK
  <2>1. StoreOK(EmptyStore)
    BY DEF EmptyStore, EmptyMap, StoreOK, MapOK
  <2> QED BY <2>1 DEF Init, TypeOK, PutCodes, OK
<1>2. TypeOK /\ [Next]_vars => TypeOK'
  BY TypeStep
<1> QED BY <1>1, <1>2, PTL DEF Spec

-----------------------------------------------------------------------------
(* Histories and keys, with no assumption on blocks or batches.             *)

\* One transaction keeps every bulletin under its own key.
LEMMA PutKeepsKeys ==
    ASSUME NEW store, StoreOK(store), NEW tx \in GanyTx, NEW sn \in Sn,
           NEW clock \in Nat, NEW accepted \in 0 .. CreateWriteCount,
           KeysFollowBulletins(store)
    PROVE  KeysFollowBulletins(putGanyTx(store, tx, sn, clock, accepted).store)
<1> DEFINE put == putGanyTx(store, tx, sn, clock, accepted)
<1> SUFFICES ASSUME NEW k \in DOMAIN put.store.entries
             PROVE  MainKey(put.store.entries[k].tx, k.sn) = k
  BY DEF KeysFollowBulletins
<1>1. CASE tx.oldSn = NoSn
  <2>1. put = createGanyTx(store, tx, sn, clock, accepted)
    BY <1>1 DEF putGanyTx
  <2>2. \/ k \in DOMAIN store.entries /\ put.store.entries[k] = store.entries[k]
        \/ k = MainKey(tx, sn) /\ put.store.entries[k].tx = tx
    BY <2>1 DEF createGanyTx, CreateWrites, Put
  <2> QED BY <2>2 DEF KeysFollowBulletins, MainKey
<1>2. CASE tx.oldSn # NoSn
  <2>1. put = overwriteBulletin(store, tx, clock, accepted)
    BY <1>2 DEF putGanyTx
  <2>2. \/ k \in DOMAIN store.entries /\ put.store.entries[k] = store.entries[k]
        \/ k = MainKey(tx, tx.oldSn) /\ put.store.entries[k].tx = tx
    BY <2>1 DEF overwriteBulletin, Put, Delete, Restrict, NextVersion, StoreOK
  <2> QED BY <2>2 DEF KeysFollowBulletins, MainKey
<1> QED BY <1>1, <1>2

\* One transaction keeps every history to the id of its bulletin.
LEMMA PutKeepsHistories ==
    ASSUME NEW store, StoreOK(store), NEW tx \in GanyTx, NEW sn \in Sn,
           NEW clock \in Nat, NEW accepted \in 0 .. CreateWriteCount,
           HistoriesOfOneId(store)
    PROVE  HistoriesOfOneId(putGanyTx(store, tx, sn, clock, accepted).store)
<1> DEFINE put == putGanyTx(store, tx, sn, clock, accepted)
           id == GetBulletinID(tx)
<1> SUFFICES ASSUME NEW k \in DOMAIN put.store.entries,
                    NEW i \in 1 .. Len(put.store.entries[k].ids)
             PROVE  put.store.entries[k].ids[i] = GetBulletinID(put.store.entries[k].tx)
  BY DEF HistoriesOfOneId
<1>1. CASE k \in DOMAIN store.entries /\ put.store.entries[k] = store.entries[k]
  BY <1>1 DEF HistoriesOfOneId
<1>2. CASE tx.oldSn = NoSn
  <2>1. put = createGanyTx(store, tx, sn, clock, accepted)
    BY <1>2 DEF putGanyTx
  <2>2. \/ k \in DOMAIN store.entries /\ put.store.entries[k] = store.entries[k]
        \/ put.store.entries[k].ids = <<id>> /\ put.store.entries[k].tx = tx
    BY <2>1 DEF createGanyTx, CreateWrites, Put
  <2> QED BY <1>1, <2>2
<1>3. CASE tx.oldSn # NoSn
  <2> DEFINE key == MainKey(tx, tx.oldSn)
  <2>1. put = overwriteBulletin(store, tx, clock, accepted)
    BY <1>3 DEF putGanyTx
  <2>2. \/ k \in DOMAIN store.entries /\ put.store.entries[k] = store.entries[k]
        \/ /\ OverwriteError(store, tx, clock) = OK
           /\ put.store.entries[k] = NextVersion(store.entries[key], tx, clock)
    BY <2>1 DEF overwriteBulletin, Put, Delete, Restrict, StoreOK
  <2>3. CASE /\ OverwriteError(store, tx, clock) = OK
             /\ put.store.entries[k] = NextVersion(store.entries[key], tx, clock)
    <3> DEFINE old == store.entries[key]
    <3>1. /\ key \in DOMAIN store.entries
          /\ id \in Range(old.ids)
      BY <2>3 DEF OverwriteError, Found, historyContainsId, OK, ErrorOther,
                  InvalidOldSN, CannotOverwriteBulletin
    <3>2. old.ids \in Seq(BulletinIds)
      BY <3>1 DEF StoreOK, MapOK, Entries
    <3>3. PICK j \in 1 .. Len(old.ids) : old.ids[j] = id
      BY <3>1, <3>2 DEF Range
    <3>4. \A n \in 1 .. Len(old.ids) : old.ids[n] = GetBulletinID(old.tx)
      BY <3>1 DEF HistoriesOfOneId
    <3>5. \A n \in 1 .. Len(old.ids) : old.ids[n] = id
      BY <3>3, <3>4
    <3>6. id \in BulletinIds
      BY KeyTypes, <3>2, <3>3
    <3>7. /\ put.store.entries[k].ids = Append(old.ids, id)
          /\ put.store.entries[k].tx = tx
      <4> DEFINE next == put.store.entries[k]
      <4>1. next = [ids |-> Append(old.ids, id), tx |-> tx,
                    expireAt |-> ExpiresAt(toValidTTL(tx.duration, clock), clock)]
        BY <2>3, Zenon DEF NextVersion
      <4> HIDE DEF next, old, id
      <4>2. next.ids = Append(old.ids, id) /\ next.tx = tx
        BY ONLY <4>1
      <4> QED BY <4>2 DEF next
    <3>8. Append(old.ids, id)[i] = id
      <4> HIDE DEF id, old
      <4>0. Len(Append(old.ids, id)) = Len(old.ids) + 1 /\ Len(old.ids) \in Nat
        BY ONLY <3>2, <3>6
      <4>1. i \in 1 .. Len(old.ids) + 1
        BY <3>7, <4>0
      <4>2. CASE i = Len(old.ids) + 1
        BY ONLY <3>2, <3>6, <4>2
      <4>3. CASE i \in 1 .. Len(old.ids)
        <5>1. Append(old.ids, id)[i] = old.ids[i]
          BY ONLY <3>2, <3>6, <4>3
        <5> QED BY ONLY <3>5, <4>3, <5>1
      <4> QED BY ONLY <4>0, <4>1, <4>2, <4>3
    <3> QED BY <3>7, <3>8
  <2> QED BY <1>1, <2>2, <2>3
<1> QED BY <1>2, <1>3

\* A transaction the application takes reaches the batch as putGanyTx.
LEMMA DeliverTxPuts ==
    ASSUME TypeOK, NEW tx \in Txs, DeliverTx(tx)
    PROVE  /\ tx \in GanyTx
           /\ CurrentSn \in Sn
           /\ \E accepted \in Accepted :
                 /\ accepted \in 0 .. CreateWriteCount
                 /\ resp' = putGanyTx(batch, tx, CurrentSn, now, accepted).code
                 /\ batch' = putGanyTx(batch, tx, CurrentSn, now, accepted).store
                 /\ txIndex' = NextTxIndex(resp')
<1>1. \A accepted \in Accepted : accepted \in 0 .. CreateWriteCount
  BY DEF Accepted, CreateWriteCount
<1>2. tx \in GanyTx
  BY AppAssumption
<1>3. CurrentSn \in Sn
  BY DEF CurrentSn, Sn, TypeOK
<1> QED BY <1>1, <1>2, <1>3 DEF DeliverTx, Deliver

\* Whatever blocks, clocks and full batches do, every bulletin is stored under
\* the main key of its latest version and its history holds one id: neither the
\* authentication nor the author of a stored bulletin is ever replaced by an
\* overwrite (app.go:435-512).
THEOREM HistoriesKept == Spec => [](KeyIsItsBulletins /\ OneIdPerHistory)
<1> DEFINE Inv == KeyIsItsBulletins /\ OneIdPerHistory
<1>1. Init => Inv
  BY DEF Init, KeyIsItsBulletins, OneIdPerHistory, KeysFollowBulletins,
         HistoriesOfOneId, EmptyStore, EmptyMap
<1>2. TypeOK /\ Inv /\ [Next]_vars => Inv'
  <2> SUFFICES ASSUME TypeOK, Inv, [Next]_vars
               PROVE  Inv'
    OBVIOUS
  <2> USE DEF KeyIsItsBulletins, OneIdPerHistory
  <2>1. ASSUME NEW tx \in Txs, DeliverTx(tx)
        PROVE  Inv'
    <3>1. PICK accepted \in 0 .. CreateWriteCount :
            batch' = putGanyTx(batch, tx, CurrentSn, now, accepted).store
      BY <2>1, DeliverTxPuts
    <3>2. tx \in GanyTx /\ CurrentSn \in Sn /\ StoreOK(batch) /\ now \in Nat
      BY <2>1, DeliverTxPuts DEF TypeOK
    <3>3. KeysFollowBulletins(putGanyTx(batch, tx, CurrentSn, now, accepted).store)
      BY <3>2, PutKeepsKeys
    <3>4. HistoriesOfOneId(putGanyTx(batch, tx, CurrentSn, now, accepted).store)
      BY <3>2, PutKeepsHistories
    <3>5. KeysFollowBulletins(batch') /\ HistoriesOfOneId(batch')
      BY <3>1, <3>3, <3>4
    <3>6. KeysFollowBulletins(committed)' /\ HistoriesOfOneId(committed)'
      BY <2>1 DEF DeliverTx, Deliver, KeysFollowBulletins, HistoriesOfOneId
    <3> QED BY <3>5, <3>6 DEF KeysFollowBulletins, HistoriesOfOneId
  <2>2. CASE BeginBlock
    BY <2>2 DEF BeginBlock, KeysFollowBulletins, HistoriesOfOneId
  <2>3. CASE Commit
    BY <2>3 DEF Commit, KeysFollowBulletins, HistoriesOfOneId
  <2>4. CASE Tick \/ DeliverInvalidTx \/ UNCHANGED vars
    BY <2>4 DEF Tick, DeliverInvalidTx, vars, KeysFollowBulletins, HistoriesOfOneId
  <2> QED BY <2>1, <2>2, <2>3, <2>4 DEF Next
<1> QED BY <1>1, <1>2, TypeCorrect, PTL DEF Spec

-----------------------------------------------------------------------------
(* Serial numbers, when blocks are a second apart and batches have room.    *)

\* An SN that was given out before the block time and index of `sn`.
Before(old, sn) == old[1] < sn[1] \/ (old[1] = sn[1] /\ old[2] < sn[2])

\* Uniqueness alone is not inductive: the SN a creation takes must be new. All
\* stored SNs are behind the one the block has reached.
SnInv ==
    /\ phase = "block" =>
          /\ \A k \in DOMAIN batch.entries : Before(k.sn, CurrentSn)
          /\ \A k \in DOMAIN committed.entries : k.sn[1] < blockTime
    /\ phase = "idle" => \A k \in DOMAIN committed.entries : k.sn[1] <= blockTime
    /\ SnNamesOneBulletin

\* A transaction all of whose writes are accepted adds a main key only at the
\* current SN, and only when it succeeds.
LEMMA PutAddsOneKey ==
    ASSUME NEW store, StoreOK(store), NEW tx \in GanyTx, NEW sn \in Sn, NEW clock
    PROVE  LET put == putGanyTx(store, tx, sn, clock, CreateWriteCount)
           IN  \/ DOMAIN put.store.entries \subseteq DOMAIN store.entries
               \/ /\ DOMAIN put.store.entries
                       = DOMAIN store.entries \cup {MainKey(tx, sn)}
                  /\ put.code = OK
<1> DEFINE put == putGanyTx(store, tx, sn, clock, CreateWriteCount)
<1>1. CASE tx.oldSn = NoSn
  BY <1>1 DEF putGanyTx, createGanyTx, CreateWrites, Put, CreateWriteCount
<1>2. CASE tx.oldSn # NoSn
  <2>1. put = overwriteBulletin(store, tx, clock, CreateWriteCount)
    BY <1>2 DEF putGanyTx
  <2>2. OverwriteError(store, tx, clock) = OK =>
          MainKey(tx, tx.oldSn) \in DOMAIN store.entries
    BY DEF OverwriteError, Found, OK, ErrorOther
  <2> QED BY <2>1, <2>2
      DEF overwriteBulletin, Put, Delete, Restrict, StoreOK
<1> QED BY <1>1, <1>2

\* The strengthening is an invariant when blocks are at least a second apart and
\* no block has more transactions than a batch takes.
LEMMA SnInvInvariant ==
    ASSUME MinBlockGap >= 1, MaxBlockTxs <= TxnLimit
    PROVE  Spec => []SnInv
<1> USE DEF SnNamesOneBulletin
<1>1. Init => SnInv
  BY DEF Init, SnInv, OneBulletinPerSn, EmptyStore, EmptyMap
<1>2. TypeOK /\ SnInv /\ [Next]_vars => SnInv'
  <2> SUFFICES ASSUME TypeOK, SnInv, [Next]_vars
               PROVE  SnInv'
    OBVIOUS
  <2>1. CASE Tick \/ DeliverInvalidTx \/ UNCHANGED vars
    BY <2>1 DEF Tick, DeliverInvalidTx, vars, SnInv, CurrentSn,
                OneBulletinPerSn
  <2>2. CASE BeginBlock
    <3>1. \A k \in DOMAIN committed.entries : k.sn[1] \in Nat /\ k.sn[2] \in Nat
      BY DEF TypeOK, StoreOK, MapOK, MainKeys, Sn
    <3>2. /\ phase = "idle" /\ phase' = "block"
          /\ batch' = committed /\ committed' = committed
          /\ blockTime' \in Nat /\ blockTime' > blockTime
      BY <2>2, AppAssumption DEF BeginBlock, TypeOK
    <3>3. \A k \in DOMAIN committed.entries : k.sn[1] < blockTime'
      BY <3>1, <3>2 DEF SnInv, TypeOK
    <3> QED BY <3>2, <3>3 DEF SnInv, Before, CurrentSn, OneBulletinPerSn
  <2>3. CASE Commit
    <3>1. phase = "block" /\ phase' = "idle" /\ batch' = batch /\ blockTime' = blockTime
          /\ committed' \in {batch, committed}
      BY <2>3 DEF Commit
    <3>2. \A k \in DOMAIN batch.entries \cup DOMAIN committed.entries :
             k.sn[1] \in Nat /\ k.sn[1] <= blockTime
      BY <3>1 DEF SnInv, Before, CurrentSn, TypeOK, StoreOK, MapOK, MainKeys, Sn
    <3> QED BY <3>1, <3>2 DEF SnInv, OneBulletinPerSn
  <2>4. ASSUME NEW tx \in Txs, DeliverTx(tx)
        PROVE  SnInv'
    <3> DEFINE put == putGanyTx(batch, tx, CurrentSn, now, CreateWriteCount)
               key == MainKey(tx, CurrentSn)
    <3>1. Accepted = {CreateWriteCount}
      BY <2>4, AppAssumption DEF DeliverTx, Deliver, Accepted, TypeOK
    <3>2. /\ tx \in GanyTx /\ CurrentSn \in Sn /\ StoreOK(batch) /\ now \in Nat
          /\ resp' = put.code /\ batch' = put.store /\ txIndex' = NextTxIndex(put.code)
      BY <2>4, <3>1, DeliverTxPuts DEF TypeOK
    <3>3. /\ phase = "block" /\ phase' = "block"
          /\ blockTime' = blockTime /\ committed' = committed
      BY <2>4 DEF DeliverTx, Deliver
    <3>4. \A k \in DOMAIN batch.entries :
            k.sn[1] \in Nat /\ k.sn[2] \in Nat /\ Before(k.sn, CurrentSn)
      BY <3>3 DEF SnInv, TypeOK, StoreOK, MapOK, MainKeys, Sn
    <3>5. \A k \in DOMAIN batch.entries : k.sn # CurrentSn
      BY <3>4 DEF Before, CurrentSn, TypeOK
    <3>6. \/ DOMAIN batch'.entries \subseteq DOMAIN batch.entries
          \/ /\ DOMAIN batch'.entries = DOMAIN batch.entries \cup {key}
             /\ txIndex' = txIndex + 1
      BY <3>2, PutAddsOneKey DEF NextTxIndex
    <3>7. txIndex' \in {txIndex, txIndex + 1}
      BY <3>2 DEF NextTxIndex
    <3>8. \A k \in DOMAIN batch'.entries : Before(k.sn, CurrentSn')
      <4> SUFFICES ASSUME NEW k \in DOMAIN batch'.entries
                   PROVE  Before(k.sn, CurrentSn')
        OBVIOUS
      <4>1. CASE k \in DOMAIN batch.entries
        BY <3>3, <3>4, <3>7, <4>1 DEF Before, CurrentSn, TypeOK
      <4>2. CASE k \notin DOMAIN batch.entries
        <5>1. k.sn = CurrentSn /\ txIndex' = txIndex + 1
          BY <3>6, <4>2 DEF MainKey
        <5> QED BY <3>3, <5>1 DEF Before, CurrentSn, TypeOK
      <4> QED BY <4>1, <4>2
    <3>9. OneBulletinPerSn(batch')
      BY <3>5, <3>6 DEF OneBulletinPerSn, SnInv, MainKey
    <3> QED BY <3>3, <3>8, <3>9 DEF SnInv, OneBulletinPerSn
  <2> QED BY <2>1, <2>2, <2>3, <2>4 DEF Next
<1> QED BY <1>1, <1>2, TypeCorrect, PTL DEF Spec

\* With blocks at least a second apart and batches that never fill up, an SN
\* names one bulletin for good (app.go:73-75, 356-364).
THEOREM SerialNumbersAreUnique ==
    ASSUME MinBlockGap >= 1, MaxBlockTxs <= TxnLimit
    PROVE  Spec => []SnNamesOneBulletin
<1>1. SnInv => SnNamesOneBulletin
  BY DEF SnInv
<1> QED BY <1>1, SnInvInvariant, PTL

-----------------------------------------------------------------------------
(* From the database to the batch, and from block to block.                 *)

\* What an open block has made of the database: bulletins in both are versions of
\* one another, and those only in the batch were created in this block.
LineageInv ==
    phase = "block" =>
        /\ \A k \in DOMAIN committed.entries \cap DOMAIN batch.entries :
              SameBulletin(committed.entries[k], batch.entries[k])
        /\ \A k \in DOMAIN batch.entries \ DOMAIN committed.entries :
              k.sn[1] = blockTime

\* Being a later version of a bulletin is reflexive and transitive.
LEMMA SameBulletinOrder ==
    ASSUME NEW a \in Entries, NEW b \in Entries, NEW c \in Entries
    PROVE  /\ SameBulletin(a, a)
           /\ SameBulletin(a, b) /\ SameBulletin(b, c) => SameBulletin(a, c)
<1>1. Len(a.ids) \in Nat /\ Len(b.ids) \in Nat /\ Len(c.ids) \in Nat
  BY DEF Entries
<1>2. SameBulletin(a, a)
  BY <1>1 DEF SameBulletin, SameOrigin
<1>3. ASSUME SameBulletin(a, b), SameBulletin(b, c)
      PROVE  SameBulletin(a, c)
  <2>1. SameOrigin(a.tx, c.tx)
    BY <1>3 DEF SameBulletin, SameOrigin
  <2>2. Len(a.ids) <= Len(b.ids) /\ Len(b.ids) <= Len(c.ids)
    BY <1>3 DEF SameBulletin
  <2>3. \A i \in 1 .. Len(a.ids) : c.ids[i] = a.ids[i]
    BY <1>1, <1>3, <2>2 DEF SameBulletin
  <2>4. ASSUME Len(a.ids) = Len(c.ids) PROVE a = c
    <3>1. Len(a.ids) = Len(b.ids) /\ Len(b.ids) = Len(c.ids)
      BY <1>1, <2>2, <2>4
    <3> QED BY <1>3, <3>1 DEF SameBulletin
  <2> QED BY <1>1, <2>1, <2>2, <2>3, <2>4 DEF SameBulletin
<1> QED BY <1>2, <1>3

\* A transaction at a new SN leaves a stored bulletin alone, deletes it, or adds a
\* version to it.
LEMMA PutExtends ==
    ASSUME NEW store, StoreOK(store), NEW tx \in GanyTx, NEW sn \in Sn,
           NEW clock \in Nat, \A k \in DOMAIN store.entries : k.sn # sn,
           NEW k \in DOMAIN store.entries,
           k \in DOMAIN putGanyTx(store, tx, sn, clock, CreateWriteCount).store.entries
    PROVE  SameBulletin(store.entries[k],
             putGanyTx(store, tx, sn, clock, CreateWriteCount).store.entries[k])
<1> DEFINE put == putGanyTx(store, tx, sn, clock, CreateWriteCount)
           old == store.entries[k]
<1>1. old \in Entries
  BY DEF StoreOK, MapOK
<1>2. CASE put.store.entries[k] = old
  BY <1>1, <1>2, SameBulletinOrder
<1>3. CASE tx.oldSn = NoSn
  <2>1. k # MainKey(tx, sn)
    BY DEF MainKey
  <2>2. put.store.entries[k] = old
    BY <1>3, <2>1 DEF putGanyTx, createGanyTx, CreateWrites, Put
  <2> QED BY <1>2, <2>2
<1>4. CASE tx.oldSn # NoSn
  <2>1. put = overwriteBulletin(store, tx, clock, CreateWriteCount)
    BY <1>4 DEF putGanyTx
  <2>2. \/ put.store.entries[k] = old
        \/ /\ OverwriteError(store, tx, clock) = OK
           /\ k = MainKey(tx, tx.oldSn)
           /\ put.store.entries[k] = NextVersion(old, tx, clock)
    BY <2>1 DEF overwriteBulletin, Put, Delete, Restrict, StoreOK
  <2>3. ASSUME OverwriteError(store, tx, clock) = OK, k = MainKey(tx, tx.oldSn)
        PROVE  SameBulletin(old, NextVersion(old, tx, clock))
    <3> DEFINE next == NextVersion(old, tx, clock)
               id == GetBulletinID(tx)
    <3>1. SameOrigin(old.tx, tx)
      BY <2>3 DEF OverwriteError, OK, ErrorOther, InvalidOldSN, CannotOverwriteBulletin,
                  CanBeOverwrittenBy, SameOrigin
    <3>2. next.tx = tx /\ next.ids = Append(old.ids, id)
      BY DEF NextVersion
    <3>3. old.ids \in Seq(BulletinIds) /\ id \in BulletinIds
      BY <1>1, KeyTypes DEF Entries
    <3>4. /\ Len(next.ids) = Len(old.ids) + 1
          /\ \A i \in 1 .. Len(old.ids) : next.ids[i] = old.ids[i]
      <4> HIDE DEF id, next, old
      <4> QED BY <3>2, <3>3
    <3>5. Len(old.ids) \in Nat
      BY <3>3
    <3> QED BY <3>1, <3>2, <3>4, <3>5 DEF SameBulletin
  <2> QED BY <1>2, <2>2, <2>3
<1> QED BY <1>3, <1>4

\* What an open block makes of the database is an invariant.
LEMMA LineageInvInvariant ==
    ASSUME MinBlockGap >= 1, MaxBlockTxs <= TxnLimit
    PROVE  Spec => []LineageInv
<1>1. Init => LineageInv
  BY DEF Init, LineageInv
<1>2. TypeOK /\ TypeOK' /\ SnInv /\ LineageInv /\ [Next]_vars => LineageInv'
  <2> SUFFICES ASSUME TypeOK, TypeOK', SnInv, LineageInv, [Next]_vars
               PROVE  LineageInv'
    OBVIOUS
  <2>1. CASE Tick \/ DeliverInvalidTx \/ UNCHANGED vars
    BY <2>1 DEF Tick, DeliverInvalidTx, vars, LineageInv
  <2>2. CASE BeginBlock
    <3>1. batch' = committed /\ committed' = committed
      BY <2>2 DEF BeginBlock
    <3>2. \A k \in DOMAIN committed.entries : committed.entries[k] \in Entries
      BY DEF TypeOK, StoreOK, MapOK
    <3>3. \A k \in DOMAIN committed.entries :
            SameBulletin(committed.entries[k], committed.entries[k])
      BY <3>2, SameBulletinOrder
    <3> QED BY <3>1, <3>3 DEF LineageInv
  <2>3. CASE Commit
    BY <2>3 DEF Commit, LineageInv
  <2>4. ASSUME NEW tx \in Txs, DeliverTx(tx)
        PROVE  LineageInv'
    <3> DEFINE put == putGanyTx(batch, tx, CurrentSn, now, CreateWriteCount)
               key == MainKey(tx, CurrentSn)
    <3>1. Accepted = {CreateWriteCount}
      BY <2>4, AppAssumption DEF DeliverTx, Deliver, Accepted, TypeOK
    <3>2. /\ tx \in GanyTx /\ CurrentSn \in Sn /\ StoreOK(batch) /\ now \in Nat
          /\ batch' = put.store
      BY <2>4, <3>1, DeliverTxPuts DEF TypeOK
    <3>3. phase = "block" /\ blockTime' = blockTime /\ committed' = committed
      BY <2>4 DEF DeliverTx, Deliver
    <3>4. \A k \in DOMAIN batch.entries : k.sn # CurrentSn
      BY <3>3 DEF SnInv, Before, CurrentSn, TypeOK, StoreOK, MapOK, MainKeys, Sn
    <3>5. DOMAIN batch'.entries \subseteq DOMAIN batch.entries \cup {key}
      BY <3>2, PutAddsOneKey
    <3>6. ASSUME NEW k \in DOMAIN committed.entries \cap DOMAIN batch'.entries
          PROVE  SameBulletin(committed.entries[k], batch'.entries[k])
      <4>1. k.sn # CurrentSn
        BY <3>3 DEF SnInv, CurrentSn, TypeOK
      <4>2. k \in DOMAIN batch.entries
        BY <3>5, <4>1 DEF MainKey
      <4>3. SameBulletin(committed.entries[k], batch.entries[k])
        BY <3>3, <4>2 DEF LineageInv
      <4>4. SameBulletin(batch.entries[k], batch'.entries[k])
        BY <3>2, <3>4, <4>2, PutExtends
      <4>5. /\ committed.entries[k] \in Entries /\ batch.entries[k] \in Entries
            /\ batch'.entries[k] \in Entries
        BY <4>2 DEF TypeOK, StoreOK, MapOK
      <4> QED BY <4>3, <4>4, <4>5, SameBulletinOrder
    <3>7. ASSUME NEW k \in DOMAIN batch'.entries \ DOMAIN committed.entries
          PROVE  k.sn[1] = blockTime
      BY <3>3, <3>5 DEF LineageInv, MainKey, CurrentSn
    <3> QED BY <3>3, <3>6, <3>7 DEF LineageInv
  <2> QED BY <2>1, <2>2, <2>3, <2>4 DEF Next
<1>3. Spec => [](TypeOK /\ SnInv)
  BY TypeCorrect, SnInvInvariant, PTL
<1> QED BY <1>1, <1>2, <1>3, PTL DEF Spec

\* Only Commit changes the database, into the batch.
LEMMA OnlyCommitWrites ==
    ASSUME [Next]_vars, committed' # committed
    PROVE  phase = "block" /\ committed' = batch
<1>1. Commit
  BY DEF Next, Tick, BeginBlock, DeliverInvalidTx, DeliverTx, Deliver, vars
<1> QED BY <1>1 DEF Commit

\* Under the same conditions, no block replaces a bulletin: what Commit (app.go:211)
\* makes of the database only adds versions to the bulletins it keeps.
THEOREM BlocksExtendHistories ==
    ASSUME MinBlockGap >= 1, MaxBlockTxs <= TxnLimit
    PROVE  Spec => VersionsOnlyExtend
<1> DEFINE Extend ==
             \A k \in DOMAIN committed.entries \cap DOMAIN committed'.entries :
                SameBulletin(committed.entries[k], committed'.entries[k])
<1>1. LineageInv /\ [Next]_vars => [Extend]_committed
  BY OnlyCommitWrites DEF LineageInv
<1> QED BY <1>1, LineageInvInvariant, PTL DEF Spec, VersionsOnlyExtend

\* No block brings a bulletin back (app.go:511): the main keys that Commit adds carry
\* the time of the block.
THEOREM DeletedIsGone ==
    ASSUME MinBlockGap >= 1, MaxBlockTxs <= TxnLimit
    PROVE  Spec => DeletedStaysDeleted
<1> DEFINE NoReturn ==
             \A k \in DOMAIN committed'.entries \ DOMAIN committed.entries :
                k.sn[1] = blockTime
<1>1. LineageInv /\ [Next]_vars => [NoReturn]_committed
  BY OnlyCommitWrites DEF LineageInv
<1> QED BY <1>1, LineageInvInvariant, PTL DEF Spec, DeletedStaysDeleted

-----------------------------------------------------------------------------
(* Lifetimes.                                                               *)

\* A Duration that does not overflow gives an expiry after the clock's second and at
\* most MaxTTL away.
LEMMA LifetimeInBounds ==
    ASSUME NEW expire \in Nat, NEW clock \in Nat, expire < DurationHalf
    PROVE  ExpiresAt(toValidTTL(expire, clock), clock) \in clock + 1 .. clock + MaxTTL
<1>1. CASE expire <= clock
  BY <1>1, StoreAssumption DEF ExpiresAt, toValidTTL
<1>2. CASE expire > clock
  <2>1. expire - clock \in 1 .. DurationHalf - 1
    BY <1>2, StoreAssumption
  <2>2. ToDuration(expire - clock) = expire - clock
    BY <2>1, StoreAssumption DEF ToDuration
  <2> QED
    BY <1>2, <2>1, <2>2, StoreAssumption DEF ExpiresAt, toValidTTL
<1> QED
  BY <1>1, <1>2

\* A transaction leaves an entry alone or gives it the expiry of its own Duration.
LEMMA PutSetsExpiry ==
    ASSUME NEW store, StoreOK(store), NEW tx \in GanyTx, NEW sn, NEW clock, NEW accepted,
           NEW k \in DOMAIN putGanyTx(store, tx, sn, clock, accepted).store.entries
    PROVE  LET new == putGanyTx(store, tx, sn, clock, accepted).store
           IN  \/ k \in DOMAIN store.entries /\ new.entries[k] = store.entries[k]
               \/ new.entries[k].expireAt = ExpiresAt(toValidTTL(tx.duration, clock), clock)
<1> DEFINE put == putGanyTx(store, tx, sn, clock, accepted)
<1>1. CASE tx.oldSn = NoSn
  <2>1. put = createGanyTx(store, tx, sn, clock, accepted)
    BY <1>1 DEF putGanyTx
  <2> QED BY <2>1 DEF createGanyTx, CreateWrites, Put
<1>2. CASE tx.oldSn # NoSn
  <2>1. put = overwriteBulletin(store, tx, clock, accepted)
    BY <1>2 DEF putGanyTx
  <2> QED BY <2>1 DEF overwriteBulletin, Put, Delete, Restrict, NextVersion, StoreOK
<1> QED BY <1>1, <1>2

\* Lifetimes, of the database too: a block begins with what is committed.
LifetimesIn(store) == \A k \in DOMAIN store.entries : store.entries[k].expireAt \in 1 .. now + MaxTTL
LifetimeInv == LifetimesIn(batch) /\ LifetimesIn(committed)

\* No bulletin outlives MaxTTL after its last version (app.go:598-601), whatever clocks,
\* blocks and batches do, if no Duration is so late that time.Duration overflows.
THEOREM LifetimesAreBounded ==
    ASSUME \A tx \in Txs : tx.duration < DurationHalf
    PROVE  Spec => []RetentionBounded
<1>1. Init => LifetimeInv
  BY DEF Init, LifetimeInv, LifetimesIn, EmptyStore, EmptyMap
<1>2. TypeOK /\ LifetimeInv /\ [Next]_vars => LifetimeInv'
  <2> SUFFICES ASSUME TypeOK, LifetimeInv, [Next]_vars
               PROVE  LifetimeInv'
    OBVIOUS
  <2>1. CASE Tick
    <3>1. now' = now + 1 /\ batch' = batch /\ committed' = committed
      BY <2>1 DEF Tick
    <3>2. \A e \in 1 .. now + MaxTTL : e \in 1 .. now' + MaxTTL
      BY <3>1, StoreAssumption DEF TypeOK
    <3> QED BY <3>1, <3>2 DEF LifetimeInv, LifetimesIn
  <2>2. CASE BeginBlock
    BY <2>2 DEF BeginBlock, LifetimeInv, LifetimesIn
  <2>3. CASE Commit
    BY <2>3 DEF Commit, LifetimeInv, LifetimesIn
  <2>4. CASE DeliverInvalidTx \/ UNCHANGED vars
    BY <2>4 DEF DeliverInvalidTx, vars, LifetimeInv, LifetimesIn
  <2>5. ASSUME NEW tx \in Txs, DeliverTx(tx)
        PROVE  LifetimeInv'
    <3>1. PICK accepted \in 0 .. CreateWriteCount :
            batch' = putGanyTx(batch, tx, CurrentSn, now, accepted).store
      BY <2>5, DeliverTxPuts
    <3>2. now' = now /\ committed' = committed /\ now \in Nat /\ StoreOK(batch)
      BY <2>5 DEF DeliverTx, Deliver, TypeOK
    <3>3. tx \in GanyTx /\ tx.duration \in Nat
      BY AppAssumption DEF GanyTx
    <3>4. ExpiresAt(toValidTTL(tx.duration, now), now) \in 1 .. now + MaxTTL
      <4> DEFINE expireAt == ExpiresAt(toValidTTL(tx.duration, now), now)
      <4>1. expireAt \in now + 1 .. now + MaxTTL
        BY <3>2, <3>3, LifetimeInBounds
      <4> HIDE DEF expireAt
      <4>2. expireAt \in 1 .. now + MaxTTL
        BY <3>2, <4>1, StoreAssumption
      <4> QED BY <4>2 DEF expireAt
    <3>5. ASSUME NEW k \in DOMAIN batch'.entries
          PROVE  batch'.entries[k].expireAt \in 1 .. now + MaxTTL
      <4>1. \/ k \in DOMAIN batch.entries /\ batch'.entries[k] = batch.entries[k]
            \/ batch'.entries[k].expireAt = ExpiresAt(toValidTTL(tx.duration, now), now)
        BY <3>1, <3>2, <3>3, PutSetsExpiry
      <4> QED BY <3>4, <4>1 DEF LifetimeInv, LifetimesIn
    <3> QED BY <3>2, <3>5 DEF LifetimeInv, LifetimesIn
  <2> QED BY <2>1, <2>2, <2>3, <2>4, <2>5 DEF Next
<1>3. LifetimeInv => RetentionBounded
  BY DEF LifetimeInv, LifetimesIn, RetentionBounded
<1> QED BY <1>1, <1>2, <1>3, TypeCorrect, PTL DEF Spec

-----------------------------------------------------------------------------
(* Answers.                                                                 *)

\* In a block that fits its batch, DeliverTx is putGanyTx with all its writes.
LEMMA DeliverTxFits ==
    ASSUME MaxBlockTxs <= TxnLimit, TypeOK, NEW tx \in Txs, DeliverTx(tx)
    PROVE  LET put == putGanyTx(batch, tx, CurrentSn, now, CreateWriteCount)
           IN  /\ resp' = put.code /\ batch' = put.store
               /\ txIndex' = NextTxIndex(put.code)
               /\ phase = "block" /\ phase' = "block"
               /\ UNCHANGED <<now, blockTime, committed>>
<1>1. Accepted = {CreateWriteCount}
  BY AppAssumption DEF DeliverTx, Deliver, Accepted, TypeOK
<1> QED BY <1>1 DEF DeliverTx, Deliver

\* What is refused for another reason than a full batch writes nothing.
LEMMA RefusedPutsNothing ==
    ASSUME NEW store, NEW tx, NEW sn, NEW clock,
           putGanyTx(store, tx, sn, clock, CreateWriteCount).code # OK
    PROVE  putGanyTx(store, tx, sn, clock, CreateWriteCount).store = store
BY DEF putGanyTx, createGanyTx, overwriteBulletin, CreateWriteCount, OK, ErrorOther

\* An accepted bulletin is stored under its key with a fresh life; an accepted deletion,
\* and an accepted bulletin without content, leave no entry there.
LEMMA AcceptedPuts ==
    ASSUME NEW store, StoreOK(store), NEW tx \in GanyTx, NEW sn \in Sn, NEW clock \in Nat,
           \A k \in DOMAIN store.entries : k.sn # sn,
           putGanyTx(store, tx, sn, clock, CreateWriteCount).code = OK
    PROVE  LET new == putGanyTx(store, tx, sn, clock, CreateWriteCount).store
               key == MainKey(tx, IF tx.oldSn = NoSn THEN sn ELSE tx.oldSn)
           IN  IF tx.content # NoContent
               THEN /\ key \in DOMAIN new.entries
                    /\ new.entries[key].tx = tx
                    /\ new.entries[key].expireAt
                         = ExpiresAt(toValidTTL(tx.duration, clock), clock)
               ELSE key \notin DOMAIN new.entries
<1> DEFINE put == putGanyTx(store, tx, sn, clock, CreateWriteCount)
<1>1. CASE tx.oldSn = NoSn
  <2>1. put = createGanyTx(store, tx, sn, clock, CreateWriteCount)
    BY <1>1 DEF putGanyTx
  <2>2. CASE tx.content = NoContent
    <3>1. put.store = store
      BY <2>1, <2>2 DEF createGanyTx
    <3>2. MainKey(tx, sn).sn = sn
      BY DEF MainKey
    <3> QED BY <1>1, <2>2, <3>1, <3>2
  <2>3. CASE tx.content # NoContent
    <3>1. put.store = CreateWrites(store, tx, sn, clock, CreateWriteCount)
      BY <2>1, <2>3 DEF createGanyTx, OK, TimestampTooLong
    <3> QED BY <1>1, <2>3, <3>1 DEF CreateWrites, Put, CreateWriteCount
  <2> QED BY <2>2, <2>3
<1>2. CASE tx.oldSn # NoSn
  <2> DEFINE key == MainKey(tx, tx.oldSn)
  <2>1. put = overwriteBulletin(store, tx, clock, CreateWriteCount)
    BY <1>2 DEF putGanyTx
  <2>2. put.store = [store EXCEPT !.entries =
            IF tx.content = NoContent THEN Delete(store.entries, key)
            ELSE Put(store.entries, key, NextVersion(store.entries[key], tx, clock))]
    BY <2>1 DEF overwriteBulletin, CreateWriteCount, OK, ErrorOther, StoreOK
  <2>3. CASE tx.content = NoContent
    BY <1>2, <2>2, <2>3 DEF Delete, Restrict, StoreOK
  <2>4. CASE tx.content # NoContent
    BY <1>2, <2>2, <2>4 DEF Put, NextVersion, StoreOK
  <2> QED BY <2>3, <2>4
<1> QED BY <1>1, <1>2

\* A response with code 0 tells the truth (app.go:204): for blocks at least a second
\* apart that fit their batches, and durations that do not overflow. With the last one
\* dropped, a bulletin can be dead on arrival.
THEOREM AnswersTakeEffect ==
    ASSUME MinBlockGap >= 1, MaxBlockTxs <= TxnLimit,
           \A tx \in Txs : tx.duration < DurationHalf
    PROVE  Spec => AcceptedTakesEffect
<1> DEFINE Effect ==
             txIndex' = txIndex + 1 => \A tx \in Txs :
                LET key == MainKey(tx, AcceptedSn(tx))
                IN  DeliverTx(tx) =>
                      IF tx.content # NoContent
                      THEN /\ Found(batch'.entries, key, now)
                           /\ batch'.entries[key].tx = tx
                      ELSE ~Found(batch'.entries, key, now)
<1>1. TypeOK /\ SnInv => Effect
  <2> SUFFICES ASSUME TypeOK, SnInv, txIndex' = txIndex + 1, NEW tx \in Txs, DeliverTx(tx)
               PROVE  LET key == MainKey(tx, AcceptedSn(tx))
                      IN  IF tx.content # NoContent
                          THEN /\ Found(batch'.entries, key, now)
                               /\ batch'.entries[key].tx = tx
                          ELSE ~Found(batch'.entries, key, now)
    OBVIOUS
  <2> DEFINE put == putGanyTx(batch, tx, CurrentSn, now, CreateWriteCount)
             key == MainKey(tx, AcceptedSn(tx))
             expireAt == ExpiresAt(toValidTTL(tx.duration, now), now)
  <2>1. /\ batch' = put.store /\ txIndex' = NextTxIndex(put.code) /\ phase = "block"
        /\ tx \in GanyTx /\ CurrentSn \in Sn /\ StoreOK(batch) /\ now \in Nat
    BY DeliverTxFits, DeliverTxPuts DEF TypeOK
  <2>2. put.code = OK
    BY <2>1 DEF NextTxIndex, TypeOK
  <2>3. \A k \in DOMAIN batch.entries : k.sn # CurrentSn
    BY <2>1 DEF SnInv, Before, CurrentSn, TypeOK, StoreOK, MapOK, MainKeys, Sn
  <2>4. IF tx.content # NoContent
        THEN /\ key \in DOMAIN batch'.entries
             /\ batch'.entries[key].tx = tx
             /\ batch'.entries[key].expireAt = expireAt
        ELSE key \notin DOMAIN batch'.entries
    BY <2>1, <2>2, <2>3, AcceptedPuts DEF AcceptedSn
  <2>5. expireAt > now
    <3>1. tx.duration \in Nat
      BY <2>1 DEF GanyTx
    <3>2. expireAt \in now + 1 .. now + MaxTTL
      BY <2>1, <3>1, LifetimeInBounds
    <3> QED BY <2>1, <3>2, StoreAssumption
  <2> QED BY <2>4, <2>5 DEF Found, Live
<1>2. TypeOK /\ SnInv => [Effect]_vars
  BY <1>1
<1>3. AcceptedTakesEffect <=> [][Effect]_vars
  BY DEF AcceptedTakesEffect
<1> QED BY <1>2, <1>3, TypeCorrect, SnInvInvariant, PTL DEF Spec

\* A refused transaction leaves at most an entry under its own SN, and no range.
LEMMA RefusedPutsUnderItsSn ==
    ASSUME NEW store, StoreOK(store), NEW tx, NEW sn, NEW clock,
           NEW accepted \in 0 .. CreateWriteCount,
           putGanyTx(store, tx, sn, clock, accepted).code # OK
    PROVE  LET new == putGanyTx(store, tx, sn, clock, accepted).store
           IN  /\ new.ranges = store.ranges
               /\ \A k : k.sn # sn =>
                     /\ k \in DOMAIN new.entries <=> k \in DOMAIN store.entries
                     /\ k \in DOMAIN store.entries => new.entries[k] = store.entries[k]
<1> DEFINE put == putGanyTx(store, tx, sn, clock, accepted)
<1>1. CASE put.store = store
  BY <1>1
<1>2. CASE put.store # store
  <2>1. tx.oldSn = NoSn
    BY <1>2 DEF putGanyTx, overwriteBulletin, OK
  <2>2. /\ put.store = CreateWrites(store, tx, sn, clock, accepted)
        /\ accepted # CreateWriteCount
    BY <1>2, <2>1 DEF putGanyTx, createGanyTx
  <2>3. MainKey(tx, sn).sn = sn
    BY DEF MainKey
  <2>4. put.store.ranges = store.ranges
    BY <2>2 DEF CreateWrites, CreateWriteCount
  <2>5. \/ put.store.entries = store.entries
        \/ \E entry : put.store.entries = Put(store.entries, MainKey(tx, sn), entry)
    BY <2>2 DEF CreateWrites
  <2> QED BY <2>3, <2>4, <2>5 DEF Put
<1> QED BY <1>1, <1>2

\* A response with an error (app.go:181-201) leaves every other bulletin and its URL as
\* they were, for any blocks and batches, also those that fill up between the writes of
\* a creation (app.go:387-396): the one range a creation shares with others is the last
\* thing that it writes.
THEOREM ErrorsTouchNoOther == Spec => RefusedTouchesNoOther
<1> DEFINE NoOther ==
             phase = "block" /\ phase' = "block" /\ resp' # OK =>
                /\ Others(batch') = Others(batch)
                /\ \A k \in Others(batch) :
                      /\ batch'.entries[k] = batch.entries[k]
                      /\ getGanyTx(batch', k.sn, now) = getGanyTx(batch, k.sn, now)
<1>1. TypeOK /\ [Next]_vars => [NoOther]_vars
  <2> SUFFICES ASSUME TypeOK, [Next]_vars, phase = "block", phase' = "block", resp' # OK
               PROVE  NoOther
    OBVIOUS
  <2>1. CASE batch' = batch
    BY <2>1
  <2>2. ASSUME NEW tx \in Txs, DeliverTx(tx)
        PROVE  NoOther
    <3>1. PICK accepted \in 0 .. CreateWriteCount : Deliver(tx, accepted)
      BY <2>2 DEF DeliverTx, Accepted, CreateWriteCount
    <3> DEFINE put == putGanyTx(batch, tx, CurrentSn, now, accepted)
    <3>2. resp' = put.code /\ batch' = put.store
      BY <3>1 DEF Deliver
    <3>3. StoreOK(batch)
      BY DEF TypeOK
    <3>4. /\ batch'.ranges = batch.ranges
          /\ \A k : k.sn # CurrentSn =>
                /\ k \in DOMAIN batch'.entries <=> k \in DOMAIN batch.entries
                /\ k \in DOMAIN batch.entries => batch'.entries[k] = batch.entries[k]
      BY <3>2, <3>3, RefusedPutsUnderItsSn
    <3>5. Others(batch') = Others(batch)
      BY <3>4 DEF Others
    <3>6. ASSUME NEW k \in Others(batch)
          PROVE  /\ batch'.entries[k] = batch.entries[k]
                 /\ getGanyTx(batch', k.sn, now) = getGanyTx(batch, k.sn, now)
      <4>1. k.sn # CurrentSn /\ k \in DOMAIN batch.entries
        BY <3>6 DEF Others
      <4>2. LookupMainKeyFromRange(batch', k.sn, now) = LookupMainKeyFromRange(batch, k.sn, now)
        BY <3>4 DEF LookupMainKeyFromRange
      <4> QED BY <3>4, <4>1, <4>2 DEF getGanyTx
    <3> QED BY <3>5, <3>6
  <2> QED BY <2>1, <2>2 DEF Next, Tick, BeginBlock, DeliverInvalidTx, Commit, vars
<1>2. RefusedTouchesNoOther <=> [][NoOther]_vars
  BY DEF RefusedTouchesNoOther
<1> QED BY <1>1, <1>2, TypeCorrect, PTL DEF Spec

-----------------------------------------------------------------------------
(* Gany URLs.                                                               *)

AloneInRange(store, k) ==
    \A sn \in DOMAIN store.keyMap : RangeKey(sn) = RangeKey(k.sn) => sn = k.sn

\* A range was written with the key map.
RangesOfKeyMap(store) ==
    \A range \in DOMAIN store.ranges : \E sn \in DOMAIN store.keyMap : RangeKey(sn) = range

\* The range of a bulletin alone in it has its head, for as long as the bulletin's first
\* version lives.
RangeNamesLone(store) ==
    \A k \in DOMAIN store.entries :
        AloneInRange(store, k) /\ Len(store.entries[k].ids) = 1 =>
            /\ RangeKey(k.sn) \in DOMAIN store.ranges
            /\ store.ranges[RangeKey(k.sn)]
                 = [heads |-> <<k.head>>, expireAt |-> store.entries[k].expireAt]

UrlsOK(store) == RangesOfKeyMap(store) /\ RangeNamesLone(store)

\* Serial numbers stay in the key map when their bulletins are gone, so that those must
\* be behind the current one too: a range that is there was another bulletin's.
UrlInv ==
    /\ UrlsOK(batch) /\ UrlsOK(committed)
    /\ phase = "block" =>
          /\ \A sn \in DOMAIN batch.keyMap : Before(sn, CurrentSn)
          /\ \A sn \in DOMAIN committed.keyMap : sn[1] < blockTime
    /\ phase = "idle" => \A sn \in DOMAIN committed.keyMap : sn[1] <= blockTime

\* A transaction adds its SN to the key map only when it succeeds.
LEMMA PutMapsOneSn ==
    ASSUME NEW store, StoreOK(store), NEW tx, NEW sn, NEW clock
    PROVE  LET put == putGanyTx(store, tx, sn, clock, CreateWriteCount)
           IN  \/ DOMAIN put.store.keyMap = DOMAIN store.keyMap
               \/ /\ DOMAIN put.store.keyMap = DOMAIN store.keyMap \cup {sn}
                  /\ put.code = OK
<1> DEFINE put == putGanyTx(store, tx, sn, clock, CreateWriteCount)
<1>1. CASE tx.oldSn = NoSn
  BY <1>1 DEF putGanyTx, createGanyTx, CreateWrites, Put, CreateWriteCount
<1>2. CASE tx.oldSn # NoSn
  BY <1>2 DEF putGanyTx, overwriteBulletin, StoreOK
<1> QED BY <1>1, <1>2

\* A creation whose SN is new finds no range but that of other bulletins.
LEMMA CreationKeepsUrls ==
    ASSUME NEW store, StoreOK(store), UrlsOK(store), NEW tx \in GanyTx, NEW sn \in Sn,
           NEW clock \in Nat, sn \notin DOMAIN store.keyMap,
           \A k \in DOMAIN store.entries : k.sn # sn
    PROVE  UrlsOK(CreateWrites(store, tx, sn, clock, CreateWriteCount))
<1> DEFINE new == CreateWrites(store, tx, sn, clock, CreateWriteCount)
           head == getMainKeyHead(tx)
           key == MainKey(tx, sn)
           range == RangeKey(sn)
           expireAt == ExpiresAt(toValidTTL(tx.duration, clock), clock)
           entry == [ids |-> <<GetBulletinID(tx)>>, tx |-> tx, expireAt |-> expireAt]
           heads == NewRange(store.ranges, range, head, expireAt, clock)
<1>1. /\ new.entries = Put(store.entries, key, entry)
      /\ DOMAIN new.keyMap = DOMAIN store.keyMap \cup {sn}
      /\ new.ranges = Put(store.ranges, range, heads)
  BY DEF CreateWrites, CreateWriteCount, Put
<1>2. key.sn = sn /\ key.head = head
  BY DEF MainKey
<1>3. range \notin DOMAIN store.ranges => heads = [heads |-> <<head>>, expireAt |-> expireAt]
  BY DEF NewRange, Found
<1>4. entry.expireAt = expireAt
  OBVIOUS
<1> HIDE DEF new, key, range, expireAt, entry, heads, head
<1>5. DOMAIN new.ranges = DOMAIN store.ranges \cup {range}
  BY <1>1 DEF Put
<1>6. RangesOfKeyMap(new)
  BY <1>1, <1>5 DEF UrlsOK, RangesOfKeyMap, range
<1>7. ASSUME NEW k \in DOMAIN new.entries, AloneInRange(new, k),
             Len(new.entries[k].ids) = 1
      PROVE  /\ RangeKey(k.sn) \in DOMAIN new.ranges
             /\ new.ranges[RangeKey(k.sn)]
                  = [heads |-> <<k.head>>, expireAt |-> new.entries[k].expireAt]
  <2>1. CASE k = key
    <3>1. range \notin DOMAIN store.ranges
      BY <1>1, <1>2, <1>7, <2>1 DEF AloneInRange, UrlsOK, RangesOfKeyMap, range
    <3>2. new.ranges[range] = heads /\ range \in DOMAIN new.ranges
      BY <1>1 DEF Put
    <3>3. new.entries[k] = entry
      BY <1>1, <2>1 DEF Put
    <3>4. RangeKey(k.sn) = range
      BY <1>2, <2>1 DEF range
    <3> QED BY <1>2, <1>3, <1>4, <2>1, <3>1, <3>2, <3>3, <3>4
  <2>2. CASE k # key
    <3>1. k \in DOMAIN store.entries /\ new.entries[k] = store.entries[k]
      BY <1>1, <2>2 DEF Put
    <3>2. RangeKey(k.sn) # range
      BY <1>1, <1>7, <3>1 DEF AloneInRange, range
    <3>3. AloneInRange(store, k)
      BY <1>1, <1>7 DEF AloneInRange
    <3>4. /\ RangeKey(k.sn) \in DOMAIN store.ranges
          /\ store.ranges[RangeKey(k.sn)]
               = [heads |-> <<k.head>>, expireAt |-> store.entries[k].expireAt]
      BY <1>7, <3>1, <3>3 DEF UrlsOK, RangeNamesLone
    <3>5. /\ RangeKey(k.sn) \in DOMAIN new.ranges
          /\ new.ranges[RangeKey(k.sn)] = store.ranges[RangeKey(k.sn)]
      BY <1>1, <3>2, <3>4 DEF Put
    <3> QED BY <3>1, <3>4, <3>5
  <2> QED BY <2>1, <2>2
<1>8. RangeNamesLone(new)
  BY <1>7 DEF RangeNamesLone
<1> QED BY <1>6, <1>8 DEF UrlsOK, new

\* An overwrite makes a history of two ids at least.
LEMMA OverwriteKeepsUrls ==
    ASSUME NEW store, StoreOK(store), UrlsOK(store), NEW tx \in GanyTx, NEW clock \in Nat
    PROVE  UrlsOK(overwriteBulletin(store, tx, clock, CreateWriteCount).store)
<1> DEFINE put == overwriteBulletin(store, tx, clock, CreateWriteCount)
           new == put.store
           key == MainKey(tx, tx.oldSn)
           old == store.entries[key]
           id == GetBulletinID(tx)
<1>1. CASE OverwriteError(store, tx, clock) # OK
  BY <1>1 DEF overwriteBulletin
<1>2. CASE OverwriteError(store, tx, clock) = OK
  <2>1. key \in DOMAIN store.entries /\ id \in Range(old.ids)
    BY <1>2 DEF OverwriteError, Found, historyContainsId, OK, ErrorOther,
                InvalidOldSN, CannotOverwriteBulletin
  <2>2. old.ids \in Seq(BulletinIds)
    BY <2>1 DEF StoreOK, MapOK, Entries
  <2>3. Len(old.ids) \in Nat /\ Len(old.ids) >= 1
    BY <2>1, <2>2 DEF Range
  <2>4. id \in BulletinIds
    BY KeyTypes, <2>1, <2>2 DEF Range
  <2>5. /\ new.keyMap = store.keyMap /\ new.ranges = store.ranges
        /\ new.entries = IF tx.content = NoContent THEN Delete(store.entries, key)
                         ELSE Put(store.entries, key, NextVersion(old, tx, clock))
    BY <1>2 DEF overwriteBulletin, CreateWriteCount, StoreOK
  <2>6. Len(NextVersion(old, tx, clock).ids) # 1
    <3>1. NextVersion(old, tx, clock).ids = Append(old.ids, id)
      BY DEF NextVersion
    <3> HIDE DEF old, id
    <3>2. Len(Append(old.ids, id)) = Len(old.ids) + 1
      BY ONLY <2>2, <2>4
    <3> QED BY <2>3, <3>1, <3>2
  <2> HIDE DEF new, old, key
  <2>7. \A k \in DOMAIN new.entries : Len(new.entries[k].ids) = 1 =>
          k \in DOMAIN store.entries /\ new.entries[k] = store.entries[k]
    BY <2>5, <2>6 DEF Put, Delete, Restrict
  <2> QED BY <2>5, <2>7 DEF UrlsOK, RangesOfKeyMap, RangeNamesLone, AloneInRange, new
<1> QED BY <1>1, <1>2

\* Whatever putGanyTx does, a range goes on naming the lone bulletin it was made for.
LEMMA PutKeepsUrls ==
    ASSUME NEW store, StoreOK(store), UrlsOK(store), NEW tx \in GanyTx, NEW sn \in Sn,
           NEW clock \in Nat, sn \notin DOMAIN store.keyMap,
           \A k \in DOMAIN store.entries : k.sn # sn
    PROVE  UrlsOK(putGanyTx(store, tx, sn, clock, CreateWriteCount).store)
<1>1. CASE tx.oldSn = NoSn
  BY <1>1, CreationKeepsUrls DEF putGanyTx, createGanyTx
<1>2. CASE tx.oldSn # NoSn
  BY <1>2, OverwriteKeepsUrls DEF putGanyTx
<1> QED BY <1>1, <1>2

\* The ranges of both stores name their lone bulletins in every reachable state.
LEMMA UrlInvInvariant ==
    ASSUME MinBlockGap >= 1, MaxBlockTxs <= TxnLimit
    PROVE  Spec => []UrlInv
<1>1. Init => UrlInv
  BY DEF Init, UrlInv, UrlsOK, RangesOfKeyMap, RangeNamesLone, EmptyStore, EmptyMap
<1>2. TypeOK /\ SnInv /\ UrlInv /\ [Next]_vars => UrlInv'
  <2> SUFFICES ASSUME TypeOK, SnInv, UrlInv, [Next]_vars
               PROVE  UrlInv'
    OBVIOUS
  <2>0. \A sn \in DOMAIN batch.keyMap \cup DOMAIN committed.keyMap :
          sn[1] \in Nat /\ sn[2] \in Nat
    BY DEF TypeOK, StoreOK, MapOK, Sn
  <2>1. CASE Tick \/ DeliverInvalidTx \/ UNCHANGED vars
    <3>1. UNCHANGED <<phase, blockTime, txIndex, batch, committed>>
      BY <2>1 DEF Tick, DeliverInvalidTx, vars
    <3> QED BY <3>1 DEF UrlInv, CurrentSn, UrlsOK, RangesOfKeyMap, RangeNamesLone,
                        AloneInRange
  <2>2. CASE BeginBlock
    <3>1. /\ phase = "idle" /\ phase' = "block"
          /\ batch' = committed /\ committed' = committed
          /\ blockTime' \in Nat /\ blockTime' > blockTime
      BY <2>2, AppAssumption DEF BeginBlock, TypeOK
    <3>2. \A sn \in DOMAIN committed.keyMap : sn[1] < blockTime'
      BY <2>0, <3>1 DEF UrlInv, TypeOK
    <3>3. \A sn \in DOMAIN batch'.keyMap : Before(sn, CurrentSn')
      BY <3>1, <3>2 DEF Before, CurrentSn
    <3>4. UrlsOK(batch)' /\ UrlsOK(committed)'
      BY <3>1 DEF UrlInv, UrlsOK, RangesOfKeyMap, RangeNamesLone, AloneInRange
    <3> QED BY <3>1, <3>2, <3>3, <3>4 DEF UrlInv
  <2>3. CASE Commit
    <3>1. phase = "block" /\ phase' = "idle" /\ batch' = batch /\ blockTime' = blockTime
          /\ committed' \in {batch, committed}
      BY <2>3 DEF Commit
    <3>2. \A sn \in DOMAIN batch.keyMap \cup DOMAIN committed.keyMap : sn[1] <= blockTime
      BY <2>0, <3>1 DEF UrlInv, Before, CurrentSn, TypeOK
    <3>3. UrlsOK(batch)' /\ UrlsOK(committed)'
      BY <3>1 DEF UrlInv, UrlsOK, RangesOfKeyMap, RangeNamesLone, AloneInRange
    <3> QED BY <3>1, <3>2, <3>3 DEF UrlInv
  <2>4. ASSUME NEW tx \in Txs, DeliverTx(tx)
        PROVE  UrlInv'
    <3> DEFINE put == putGanyTx(batch, tx, CurrentSn, now, CreateWriteCount)
    <3>1. /\ tx \in GanyTx /\ CurrentSn \in Sn /\ StoreOK(batch) /\ now \in Nat
          /\ batch' = put.store /\ txIndex' = NextTxIndex(put.code)
          /\ phase = "block" /\ phase' = "block"
          /\ blockTime' = blockTime /\ committed' = committed
      BY <2>4, DeliverTxPuts, DeliverTxFits DEF TypeOK
    <3>2. \A k \in DOMAIN batch.entries : k.sn # CurrentSn
      BY <3>1 DEF SnInv, Before, CurrentSn, TypeOK, StoreOK, MapOK, MainKeys, Sn
    <3>3. CurrentSn \notin DOMAIN batch.keyMap
      BY <2>0, <3>1 DEF UrlInv, Before, CurrentSn
    <3>4. UrlsOK(put.store)
      BY <3>1, <3>2, <3>3, PutKeepsUrls DEF UrlInv
    <3>5. UrlsOK(batch)' /\ UrlsOK(committed)'
      BY <3>1, <3>4 DEF UrlInv, UrlsOK, RangesOfKeyMap, RangeNamesLone, AloneInRange
    <3>6. \/ DOMAIN batch'.keyMap = DOMAIN batch.keyMap
          \/ /\ DOMAIN batch'.keyMap = DOMAIN batch.keyMap \cup {CurrentSn}
             /\ txIndex' = txIndex + 1
      BY <3>1, PutMapsOneSn DEF NextTxIndex
    <3>7. txIndex' \in {txIndex, txIndex + 1}
      BY <3>1 DEF NextTxIndex
    <3>8. \A sn \in DOMAIN batch'.keyMap : Before(sn, CurrentSn')
      <4>1. \A sn \in DOMAIN batch.keyMap : Before(sn, CurrentSn')
        BY <2>0, <3>1, <3>7 DEF UrlInv, Before, CurrentSn, TypeOK
      <4>2. txIndex' = txIndex + 1 => Before(CurrentSn, CurrentSn')
        BY <3>1 DEF Before, CurrentSn, TypeOK
      <4> QED BY <3>6, <4>1, <4>2
    <3> QED BY <3>1, <3>5, <3>8 DEF UrlInv
  <2> QED BY <2>1, <2>2, <2>3, <2>4 DEF Next
<1>3. Spec => [](TypeOK /\ SnInv)
  BY TypeCorrect, SnInvInvariant, PTL
<1> QED BY <1>1, <1>2, <1>3, PTL DEF Spec

\* A URL leads to its bulletin (app.go:284-343) while the bulletin is alone in its range,
\* first of it, and has one version, whatever expired or was deleted in that range or any
\* other.
THEOREM LoneUrlsResolve ==
    ASSUME MinBlockGap >= 1, MaxBlockTxs <= TxnLimit
    PROVE  Spec => []LoneBulletinResolves
<1>1. TypeOK /\ SnInv /\ UrlInv => LoneBulletinResolves
  <2> SUFFICES ASSUME TypeOK, SnInv, UrlInv, NEW k \in DOMAIN committed.entries,
                      Lone(committed, k), Live(committed.entries[k], now)
               PROVE  getGanyTx(committed, k.sn, now) = {k}
    BY DEF LoneBulletinResolves
  <2> DEFINE range == RangeKey(k.sn)
  <2>1. /\ range \in DOMAIN committed.ranges
        /\ committed.ranges[range]
             = [heads |-> <<k.head>>, expireAt |-> committed.entries[k].expireAt]
    BY DEF Lone, UrlInv, UrlsOK, RangeNamesLone, AloneInRange
  <2>2. Found(committed.ranges, range, now)
    BY <2>1 DEF Found, Live, NeverExpires
  <2>3. LookupMainKeyFromRange(committed, k.sn, now) = {k.head}
    <3>1. committed.ranges[range].heads = <<k.head>> /\ k.sn[2] % RangeSize = 0
      BY <2>1 DEF Lone
    <3>2. Len(<<k.head>>) = 1 /\ <<k.head>>[1] = k.head
      OBVIOUS
    <3> QED BY <2>2, <3>1, <3>2 DEF LookupMainKeyFromRange
  <2>4. \A j \in DOMAIN committed.entries : j.sn = k.sn => j = k
    BY DEF SnInv, SnNamesOneBulletin, OneBulletinPerSn
  <2> QED BY <2>3, <2>4 DEF getGanyTx
<1> QED BY <1>1, TypeCorrect, SnInvInvariant, UrlInvInvariant, PTL
=============================================================================
