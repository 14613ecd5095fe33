------------------------------- MODULE GanyApp -------------------------------
(***************************************************************************)
(* The ABCI application of one shard (src/app/app.go): Tendermint calls     *)
(* BeginBlock, then DeliverTx for each transaction, then EndBlock and       *)
(* Commit, one call at a time. Writes go to a badger transaction, `batch`,  *)
(* which Commit makes the database, `committed`; readers see `committed`.   *)
(* The process's wall clock, `now`, advances on its own: expiries follow    *)
(* it, and not the time of the blocks.                                      *)
(***************************************************************************)
EXTENDS BulletinStore

CONSTANTS
    Txs,            \* the valid transactions Tendermint may deliver
    MinBlockGap,    \* whole seconds between two blocks' times, at least
    TxnLimit,       \* transactions after which a batch may be full
    DiskMayFail,    \* whether badger may fail to commit a batch
    MaxNow, MaxBlockTime, MaxHeight, MaxBlockTxs    \* bounds of the model

ASSUME AppAssumption ==
    /\ Txs \subseteq GanyTx
    /\ MinBlockGap \in Nat
    /\ TxnLimit \in Nat
    /\ DiskMayFail \in BOOLEAN
    /\ MaxNow \in Nat /\ MaxBlockTime \in Nat
    /\ MaxHeight \in Nat /\ MaxBlockTxs \in Nat

VARIABLES
    now,        \* the wall clock, seconds
    phase,      \* "idle" between two blocks, "block" within one
    height,     \* currentHeight
    blockTime,  \* currentBlockTimestamp
    txIndex,    \* currentTxIndex
    batch,      \* what the transaction currentBatch reads: the store it will commit
    committed,  \* the database, as db.View reads it
    resp        \* the code of the last response; BeginBlock's and Commit's carry none

vars == <<now, phase, height, blockTime, txIndex, batch, committed, resp>>

Init ==
    /\ now = 1
    /\ phase = "idle"
    /\ height = 0
    /\ blockTime = 0
    /\ txIndex = 0
    /\ batch = EmptyStore
    /\ committed = EmptyStore
    /\ resp = OK

-----------------------------------------------------------------------------

\* The clock of the machine advances, in a block or between two.
Tick ==
    /\ now < MaxNow
    /\ now' = now + 1
    /\ UNCHANGED <<phase, height, blockTime, txIndex, batch, committed, resp>>

\* A block written with the transaction of the block before it.
BeginBlock_OldBatch ==
    /\ phase = "idle"
    /\ height < MaxHeight
    /\ \E t \in 1 .. MaxBlockTime :
        /\ t >= blockTime + MinBlockGap
        /\ blockTime' = t
    /\ phase' = "block"
    /\ height' = height + 1
    /\ txIndex' = 0
    /\ resp' = OK
    /\ UNCHANGED <<now, batch, committed>>

\* Tendermint's block times increase, but the code keeps whole seconds of them.
BeginBlock ==
    /\ phase = "idle"
    /\ height < MaxHeight
    /\ \E t \in 1 .. MaxBlockTime :
        /\ t >= blockTime + MinBlockGap
        /\ blockTime' = t
    /\ phase' = "block"
    /\ height' = height + 1
    /\ txIndex' = 0
    /\ batch' = committed
    /\ resp' = OK
    /\ UNCHANGED <<now, committed>>

\* A transaction that IsValid refuses: ErrInvalidTxBytes and the two others.
InvalidTxCodes == {1, 2, 3}

DeliverInvalidTx ==
    /\ phase = "block"
    /\ resp' \in InvalidTxCodes
    /\ UNCHANGED <<now, phase, height, blockTime, txIndex, batch, committed>>

CurrentSn == <<blockTime, txIndex>>

\* A batch that may be full from the start.
Accepted_Anytime == 0 .. CreateWriteCount

\* How many of a creation's writes a batch accepts before ErrTxnTooBig.
Accepted == IF txIndex >= TxnLimit THEN 0 .. CreateWriteCount ELSE {CreateWriteCount}

\* The index not advanced, and moved back after an error.
NextTxIndex_Same(code) == txIndex
NextTxIndex_Back(code) == IF code = OK THEN txIndex + 1 ELSE txIndex - 1

\* The index of the next transaction, after a response.
NextTxIndex(code) == IF code = OK THEN txIndex + 1 ELSE txIndex

\* DeliverTx, when a creation's first `accepted` writes fit.
Deliver(tx, accepted) ==
    /\ phase = "block"
    /\ txIndex < MaxBlockTxs
    /\ LET put == putGanyTx(batch, tx, CurrentSn, now, accepted)
       IN  /\ resp' = put.code
           /\ batch' = put.store
           /\ txIndex' = NextTxIndex(put.code)
    /\ UNCHANGED <<now, phase, height, blockTime, committed>>

DeliverTx(tx) == \E accepted \in Accepted : Deliver(tx, accepted)

\* EndBlock does nothing. Commit does not look at what badger's Commit returns.
Commit ==
    /\ phase = "block"
    /\ phase' = "idle"
    /\ \/ committed' = batch
       \/ DiskMayFail /\ committed' = committed
    /\ resp' = OK
    /\ UNCHANGED <<now, height, blockTime, txIndex, batch>>

Next ==
    \/ Tick
    \/ BeginBlock
    \/ DeliverInvalidTx
    \/ \E tx \in Txs : DeliverTx(tx)
    \/ Commit

Spec == Init /\ [][Next]_vars

-----------------------------------------------------------------------------
(* Properties.                                                              *)

\* `map` maps some of `keys` to `values`.
MapOK(map, keys, values) ==
    /\ DOMAIN map \subseteq keys
    /\ map \in [DOMAIN map -> values]

HashPrefixes == {Prefix[x] : x \in Topics \cup Addrs}
MainKeyHeads == BulletinType \X HashPrefixes \X Nat
MainKeys == [head : MainKeyHeads, sn : Sn, from : HashPrefixes]
BulletinIds == BulletinType \X Auths

Entries == [ids : Seq(BulletinIds), tx : GanyTx, expireAt : Int]
KeyMapItems == [head : MainKeyHeads, expireAt : Int]
RangeItems == [heads : Seq(MainKeyHeads), expireAt : Int]

StoreOK(store) ==
    /\ store = [entries |-> store.entries, keyMap |-> store.keyMap,
                ranges |-> store.ranges]
    /\ MapOK(store.entries, MainKeys, Entries)
    /\ MapOK(store.keyMap, Sn, KeyMapItems)
    /\ MapOK(store.ranges, Sn, RangeItems)

\* The type invariant: the variables of the application and the layouts of the
\* three kinds of database entries (app.go:73-76).
TypeOK ==
    /\ now \in Nat
    /\ phase \in {"idle", "block"}
    /\ height \in Nat
    /\ blockTime \in Nat
    /\ txIndex \in Nat
    /\ StoreOK(batch)
    /\ StoreOK(committed)
    /\ resp \in PutCodes \cup InvalidTxCodes

OneBulletinPerSn(store) ==
    \A k1, k2 \in DOMAIN store.entries : k1.sn = k2.sn => k1 = k2

\* A serial number (app.go:75) names one bulletin of the shard for good,
\* whatever was created, refused, overwritten or deleted in between: the index
\* that restarts in every block (app.go:159) and skips what failed never
\* returns to an SN in use.
SnNamesOneBulletin == OneBulletinPerSn(batch) /\ OneBulletinPerSn(committed)

\* A bulletin is stored where its latest version says (app.go:444-447): even
\* after overwrites by bulletins that only share truncated keys with it, its type,
\* topic, time and author compute its main key.
KeysFollowBulletins(store) ==
    \A k \in DOMAIN store.entries : MainKey(store.entries[k].tx, k.sn) = k

KeyIsItsBulletins == KeysFollowBulletins(batch) /\ KeysFollowBulletins(committed)

\* An overwrite must bring an id of the history (app.go:458-461) and adds its own
\* to it: through all versions a bulletin keeps the authentication it came with.
HistoriesOfOneId(store) ==
    \A k \in DOMAIN store.entries :
        LET e == store.entries[k]
        IN  \A i \in 1 .. Len(e.ids) : e.ids[i] = GetBulletinID(e.tx)

OneIdPerHistory == HistoriesOfOneId(batch) /\ HistoriesOfOneId(committed)

SameOrigin(tx1, tx2) ==
    /\ tx1.type = tx2.type /\ tx1.topic = tx2.topic
    /\ tx1.timestamp = tx2.timestamp
    /\ tx1.from = tx2.from
    /\ tx1.duration = tx2.duration

SameBulletin(old, new) ==
    /\ SameOrigin(old.tx, new.tx)
    /\ Len(old.ids) <= Len(new.ids)
    /\ \A i \in 1 .. Len(old.ids) : new.ids[i] = old.ids[i]
    /\ Len(old.ids) = Len(new.ids) => old = new

\* Through a whole block, a stored bulletin is left alone or gains versions:
\* its history keeps the ids it had (app.go:492-505), its author, topic, time
\* and duration stay, even where truncated addresses share a main key, and no
\* creation takes its place.
VersionsOnlyExtend ==
    [][\A k \in DOMAIN committed.entries \cap DOMAIN committed'.entries :
          SameBulletin(committed.entries[k], committed'.entries[k])]_committed

\* A bulletin that was deleted (app.go:511) does not come back: a main key that
\* Commit adds to the database belongs to the block it commits.
DeletedStaysDeleted ==
    [][\A k \in DOMAIN committed'.entries \ DOMAIN committed.entries :
          k.sn[1] = blockTime]_committed

\* No bulletin outlives MaxTTL after its last version (app.go:23, 598-601),
\* however late its Duration and however often it is overwritten.
RetentionBounded ==
    \A k \in DOMAIN batch.entries :
        batch.entries[k].expireAt \in 1 .. now + MaxTTL

\* The SN a transaction's bulletin has after it was accepted.
AcceptedSn(tx) == IF tx.oldSn = NoSn THEN CurrentSn ELSE tx.oldSn

\* A transaction answered with code 0 (app.go:204) took effect: its bulletin can
\* be read, with nothing newer in its place, or is gone if it was deleted.
AcceptedTakesEffect ==
    [][txIndex' = txIndex + 1 => \A tx \in Txs :
          LET key == MainKey(tx, AcceptedSn(tx))
          IN  DeliverTx(tx) =>
                IF tx.content # NoContent
                THEN /\ Found(batch'.entries, key, now)
                     /\ batch'.entries[key].tx = tx
                ELSE ~Found(batch'.entries, key, now)]_vars

\* The entries under other SNs than the next one.
Others(store) == {k \in DOMAIN store.entries : k.sn # CurrentSn}

\* A transaction answered with an error (app.go:181-201) touches no other bulletin,
\* also when the batch took some of its writes (app.go:387-396), which nothing takes
\* back: what is left of it is under its own SN, and every other bulletin stays what it
\* was and is found by its URL as before.
RefusedTouchesNoOther ==
    [][phase = "block" /\ phase' = "block" /\ resp' # OK =>
          /\ Others(batch') = Others(batch)
          /\ \A k \in Others(batch) :
                /\ batch'.entries[k] = batch.entries[k]
                /\ getGanyTx(batch', k.sn, now) = getGanyTx(batch, k.sn, now)]_vars

\* The Gany URL of a bulletin leads to it (app.go:284) as long as it is the only
\* one created in its range of indexes, the first of them, and its first version.
Lone(store, k) ==
    /\ k.sn[2] % RangeSize = 0
    /\ \A sn \in DOMAIN store.keyMap : RangeKey(sn) = RangeKey(k.sn) => sn = k.sn
    /\ Len(store.entries[k].ids) = 1

LoneBulletinResolves ==
    \A k \in DOMAIN committed.entries :
        Lone(committed, k) /\ Live(committed.entries[k], now) =>
            getGanyTx(committed, k.sn, now) = {k}

-----------------------------------------------------------------------------
(* What comments of the code say, and the code does not do.                 *)

\* "Given GanyURL(TopicHash4||BlockTime5||TxIndex3), return the bulletin"
\* (app.go:284): every bulletin that can be read has a URL that leads to it.
UrlReturnsTheBulletin ==
    \A k \in DOMAIN committed.entries :
        Live(committed.entries[k], now) => getGanyTx(committed, k.sn, now) = {k}
=============================================================================
