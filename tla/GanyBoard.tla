------------------------------ MODULE GanyBoard ------------------------------
(***************************************************************************)
(* The application of a shard implements the board: the posts are the        *)
(* entries of the database, and of the open batch, that have not expired.    *)
(***************************************************************************)
EXTENDS GanyApp

OriginOf(tx) ==
    [type |-> tx.type, topic |-> tx.topic, timestamp |-> tx.timestamp,
     from |-> tx.from, duration |-> tx.duration]

Post(k, entry) == [sn |-> k.sn, tx |-> entry.tx, versions |-> Len(entry.ids)]

Posts(store) ==
    {Post(k, store.entries[k]) : k \in {j \in DOMAIN store.entries : Live(store.entries[j], now)}}

Board == INSTANCE BulletinBoard WITH
    Origin <- OriginOf,
    MayLose <- DiskMayFail,
    board <- Posts(committed),
    stage <- Posts(IF phase = "block" THEN batch ELSE committed),
    open <- phase = "block",
    next <- CurrentSn

\* The application does what a board promises (app.go:153-214, 346-512): a block is
\* read as a whole or not at all, posts come under serial numbers in order, their
\* authors alone revise and withdraw them, version by version, and nothing else but
\* time removes one or brings one back.
ImplementsBoard == Board!Spec
=============================================================================
