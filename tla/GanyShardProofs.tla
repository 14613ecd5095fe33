--------------------------- MODULE GanyShardProofs ---------------------------
(***************************************************************************)
(* What a shard is to those outside, for every set of transactions and     *)
(* every bound: its application implements the board, its nodes agree, and *)
(* a client that pages through it gets all it asks for, each part once.    *)
(***************************************************************************)
EXTENDS GanyBoard, GanyReplicas, BulletinQuery, GanyAppProofs, FiniteSetTheorems

-----------------------------------------------------------------------------
(* The application implements the board, where blocks are a second apart,   *)
(* batches do not fill up and no duration overflows.                        *)

\* The posts of an entry map at a time.
LivingKeys(entries, clock) == {j \in DOMAIN entries : Live(entries[j], clock)}
PostsOf(entries, clock) == {Post(k, entries[k]) : k \in LivingKeys(entries, clock)}

\* A key set anew adds a post, and one set again replaces its post.
LEMMA NewPost ==
    ASSUME NEW entries, NEW clock, NEW key, key \notin DOMAIN entries,
           NEW entry, Live(entry, clock)
    PROVE  PostsOf(Put(entries, key, entry), clock)
              = PostsOf(entries, clock) \cup {Post(key, entry)}
<1> DEFINE new == Put(entries, key, entry)
<1>1. /\ \A k \in DOMAIN entries : new[k] = entries[k]
      /\ DOMAIN new = DOMAIN entries \cup {key}
      /\ new[key] = entry
  BY DEF Put
<1> HIDE DEF new
<1>2. LivingKeys(new, clock) = LivingKeys(entries, clock) \cup {key}
  BY <1>1 DEF LivingKeys
<1>3. \A k \in LivingKeys(entries, clock) : new[k] = entries[k]
  BY <1>1 DEF LivingKeys
<1> QED
  BY <1>1, <1>2, <1>3 DEF PostsOf, new

\* Deleting an entry takes its post off the board, and no other.
LEMMA RemovedPost ==
    ASSUME NEW entries, NEW clock, NEW key \in DOMAIN entries,
           \A k \in DOMAIN entries : k.sn = key.sn => k = key
    PROVE  PostsOf(Delete(entries, key), clock)
              = PostsOf(entries, clock) \ {Post(key, entries[key])}
<1> DEFINE rest == Delete(entries, key)
<1>1. /\ DOMAIN rest = DOMAIN entries \ {key}
      /\ \A k \in DOMAIN rest : rest[k] = entries[k]
  BY DEF Delete, Restrict
<1> HIDE DEF rest
<1>2. LivingKeys(rest, clock) = LivingKeys(entries, clock) \ {key}
  BY <1>1 DEF LivingKeys
<1>3. \A k \in LivingKeys(rest, clock) :
        rest[k] = entries[k] /\ Post(k, entries[k]) # Post(key, entries[key])
  BY <1>1 DEF LivingKeys, Post
<1> QED
  BY <1>2, <1>3 DEF PostsOf, rest

\* Writing an entry again replaces its post, and no other.
LEMMA ReplacedPost ==
    ASSUME NEW entries, NEW clock, NEW key \in DOMAIN entries,
           \A k \in DOMAIN entries : k.sn = key.sn => k = key,
           NEW entry, Live(entry, clock)
    PROVE  PostsOf(Put(entries, key, entry), clock)
              = (PostsOf(entries, clock) \ {Post(key, entries[key])})
                \cup {Post(key, entry)}
<1> DEFINE rest == Delete(entries, key)
<1>1. Put(entries, key, entry) = Put(rest, key, entry)
  BY DEF Put, Delete, Restrict
<1>2. key \notin DOMAIN rest
  BY DEF Delete, Restrict
<1>3. PostsOf(rest, clock) = PostsOf(entries, clock) \ {Post(key, entries[key])}
  BY RemovedPost
<1> HIDE DEF rest
<1>4. PostsOf(Put(rest, key, entry), clock) = PostsOf(rest, clock) \cup {Post(key, entry)}
  BY <1>2, NewPost
<1> QED
  BY <1>1, <1>3, <1>4

\* Time only takes posts away.
LEMMA PostsExpire ==
    ASSUME NEW entries, NEW clock \in Nat,
           \A k \in DOMAIN entries : entries[k].expireAt \in Int
    PROVE  PostsOf(entries, clock + 1) \subseteq PostsOf(entries, clock)
<1>1. \A k \in DOMAIN entries : Live(entries[k], clock + 1) => Live(entries[k], clock)
  BY DEF Live, NeverExpires
<1>2. LivingKeys(entries, clock + 1) \subseteq LivingKeys(entries, clock)
  BY <1>1 DEF LivingKeys
<1> QED
  BY <1>2 DEF PostsOf

\* A board is read at the present time.
LEMMA PostsAreOfNow ==
    \A store : Posts(store) = PostsOf(store.entries, now)
BY DEF Posts, PostsOf, LivingKeys

-----------------------------------------------------------------------------
(* The steps.                                                               *)

\* What a mapped step starts from.
BoardAssumption ==
    /\ MinBlockGap >= 1
    /\ MaxBlockTxs <= TxnLimit
    /\ \A tx \in Txs : tx.duration < DurationHalf

\* When a second passes, posts can only leave the board.
LEMMA TickExpires ==
    ASSUME TypeOK, Tick
    PROVE  Board!Expire
<1>1. now' = now + 1 /\ UNCHANGED <<phase, blockTime, txIndex, batch, committed>>
  BY DEF Tick
<1>2. /\ \A k \in DOMAIN batch.entries : batch.entries[k].expireAt \in Int
      /\ \A k \in DOMAIN committed.entries : committed.entries[k].expireAt \in Int
  BY DEF TypeOK, StoreOK, MapOK, Entries
<1>3. /\ Posts(batch)' \subseteq Posts(batch)
      /\ Posts(committed)' \subseteq Posts(committed)
  <2>1. /\ Posts(batch)' = PostsOf(batch.entries, now + 1)
        /\ Posts(committed)' = PostsOf(committed.entries, now + 1)
    BY <1>1 DEF Posts, PostsOf, LivingKeys
  <2>2. now \in Nat
    BY DEF TypeOK
  <2> QED
    BY <1>2, <2>1, <2>2, PostsExpire, PostsAreOfNow
<1> QED
  BY <1>1, <1>3 DEF Board!Expire, CurrentSn

\* BeginBlock opens a block of the board under a later serial number.
LEMMA BeginBlockOpens ==
    ASSUME TypeOK, MinBlockGap >= 1, BeginBlock
    PROVE  Board!Open
<1>1. /\ phase = "idle" /\ phase' = "block"
      /\ txIndex' = 0 /\ batch' = committed /\ committed' = committed /\ now' = now
      /\ blockTime' \in Nat /\ blockTime' >= blockTime + MinBlockGap
  BY DEF BeginBlock
<1>2. Board!Earlier(CurrentSn, CurrentSn')
  BY <1>1, AppAssumption DEF Board!Earlier, CurrentSn, TypeOK
<1>3. CurrentSn' \in Board!Sns
  BY <1>1 DEF CurrentSn, Board!Sns
<1>4. Posts(batch)' = Posts(committed) /\ Posts(committed)' = Posts(committed)
  BY <1>1 DEF Posts
<1> QED
  BY <1>1, <1>2, <1>3, <1>4 DEF Board!Open, Board!Advance

\* Commit shows the block's posts, or loses them as a whole.
LEMMA CommitCloses ==
    ASSUME Commit
    PROVE  Board!Close
<1>1. /\ phase = "block" /\ phase' = "idle" /\ now' = now
      /\ UNCHANGED <<blockTime, txIndex>>
      /\ committed' = batch \/ (DiskMayFail /\ committed' = committed)
  BY DEF Commit
<1>2. /\ committed' = batch => Posts(committed)' = Posts(batch)
      /\ committed' = committed => Posts(committed)' = Posts(committed)
  BY <1>1 DEF Posts
<1> QED
  BY <1>1, <1>2 DEF Board!Close, CurrentSn

\* A delivery that is accepted takes the next SN, or skips it.
LEMMA AcceptedAdvances ==
    ASSUME TypeOK, blockTime' = blockTime, txIndex' = txIndex + 1
    PROVE  Board!Advance
<1>1. CurrentSn = <<blockTime, txIndex>> /\ CurrentSn' = <<blockTime, txIndex + 1>>
  BY DEF CurrentSn
<1> QED
  BY <1>1 DEF TypeOK, Board!Advance, Board!Earlier, Board!Sns

\* A transaction publishes, revises or withdraws one post, or leaves the board alone.
LEMMA DeliveryIsAPost ==
    ASSUME TypeOK, SnInv, BoardAssumption, NEW tx \in Txs, DeliverTx(tx)
    PROVE  [Board!Next]_(Board!bvars)
<1> DEFINE put == putGanyTx(batch, tx, CurrentSn, now, CreateWriteCount)
           fresh == MainKey(tx, CurrentSn)
           old == MainKey(tx, tx.oldSn)
           expireAt == ExpiresAt(toValidTTL(tx.duration, now), now)
<1>1. /\ phase = "block" /\ phase' = "block" /\ now' = now
      /\ blockTime' = blockTime /\ committed' = committed
  BY DEF DeliverTx, Deliver
<1>2. Accepted = {CreateWriteCount}
  BY AppAssumption DEF DeliverTx, Deliver, Accepted, TypeOK, BoardAssumption
<1>3. /\ tx \in GanyTx /\ CurrentSn \in Sn /\ now \in Nat
      /\ batch' = put.store /\ txIndex' = NextTxIndex(put.code)
  BY <1>2, DeliverTxPuts DEF TypeOK
<1>4. Posts(committed)' = Posts(committed) /\ (phase = "block")' = (phase = "block")
  BY <1>1 DEF Posts
<1>5. /\ Posts(batch) = PostsOf(batch.entries, now)
      /\ Posts(batch)' = PostsOf(batch'.entries, now)
  BY <1>1 DEF Posts, PostsOf, LivingKeys
<1>6. expireAt > now /\ expireAt \in Int
  BY <1>3, LifetimeInBounds, ExpiryType DEF GanyTx, BoardAssumption
<1>7. CASE put.code # OK
  <2>1. put.store = batch
    BY <1>7 DEF putGanyTx, createGanyTx, overwriteBulletin, CreateWriteCount
  <2>2. batch' = batch /\ txIndex' = txIndex
    BY <1>3, <1>7, <2>1 DEF NextTxIndex
  <2>3. Posts(batch)' = Posts(batch) /\ CurrentSn' = CurrentSn
    BY <1>1, <2>2 DEF Posts, CurrentSn
  <2> QED
    BY <1>1, <1>4, <2>3 DEF Board!bvars
<1>8. CASE put.code = OK /\ tx.oldSn = NoSn
  <2>1. Board!Advance
    BY <1>1, <1>3, <1>8, AcceptedAdvances DEF NextTxIndex
  <2>2. CASE tx.content = NoContent
    <3>1. batch' = batch
      BY <1>3, <1>8, <2>2 DEF putGanyTx, createGanyTx
    <3>2. Posts(batch)' = Posts(batch)
      BY <1>1, <3>1 DEF Posts
    <3> QED
      BY <1>1, <1>4, <2>1, <3>2 DEF Board!Skip, Board!Next
  <2>3. CASE tx.content # NoContent
    <3> DEFINE entry == [ids |-> <<GetBulletinID(tx)>>, tx |-> tx, expireAt |-> expireAt]
    <3>1. batch'.entries = Put(batch.entries, fresh, entry)
      BY <1>3, <1>8, <2>3 DEF putGanyTx, createGanyTx, CreateWrites, TimestampTooLong, OK,
         CreateWriteCount
    <3>2. fresh \notin DOMAIN batch.entries
      BY <1>1 DEF SnInv, Before, CurrentSn, TypeOK, MainKey
    <3>3. Live(entry, now)
      BY <1>3, <1>6 DEF Live
    <3>4. Post(fresh, entry) = [sn |-> CurrentSn, tx |-> tx, versions |-> 1]
      BY DEF Post, MainKey
    <3> HIDE DEF fresh, entry
    <3>5. Posts(batch)' = Posts(batch) \cup {[sn |-> CurrentSn, tx |-> tx, versions |-> 1]}
      BY <1>5, <3>1, <3>2, <3>3, <3>4, NewPost
    <3> QED
      BY <1>1, <1>4, <2>1, <3>5 DEF Board!Publish, Board!Next
  <2> QED
    BY <2>2, <2>3
<1>9. CASE put.code = OK /\ tx.oldSn # NoSn
  <2>1. Board!Advance
    BY <1>1, <1>3, <1>9, AcceptedAdvances DEF NextTxIndex
  <2> DEFINE entry == batch.entries[old]
             next == NextVersion(entry, tx, now)
  <2>2. /\ OverwriteError(batch, tx, now) = OK
        /\ batch'.entries = IF tx.content = NoContent THEN Delete(batch.entries, old)
                            ELSE Put(batch.entries, old, next)
    BY <1>3, <1>9 DEF putGanyTx, overwriteBulletin, CreateWriteCount
  <2>3. /\ old \in DOMAIN batch.entries /\ Live(entry, now)
        /\ CanBeOverwrittenBy(entry.tx, tx)
    BY <2>2 DEF OverwriteError, Found, OK, ErrorOther, InvalidOldSN,
       CannotOverwriteBulletin
  <2>4. \A k \in DOMAIN batch.entries : k.sn = old.sn => k = old
    BY <2>3 DEF SnInv, SnNamesOneBulletin, OneBulletinPerSn
  <2>5. entry \in Entries
    BY <2>3 DEF TypeOK, StoreOK, MapOK
  <2>6. OriginOf(tx) = OriginOf(entry.tx)
    BY <2>3 DEF CanBeOverwrittenBy, OriginOf
  <2>7. Live(next, now)
    BY <1>3, <1>6 DEF Live, NextVersion
  <2>8. Post(old, next) = [sn |-> Post(old, entry).sn, tx |-> tx,
                           versions |-> Post(old, entry).versions + 1]
    BY <2>5 DEF Post, NextVersion, Entries, GetBulletinID
  <2>9. Post(old, entry).tx = entry.tx /\ Post(old, entry) \in Posts(batch)
    BY <2>3 DEF Post, Posts
  <2> HIDE DEF old, entry, next
  <2>10. CASE tx.content = NoContent
    <3>1. Posts(batch)' = Posts(batch) \ {Post(old, batch.entries[old])}
      BY <1>5, <2>2, <2>3, <2>4, <2>10, RemovedPost
    <3>2. Board!Withdraw(Post(old, entry), tx)
      BY <1>1, <1>4, <2>1, <2>6, <2>9, <3>1 DEF Board!Withdraw, entry
    <3> QED
      BY <1>1, <2>9, <3>2 DEF Board!Next
  <2>11. CASE tx.content # NoContent
    <3>1. Posts(batch)' = (Posts(batch) \ {Post(old, batch.entries[old])})
                          \cup {Post(old, next)}
      BY <1>5, <2>2, <2>3, <2>4, <2>7, <2>11, ReplacedPost
    <3>2. Board!Revise(Post(old, entry), tx)
      BY <1>1, <1>4, <2>1, <2>6, <2>8, <2>9, <3>1 DEF Board!Revise, entry
    <3> QED
      BY <1>1, <2>9, <3>2 DEF Board!Next
  <2> QED
    BY <2>10, <2>11
<1> QED
  BY <1>7, <1>8, <1>9

\* Every behaviour of the application is one of the board: each transaction that
\* takes effect is a publication, a revision or a withdrawal of the open block
\* (app.go:181-204), each of the others a stutter.
THEOREM AppImplementsBoard ==
    ASSUME BoardAssumption
    PROVE  Spec => ImplementsBoard
<1>1. Init => Board!Init
  BY DEF Init, Board!Init, Posts, CurrentSn, EmptyStore, EmptyMap
<1>2. TypeOK /\ SnInv /\ [Next]_vars => [Board!Next]_(Board!bvars)
  <2> SUFFICES ASSUME TypeOK, SnInv, [Next]_vars
               PROVE  [Board!Next]_(Board!bvars)
    OBVIOUS
  <2>1. CASE Tick
    BY <2>1, TickExpires DEF Board!Next
  <2>2. CASE BeginBlock
    BY <2>2, BeginBlockOpens DEF Board!Next, BoardAssumption
  <2>3. CASE DeliverInvalidTx \/ UNCHANGED vars
    <3>1. UNCHANGED <<now, phase, blockTime, txIndex, batch, committed>>
      BY <2>3 DEF DeliverInvalidTx, vars
    <3> QED
      BY <3>1 DEF Board!bvars, Posts, CurrentSn
  <2>4. ASSUME NEW tx \in Txs, DeliverTx(tx) PROVE [Board!Next]_(Board!bvars)
    BY <2>4, DeliveryIsAPost
  <2>5. CASE Commit
    BY <2>5, CommitCloses DEF Board!Next
  <2> QED
    BY <2>1, <2>2, <2>3, <2>4, <2>5 DEF Next
<1>3. Spec => [](TypeOK /\ SnInv)
  BY TypeCorrect, SnInvInvariant, PTL DEF BoardAssumption
<1> QED
  BY <1>1, <1>2, <1>3, PTL DEF Spec, ImplementsBoard, Board!Spec

-----------------------------------------------------------------------------
(* Nodes that execute the same calls agree, for every pair of clocks: what a *)
(* call answers and writes depends on the clock through the bulletin that it *)
(* overwrites only.                                                         *)

\* A store is a record of three maps.
IsStore(store) ==
    store = [entries |-> store.entries, keyMap |-> store.keyMap, ranges |-> store.ranges]

\* Stores with the same bulletins have the same keys, versions and histories.
LEMMA SameBulletins ==
    ASSUME NEW s1, NEW s2
    PROVE  Bulletins(s1) = Bulletins(s2) <=>
            /\ DOMAIN s1.entries = DOMAIN s2.entries
            /\ \A k \in DOMAIN s1.entries :
                /\ s1.entries[k].ids = s2.entries[k].ids
                /\ s1.entries[k].tx = s2.entries[k].tx
BY DEF Bulletins

\* What becomes of the bulletins of a store when a key is set and when it is deleted.
LEMMA PutBulletins ==
    ASSUME NEW e1, NEW e2, NEW key, NEW v1, NEW v2,
           DOMAIN e1 = DOMAIN e2,
           \A k \in DOMAIN e1 : e1[k].ids = e2[k].ids /\ e1[k].tx = e2[k].tx,
           v1.ids = v2.ids, v1.tx = v2.tx
    PROVE  /\ DOMAIN Put(e1, key, v1) = DOMAIN Put(e2, key, v2)
           /\ \A k \in DOMAIN Put(e1, key, v1) :
                /\ Put(e1, key, v1)[k].ids = Put(e2, key, v2)[k].ids
                /\ Put(e1, key, v1)[k].tx = Put(e2, key, v2)[k].tx
BY DEF Put

\* Deleting one key of both stores keeps them equal but for lifetimes.
LEMMA DeleteBulletins ==
    ASSUME NEW e1, NEW e2, NEW key,
           DOMAIN e1 = DOMAIN e2,
           \A k \in DOMAIN e1 : e1[k].ids = e2[k].ids /\ e1[k].tx = e2[k].tx
    PROVE  /\ DOMAIN Delete(e1, key) = DOMAIN Delete(e2, key)
           /\ \A k \in DOMAIN Delete(e1, key) :
                /\ Delete(e1, key)[k].ids = Delete(e2, key)[k].ids
                /\ Delete(e1, key)[k].tx = Delete(e2, key)[k].tx
BY DEF Delete, Restrict

\* A creation by two clocks: the age of a bulletin is told from the block's time.
LEMMA CreationsAgree ==
    ASSUME NEW s1, NEW s2, IsStore(s1), IsStore(s2), Bulletins(s1) = Bulletins(s2),
           NEW tx, NEW sn, NEW c1, NEW c2, NEW accepted
    PROVE  LET p1 == createGanyTx(s1, tx, sn, c1, accepted)
               p2 == createGanyTx(s2, tx, sn, c2, accepted)
           IN  /\ p1.code = p2.code
               /\ IsStore(p1.store) /\ IsStore(p2.store)
               /\ Bulletins(p1.store) = Bulletins(p2.store)
<1> DEFINE p1 == createGanyTx(s1, tx, sn, c1, accepted)
           p2 == createGanyTx(s2, tx, sn, c2, accepted)
           w1 == CreateWrites(s1, tx, sn, c1, accepted)
           w2 == CreateWrites(s2, tx, sn, c2, accepted)
<1>1. CASE tx.content = NoContent \/ TooLongAgo(tx, sn[1])
  BY <1>1 DEF createGanyTx
<1>2. CASE ~(tx.content = NoContent \/ TooLongAgo(tx, sn[1]))
  <2> DEFINE value(clock) ==
                [ids |-> <<GetBulletinID(tx)>>, tx |-> tx,
                 expireAt |-> ExpiresAt(toValidTTL(tx.duration, clock), clock)]
             key == MainKey(tx, sn)
  <2>1. /\ p1.code = p2.code
        /\ p1.store = w1 /\ p2.store = w2
    BY <1>2 DEF createGanyTx
  <2>2. IsStore(w1) /\ IsStore(w2)
    BY DEF CreateWrites, IsStore
  <2>3. /\ w1.entries = IF accepted >= 1 THEN Put(s1.entries, key, value(c1)) ELSE s1.entries
        /\ w2.entries = IF accepted >= 1 THEN Put(s2.entries, key, value(c2)) ELSE s2.entries
    BY DEF CreateWrites
  <2>4. value(c1).ids = value(c2).ids /\ value(c1).tx = value(c2).tx
    OBVIOUS
  <2> HIDE DEF value, key, w1, w2
  <2>5. Bulletins(w1) = Bulletins(w2)
    <3>1. CASE accepted >= 1
      BY <2>3, <2>4, <3>1, SameBulletins, PutBulletins
    <3>2. CASE ~(accepted >= 1)
      BY <2>3, <3>2, SameBulletins
    <3> QED
      BY <3>1, <3>2
  <2> QED
    BY <2>1, <2>2, <2>5
<1> QED
  BY <1>1, <1>2

\* An overwrite by two clocks that agree on whether the old version is still there.
LEMMA OverwritesAgree ==
    ASSUME NEW s1, NEW s2, IsStore(s1), IsStore(s2), Bulletins(s1) = Bulletins(s2),
           NEW tx, NEW c1, NEW c2, NEW accepted,
           Found(s1.entries, MainKey(tx, tx.oldSn), c1)
              = Found(s2.entries, MainKey(tx, tx.oldSn), c2)
    PROVE  LET p1 == overwriteBulletin(s1, tx, c1, accepted)
               p2 == overwriteBulletin(s2, tx, c2, accepted)
           IN  /\ p1.code = p2.code
               /\ IsStore(p1.store) /\ IsStore(p2.store)
               /\ Bulletins(p1.store) = Bulletins(p2.store)
<1> DEFINE key == MainKey(tx, tx.oldSn)
           o1 == s1.entries[key]
           o2 == s2.entries[key]
           p1 == overwriteBulletin(s1, tx, c1, accepted)
           p2 == overwriteBulletin(s2, tx, c2, accepted)
<1>1. /\ DOMAIN s1.entries = DOMAIN s2.entries
      /\ \A k \in DOMAIN s1.entries :
            /\ s1.entries[k].ids = s2.entries[k].ids
            /\ s1.entries[k].tx = s2.entries[k].tx
  BY SameBulletins
<1>2. OverwriteError(s1, tx, c1) = OverwriteError(s2, tx, c2)
  <2>1. CASE ~Found(s1.entries, key, c1)
    BY <2>1 DEF OverwriteError
  <2>2. CASE Found(s1.entries, key, c1)
    <3>1. o1.ids = o2.ids /\ o1.tx = o2.tx
      BY <1>1, <2>2 DEF Found
    <3>2. historyContainsId(o1, GetBulletinID(tx)) = historyContainsId(o2, GetBulletinID(tx))
      BY <3>1, Zenon DEF historyContainsId
    <3>3. CanBeOverwrittenBy(o1.tx, tx) = CanBeOverwrittenBy(o2.tx, tx)
      BY <3>1, Zenon
    <3> QED
      BY <2>2, <3>2, <3>3 DEF OverwriteError
  <2> QED
    BY <2>1, <2>2
<1>3. CASE OverwriteError(s1, tx, c1) # OK \/ accepted = 0
  BY <1>2, <1>3 DEF overwriteBulletin
<1>4. CASE ~(OverwriteError(s1, tx, c1) # OK \/ accepted = 0)
  <2>1. /\ p1.code = p2.code
        /\ p1.store = [s1 EXCEPT !.entries = IF tx.content = NoContent THEN Delete(@, key)
                                             ELSE Put(@, key, NextVersion(o1, tx, c1))]
        /\ p2.store = [s2 EXCEPT !.entries = IF tx.content = NoContent THEN Delete(@, key)
                                             ELSE Put(@, key, NextVersion(o2, tx, c2))]
    BY <1>2, <1>4 DEF overwriteBulletin
  <2>2. /\ IsStore(p1.store) /\ IsStore(p2.store)
        /\ p1.store.entries = IF tx.content = NoContent THEN Delete(s1.entries, key)
                              ELSE Put(s1.entries, key, NextVersion(o1, tx, c1))
        /\ p2.store.entries = IF tx.content = NoContent THEN Delete(s2.entries, key)
                              ELSE Put(s2.entries, key, NextVersion(o2, tx, c2))
    BY <2>1 DEF IsStore
  <2>3. key \in DOMAIN s1.entries
    BY <1>4 DEF OverwriteError, Found, OK, ErrorOther
  <2>4. /\ NextVersion(o1, tx, c1).ids = NextVersion(o2, tx, c2).ids
        /\ NextVersion(o1, tx, c1).tx = NextVersion(o2, tx, c2).tx
    BY <1>1, <2>3 DEF NextVersion
  <2>5. Bulletins(p1.store) = Bulletins(p2.store)
    <3> HIDE DEF key, o1, o2, p1, p2
    <3>1. CASE tx.content = NoContent
      BY <1>1, <2>2, <3>1, SameBulletins, DeleteBulletins
    <3>2. CASE tx.content # NoContent
      BY <1>1, <2>2, <2>4, <3>2, SameBulletins, PutBulletins
    <3> QED
      BY <3>1, <3>2
  <2> QED
    BY <2>1, <2>2, <2>5
<1> QED
  BY <1>3, <1>4

\* Both nodes run the same code.
LEMMA SameCode ==
    ASSUME NEW store, NEW tx, NEW sn, NEW clock, NEW accepted
    PROVE  Second!putGanyTx(store, tx, sn, clock, accepted)
              = putGanyTx(store, tx, sn, clock, accepted)
BY DEF putGanyTx, createGanyTx, overwriteBulletin, CreateWrites, CreateWriteCount,
       NewRange, CopiedHeads, RangeKey, TooLongAgo, toValidTTL, ToDuration,
       ExpiresAt, NeverExpires, Live, Sooner, Found, Put, Delete, Restrict,
       OverwriteError, NextVersion, historyContainsId, Range, CanBeOverwrittenBy,
       GetBulletinID, MainKey, getMainKeyHead, Low5, OK, TimestampTooLong,
       InvalidOldSN, CannotOverwriteBulletin, ErrorOther, CENSOR, Second!putGanyTx,
       Second!createGanyTx, Second!overwriteBulletin, Second!CreateWrites,
       Second!CreateWriteCount, Second!NewRange, Second!CopiedHeads,
       Second!RangeKey, Second!TooLongAgo, Second!toValidTTL, Second!ToDuration,
       Second!ExpiresAt, Second!NeverExpires, Second!Live, Second!Sooner,
       Second!Found, Second!Put, Second!Delete, Second!Restrict,
       Second!OverwriteError, Second!NextVersion, Second!historyContainsId,
       Second!Range, Second!CanBeOverwrittenBy, Second!GetBulletinID,
       Second!MainKey, Second!getMainKeyHead, Second!Low5, Second!OK,
       Second!TimestampTooLong, Second!InvalidOldSN, Second!CannotOverwriteBulletin,
       Second!ErrorOther, Second!CENSOR

\* Each store is a record, and the nodes agree as the property says.
AgreeInv ==
    /\ IsStore(batch) /\ IsStore(batch2)
    /\ IsStore(committed) /\ IsStore(committed2)
    /\ ReplicasAgree

\* One call delivered to both nodes.
LEMMA DeliveriesAgree ==
    ASSUME AgreeInv, NEW tx \in Txs, DeliverTx2(tx)
    PROVE  AgreeInv'
<1>1. PICK accepted \in Accepted : Deliver(tx, accepted) /\ Second!Deliver(tx, accepted)
  BY DEF DeliverTx2
<1> DEFINE p1 == putGanyTx(batch, tx, <<blockTime, txIndex>>, now, accepted)
           p2 == putGanyTx(batch2, tx, <<blockTime, txIndex2>>, now2, accepted)
<1>2. /\ resp' = p1.code /\ batch' = p1.store /\ committed' = committed
      /\ txIndex' = IF p1.code = OK THEN txIndex + 1 ELSE txIndex
  BY <1>1 DEF Deliver, CurrentSn, NextTxIndex
<1>3. /\ resp2' = p2.code /\ batch2' = p2.store /\ committed2' = committed2
      /\ txIndex2' = IF p2.code = OK THEN txIndex2 + 1 ELSE txIndex2
  BY <1>1, SameCode DEF Second!Deliver, Second!CurrentSn, Second!NextTxIndex, OK, Second!OK
<1>4. ~contested /\ contested' = Contests(tx)
  BY DEF DeliverTx2
<1>5. /\ txIndex = txIndex2
      /\ Bulletins(batch) = Bulletins(batch2)
      /\ Bulletins(committed) = Bulletins(committed2)
  BY <1>4 DEF AgreeInv, ReplicasAgree
<1>6. CASE tx.oldSn = NoSn
  <2>1. /\ p1.code = p2.code
        /\ IsStore(p1.store) /\ IsStore(p2.store)
        /\ Bulletins(p1.store) = Bulletins(p2.store)
    BY <1>5, <1>6, CreationsAgree DEF putGanyTx, AgreeInv
  <2> QED
    BY <1>2, <1>3, <1>5, <2>1 DEF AgreeInv, ReplicasAgree, IsStore, Bulletins
<1>7. CASE tx.oldSn # NoSn
  <2> DEFINE key == MainKey(tx, tx.oldSn)
  <2>1. /\ IsStore(p1.store) /\ IsStore(p2.store)
        /\ ~contested' => /\ p1.code = p2.code
                          /\ Bulletins(p1.store) = Bulletins(p2.store)
    <3>1. /\ p1 = overwriteBulletin(batch, tx, now, accepted)
          /\ p2 = overwriteBulletin(batch2, tx, now2, accepted)
      BY <1>7 DEF putGanyTx
    <3>2. IsStore(p1.store) /\ IsStore(p2.store)
      BY <3>1 DEF overwriteBulletin, IsStore, AgreeInv
    <3>3. ASSUME ~contested'
          PROVE  Found(batch.entries, key, now) = Found(batch2.entries, key, now2)
      BY <1>4, <1>7, <3>3 DEF Contests
    <3> HIDE DEF p1, p2, key
    <3> QED
      BY <1>5, <3>1, <3>2, <3>3, OverwritesAgree DEF AgreeInv, key
  <2> QED
    BY <1>2, <1>3, <1>5, <2>1 DEF AgreeInv, ReplicasAgree, IsStore, Bulletins
<1> QED
  BY <1>6, <1>7

\* Nodes that execute the same calls, on disks that do not fail, answer the same codes
\* and hold the same bulletins until one of them let a bulletin expire that a version
\* comes for (app.go:447, 596): lifetimes alone never make them differ.
THEOREM NodesAgree ==
    ASSUME ~DiskMayFail
    PROVE  Spec2 => []ReplicasAgree
<1>1. Init2 => AgreeInv
  BY DEF Init2, Init, Second!Init, AgreeInv, ReplicasAgree, IsStore, Bulletins,
         EmptyStore, EmptyMap, Second!EmptyStore, Second!EmptyMap, OK, Second!OK
<1>2. AgreeInv /\ [Next2]_rvars => AgreeInv'
  <2> SUFFICES ASSUME AgreeInv, [Next2]_rvars PROVE AgreeInv'
    OBVIOUS
  <2>1. CASE Tick2
    <3>1. /\ UNCHANGED <<txIndex, batch, committed, resp, contested>>
          /\ UNCHANGED <<txIndex2, batch2, committed2, resp2>>
      BY <2>1 DEF Tick2, Tick, Second!Tick, vars
    <3> QED
      BY <3>1 DEF AgreeInv, ReplicasAgree, IsStore, Bulletins
  <2>2. CASE BeginBlock2
    <3>1. /\ txIndex' = 0 /\ batch' = committed /\ committed' = committed /\ resp' = OK
          /\ txIndex2' = 0 /\ batch2' = committed2 /\ committed2' = committed2
          /\ resp2' = OK /\ contested' = contested
      BY <2>2 DEF BeginBlock2, BeginBlock, Second!BeginBlock, OK, Second!OK
    <3> QED
      BY <3>1 DEF AgreeInv, ReplicasAgree, IsStore, Bulletins
  <2>3. ASSUME NEW tx \in Txs, DeliverTx2(tx) PROVE AgreeInv'
    BY <2>3, DeliveriesAgree
  <2>4. CASE Commit2
    <3>1. /\ committed' = batch /\ committed2' = batch2 /\ resp' = resp2'
          /\ UNCHANGED <<txIndex, batch, txIndex2, batch2, contested>>
      BY <2>4 DEF Commit2, Commit, Second!Commit, OK, Second!OK
    <3> QED
      BY <3>1 DEF AgreeInv, ReplicasAgree, IsStore, Bulletins
  <2>5. CASE UNCHANGED rvars
    BY <2>5 DEF rvars, vars, AgreeInv, ReplicasAgree, IsStore, Bulletins
  <2> QED
    BY <2>1, <2>2, <2>3, <2>4, <2>5 DEF Next2
<1>3. AgreeInv => ReplicasAgree
  BY DEF AgreeInv
<1> QED
  BY <1>1, <1>2, <1>3, PTL DEF Spec2

-----------------------------------------------------------------------------
(* A query's page holds the first of what may be on it.                     *)

\* The order of the iteration is one of all keys.
InOneOrder(keys) ==
    /\ \A a \in keys : ~Precedes(a, a)
    /\ \A a, b \in keys : a # b => Precedes(a, b) \/ Precedes(b, a)
    /\ \A a, b, c \in keys : Precedes(a, b) /\ Precedes(b, c) => Precedes(a, c)

\* Serial numbers of their own put main keys in order.
LEMMA KeysAreInOrder ==
    ASSUME NEW keys, keys \subseteq MainKeys, \A a, b \in keys : a.sn = b.sn => a = b
    PROVE  InOneOrder(keys)
<1>1. \A k \in keys : k.head[3] \in Nat /\ k.sn[1] \in Nat /\ k.sn[2] \in Nat
                       /\ k.sn = <<k.sn[1], k.sn[2]>>
  BY DEF MainKeys, MainKeyHeads, Sn
<1>2. \A a \in keys : ~Precedes(a, a)
  BY <1>1 DEF Precedes
<1>3. ASSUME NEW a \in keys, NEW b \in keys, a # b
      PROVE  Precedes(a, b) \/ Precedes(b, a)
  <2>1. a.sn[1] # b.sn[1] \/ a.sn[2] # b.sn[2]
    BY <1>1, <1>3
  <2> QED BY <1>1, <2>1 DEF Precedes
<1>4. ASSUME NEW a \in keys, NEW b \in keys, NEW c \in keys, Precedes(a, b), Precedes(b, c)
      PROVE  Precedes(a, c)
  BY <1>1, <1>4 DEF Precedes
<1> QED BY <1>2, <1>3, <1>4 DEF InOneOrder

\* A subset of keys in order is in order.
LEMMA OrderOfSubset ==
    ASSUME NEW keys, InOneOrder(keys), NEW some \in SUBSET keys
    PROVE  InOneOrder(some)
BY DEF InOneOrder

\* Each key of finitely many has a place of its own.
LEMMA PlacesDiffer ==
    ASSUME NEW keys, IsFiniteSet(keys), InOneOrder(keys)
    PROVE  /\ \A k \in keys : Place(keys, k) \in 0 .. Cardinality(keys) - 1
           /\ \A a, b \in keys : Place(keys, a) = Place(keys, b) => a = b
<1> DEFINE before(k) == {j \in keys : Precedes(j, k)}
<1>1. ASSUME NEW k
      PROVE  IsFiniteSet(before(k)) /\ Place(keys, k) = Cardinality(before(k))
             /\ Place(keys, k) \in Nat
  <2>1. before(k) \in SUBSET keys
    OBVIOUS
  <2>2. Place(keys, k) = Cardinality(before(k))
    BY DEF Place
  <2> HIDE DEF before
  <2> QED BY <2>1, <2>2, FS_Subset, FS_CardinalityType
<1>2. ASSUME NEW k \in keys, NEW larger, IsFiniteSet(larger), k \in larger,
             before(k) \subseteq larger
      PROVE  Place(keys, k) < Cardinality(larger)
  <2>1. k \notin before(k)
    BY DEF InOneOrder
  <2> DEFINE part == before(k)
  <2>2. IsFiniteSet(part) /\ part \in SUBSET larger /\ part # larger
    BY <1>1, <1>2, <2>1
  <2>3. Place(keys, k) = Cardinality(part) /\ Place(keys, k) \in Nat
    BY <1>1
  <2> HIDE DEF part
  <2>4. Cardinality(part) <= Cardinality(larger) /\ Cardinality(part) # Cardinality(larger)
        /\ Cardinality(larger) \in Nat
    BY <1>2, <2>2, FS_Subset, FS_CardinalityType
  <2> QED BY <2>3, <2>4
<1>3. ASSUME NEW a \in keys, NEW b \in keys, Precedes(a, b)
      PROVE  Place(keys, a) < Place(keys, b)
  <2>1. a \in before(b) /\ before(a) \subseteq before(b)
    BY <1>3 DEF InOneOrder
  <2>2. IsFiniteSet(before(b)) /\ Place(keys, b) = Cardinality(before(b))
    BY <1>1
  <2> HIDE DEF before
  <2> QED BY <1>2, <2>1, <2>2
<1>4. ASSUME NEW k \in keys
      PROVE  Place(keys, k) \in 0 .. Cardinality(keys) - 1
  <2>1. before(k) \subseteq keys
    OBVIOUS
  <2> HIDE DEF before
  <2>2. Place(keys, k) < Cardinality(keys)
    BY <1>2, <2>1
  <2>3. Cardinality(keys) \in Nat /\ Place(keys, k) \in Nat
    BY <1>1, FS_CardinalityType
  <2> QED BY <2>2, <2>3
<1>5. ASSUME NEW a \in keys, NEW b \in keys, Place(keys, a) = Place(keys, b)
      PROVE  a = b
  <2>1. Place(keys, a) \in Nat /\ Place(keys, b) \in Nat
    BY <1>1
  <2>2. ~(Place(keys, a) < Place(keys, b)) /\ ~(Place(keys, b) < Place(keys, a))
    BY <1>5, <2>1
  <2>3. ~Precedes(a, b) /\ ~Precedes(b, a)
    BY <1>3, <2>2
  <2> QED BY <2>3 DEF InOneOrder
<1> QED BY <1>4, <1>5

\* No place is free.
LEMMA PlacesAreTaken ==
    ASSUME NEW keys, IsFiniteSet(keys), InOneOrder(keys), NEW i \in 1 .. Cardinality(keys)
    PROVE  \E k \in keys : Place(keys, k) = i - 1
<1> DEFINE n == Cardinality(keys)
           places == 0 .. n - 1
           f == [k \in keys |-> Place(keys, k)]
<1>1. n \in Nat
  BY FS_CardinalityType
<1>2. f \in [keys -> places] /\ \A a, b \in keys : f[a] = f[b] => a = b
  BY PlacesDiffer
<1>3. IsFiniteSet(places) /\ Cardinality(places) = n
  <2>1. Cardinality(0 .. n - 1) = n /\ IsFiniteSet(0 .. n - 1)
    <3> DEFINE last == n - 1
    <3>1. last \in Int /\ n = IF 0 > last THEN 0 ELSE last - 0 + 1
      BY <1>1
    <3> HIDE DEF last, n
    <3>2. IsFiniteSet(0 .. last) /\ Cardinality(0 .. last) = IF 0 > last THEN 0 ELSE last - 0 + 1
      BY <3>1, FS_Interval
    <3> QED BY <3>1, <3>2 DEF last
  <2> QED BY <2>1
<1>4. f \in Injection(keys, places)
  BY <1>2 DEF Injection, IsInjective
<1>5. f \in Surjection(keys, places)
  <2> HIDE DEF f, places
  <2> QED BY <1>3, <1>4, FS_Injection
<1>6. i - 1 \in places
  BY <1>1
<1> QED BY <1>5, <1>6 DEF Surjection

\* Keys in order are the keys that were put in order, and none of no keys.
LEMMA InOrderOfKeys ==
    ASSUME NEW keys, IsFiniteSet(keys), InOneOrder(keys)
    PROVE  /\ \A i \in DOMAIN InOrder(keys) : InOrder(keys)[i] \in keys
           /\ InOrder(keys) = << >> => keys = {}
<1>1. DOMAIN InOrder(keys) = 1 .. Cardinality(keys)
  BY DEF InOrder
<1>2. ASSUME NEW i \in 1 .. Cardinality(keys)
      PROVE  InOrder(keys)[i] \in keys
  <2>1. \E k \in keys : Place(keys, k) = i - 1
    BY PlacesAreTaken
  <2> QED BY <2>1 DEF InOrder
<1>3. ASSUME InOrder(keys) = << >>
      PROVE  keys = {}
  <2>1. 1 .. Cardinality(keys) = {} /\ Cardinality(keys) \in Nat
    BY <1>1, <1>3, FS_CardinalityType
  <2>2. Cardinality(keys) = 0
    BY <2>1
  <2> QED BY <2>2, FS_EmptySet
<1> QED BY <1>1, <1>2, <1>3

\* A page of some keys has one, and a bound is no reason to leave out the first.
LEMMA FirstIsAResult ==
    ASSUME NEW keys, IsFiniteSet(keys), InOneOrder(keys)
    PROVE  FirstResults(keys) \in SUBSET keys /\ (FirstResults(keys) = {} => keys = {})
<1>1. FirstResults(keys) \in SUBSET keys
  BY DEF FirstResults
<1>2. ASSUME keys # {}
      PROVE  FirstResults(keys) # {}
  <2>1. Cardinality(keys) \in Nat /\ Cardinality(keys) # 0
    BY <1>2, FS_CardinalityType, FS_EmptySet
  <2> DEFINE one == 1
  <2>2. one \in 1 .. Cardinality(keys)
    BY <2>1
  <2> HIDE DEF one
  <2>3. PICK k \in keys : Place(keys, k) = one - 1
    BY <2>2, PlacesAreTaken
  <2>4. Place(keys, k) <= MaxQueryResultCount
    BY <2>3, QueryAssumption DEF one
  <2> QED BY <2>4 DEF FirstResults
<1> QED BY <1>1, <1>2

\* What may be on a page.
Readable(store, period, excludeSNs, clock) ==
    {k \in KeysInPeriod(store, period, clock) :
        k.sn \notin excludeSNs /\ store.entries[k].tx.topic = period.topic}

\* A page holds what may be on it, and something unless there is nothing.
LEMMA PageOfReadable ==
    ASSUME NEW store, StoreOK(store), OneBulletinPerSn(store), IsFiniteSet(DOMAIN store.entries),
           NEW period, NEW excludeSNs, NEW clock
    PROVE  LET result == queryBulletins(store, period, excludeSNs, clock)
               readable == Readable(store, period, excludeSNs, clock)
           IN  /\ \A i \in DOMAIN result : result[i] \in readable
               /\ result = << >> => readable = {}
<1> DEFINE readable == Readable(store, period, excludeSNs, clock)
           first == FirstResults(readable)
<1>1. queryBulletins(store, period, excludeSNs, clock) = InOrder(first)
  <2>1. OfTopic(store, Unexcluded(KeysInPeriod(store, period, clock), excludeSNs), period.topic)
          = readable
    BY DEF OfTopic, Unexcluded, Readable
  <2> QED BY <2>1 DEF queryBulletins
<1>2. readable \in SUBSET DOMAIN store.entries
  BY DEF Readable, KeysInPeriod
<1>3. InOneOrder(readable) /\ IsFiniteSet(readable)
  <2>1. readable \subseteq MainKeys
    BY <1>2 DEF StoreOK, MapOK
  <2>2. \A a, b \in readable : a.sn = b.sn => a = b
    BY <1>2 DEF OneBulletinPerSn
  <2> HIDE DEF readable
  <2> QED BY <1>2, <2>1, <2>2, KeysAreInOrder, FS_Subset
<1> HIDE DEF readable
<1>4. first \in SUBSET readable /\ (first = {} => readable = {})
  BY <1>3, FirstIsAResult
<1> HIDE DEF first
<1>5. InOneOrder(first) /\ IsFiniteSet(first)
  BY <1>3, <1>4, OrderOfSubset, FS_Subset
<1>6. /\ \A i \in DOMAIN InOrder(first) : InOrder(first)[i] \in first
      /\ InOrder(first) = << >> => first = {}
  BY <1>5, InOrderOfKeys
<1> QED BY <1>1, <1>4, <1>6 DEF readable

-----------------------------------------------------------------------------
(* What a reader may take from the application.                             *)

\* Finitely many entries, each of a transaction that Tendermint delivered.
OfTxs(store) ==
    /\ IsFiniteSet(DOMAIN store.entries)
    /\ \A k \in DOMAIN store.entries : store.entries[k].tx \in Txs

\* A transaction sets or deletes one key.
LEMMA PutKeepsOfTxs ==
    ASSUME NEW store, StoreOK(store), OfTxs(store), NEW tx \in Txs, NEW sn, NEW clock,
           NEW accepted
    PROVE  OfTxs(putGanyTx(store, tx, sn, clock, accepted).store)
<1> DEFINE put == putGanyTx(store, tx, sn, clock, accepted)
           new == put.store.entries
           old == store.entries
<1>1. \E key : /\ DOMAIN new \subseteq DOMAIN old \cup {key}
               /\ \A k \in DOMAIN new : (k \in DOMAIN old /\ new[k] = old[k]) \/ new[k].tx = tx
  <2>1. CASE tx.oldSn = NoSn
    <3>1. put = createGanyTx(store, tx, sn, clock, accepted)
      BY <2>1 DEF putGanyTx
    <3>2. \/ put.store = store
          \/ put.store = CreateWrites(store, tx, sn, clock, accepted)
      BY <3>1 DEF createGanyTx
    <3>3. CASE put.store = store
      BY <3>3
    <3>4. CASE put.store = CreateWrites(store, tx, sn, clock, accepted)
      <4>1. /\ DOMAIN new \subseteq DOMAIN old \cup {MainKey(tx, sn)}
            /\ \A k \in DOMAIN new : (k \in DOMAIN old /\ new[k] = old[k]) \/ new[k].tx = tx
        BY <3>4 DEF CreateWrites, Put
      <4> QED BY <4>1
    <3> QED BY <3>2, <3>3, <3>4
  <2>2. CASE tx.oldSn # NoSn
    <3>1. put = overwriteBulletin(store, tx, clock, accepted)
      BY <2>2 DEF putGanyTx
    <3>2. /\ DOMAIN new \subseteq DOMAIN old \cup {MainKey(tx, tx.oldSn)}
          /\ \A k \in DOMAIN new : (k \in DOMAIN old /\ new[k] = old[k]) \/ new[k].tx = tx
      BY <3>1 DEF overwriteBulletin, Put, Delete, Restrict, NextVersion, StoreOK
    <3> QED BY <3>2
  <2> QED BY <2>1, <2>2
<1>2. PICK key : /\ DOMAIN new \subseteq DOMAIN old \cup {key}
                 /\ \A k \in DOMAIN new :
                      (k \in DOMAIN old /\ new[k] = old[k]) \/ new[k].tx = tx
  BY <1>1
<1> HIDE DEF new
<1>3. IsFiniteSet(DOMAIN new)
  <2>1. IsFiniteSet(DOMAIN old \cup {key})
    BY FS_AddElement DEF OfTxs
  <2>2. DOMAIN new \in SUBSET (DOMAIN old \cup {key})
    BY <1>2
  <2> HIDE DEF old
  <2> QED BY <2>1, <2>2, FS_Subset
<1>4. \A k \in DOMAIN new : new[k].tx \in Txs
  BY <1>2 DEF OfTxs
<1> QED BY <1>3, <1>4 DEF OfTxs, new

\* What is stored was delivered.
LEMMA OfTxsInvariant == Spec => [](OfTxs(batch) /\ OfTxs(committed))
<1> DEFINE Inv == OfTxs(batch) /\ OfTxs(committed)
<1>1. Init => Inv
  <2>1. OfTxs(EmptyStore)
    BY FS_EmptySet DEF OfTxs, EmptyStore, EmptyMap
  <2> QED BY <2>1 DEF Init
<1>2. TypeOK /\ Inv /\ [Next]_vars => Inv'
  <2> SUFFICES ASSUME TypeOK, Inv, [Next]_vars
               PROVE  Inv'
    OBVIOUS
  <2>1. ASSUME NEW tx \in Txs, DeliverTx(tx)
        PROVE  Inv'
    <3>1. PICK accepted : batch' = putGanyTx(batch, tx, CurrentSn, now, accepted).store
      BY <2>1 DEF DeliverTx, Deliver
    <3>2. OfTxs(putGanyTx(batch, tx, CurrentSn, now, accepted).store)
      BY PutKeepsOfTxs DEF TypeOK
    <3>3. committed' = committed
      BY <2>1 DEF DeliverTx, Deliver
    <3> QED BY <3>1, <3>2, <3>3
  <2>2. CASE Tick \/ BeginBlock \/ DeliverInvalidTx \/ Commit \/ UNCHANGED vars
    <3>1. batch' \in {batch, committed} /\ committed' \in {batch, committed}
      BY <2>2 DEF Tick, BeginBlock, DeliverInvalidTx, Commit, vars
    <3> QED BY <3>1
  <2> QED BY <2>1, <2>2 DEF Next
<1> QED BY <1>1, <1>2, TypeCorrect, PTL DEF Spec

\* What those outside rely on of the application.
AppFacts ==
    /\ TypeOK /\ SnInv /\ LineageInv /\ KeyIsItsBulletins
    /\ OfTxs(batch) /\ OfTxs(committed)

\* The application does what it does, read or not.
LEMMA ReadersChangeNothing ==
    ASSUME MinBlockGap >= 1, MaxBlockTxs <= TxnLimit
    PROVE  QSpec => []AppFacts
<1>1. QInit => Init
  BY DEF QInit
<1>2. [QNext]_qvars => [Next]_vars
  BY DEF QNext, StartReading, ReadPage, StopReading, qvars
<1>3. QSpec => Spec
  BY <1>1, <1>2, PTL DEF QSpec, Spec
<1>4. Spec => [](TypeOK /\ SnInv /\ LineageInv /\ KeyIsItsBulletins
                 /\ OfTxs(batch) /\ OfTxs(committed))
  BY TypeCorrect, SnInvInvariant, LineageInvInvariant, HistoriesKept, OfTxsInvariant, PTL
<1> QED BY <1>3, <1>4, PTL DEF AppFacts

-----------------------------------------------------------------------------
(* What is owed to a reader.                                                *)

\* A main key lies in a period.
KeyIsIn(k, period) ==
    /\ k.head[1] = period.type
    /\ k.head[2] = Prefix[period.topic]
    /\ k.head[3] \in Low5(period.startTime) .. Low5(period.endTime)

\* A bulletin that is owed was committed before the current block, nothing else has or
\* gets its serial number, and while it is stored it is of the period.
OwedOK(k, period) ==
    /\ k \in MainKeys
    /\ k.sn \notin got
    /\ phase = "block" => k.sn[1] < blockTime
    /\ phase = "idle" => k.sn[1] <= blockTime
    /\ \A j \in DOMAIN committed.entries : j.sn = k.sn => j = k
    /\ KeyIsIn(k, period)
    /\ k \in DOMAIN committed.entries => committed.entries[k].tx.topic = period.topic

\* One period is read at a time, and all that is owed is as it should be.
ReaderInv ==
    /\ asked \subseteq Periods
    /\ \A p, q \in asked : p = q
    /\ asked = {} => got = {} /\ owed = {}
    /\ \A period \in asked, k \in owed : OwedOK(k, period)

\* Times that five bytes hold.
TimesFit ==
    /\ \A tx \in Txs : tx.timestamp < TimeWidth
    /\ \A period \in Periods :
        period.startTime \in 0 .. TimeWidth - 1 /\ period.endTime \in 0 .. TimeWidth - 1

\* Low5 keeps times that fit.
LEMMA FittingTimes ==
    ASSUME NEW t \in 0 .. TimeWidth - 1
    PROVE  Low5(t) = t
BY StoreAssumption DEF Low5

\* Where times fit, a stored bulletin lies in a period if its key does.
LEMMA KeyTellsPeriod ==
    ASSUME TimesFit, AppFacts, NEW period \in Periods, NEW k \in DOMAIN committed.entries
    PROVE  LET tx == committed.entries[k].tx
           IN  /\ tx \in Txs
               /\ tx.topic = period.topic =>
                    (KeyIsIn(k, period) <=> /\ tx.type = period.type
                                            /\ tx.timestamp \in period.startTime .. period.endTime)
<1> DEFINE tx == committed.entries[k].tx
<1>1. tx \in Txs /\ MainKey(tx, k.sn) = k
  BY DEF AppFacts, OfTxs, KeyIsItsBulletins, KeysFollowBulletins
<1>2. k.head = <<tx.type, Prefix[tx.topic], Low5(tx.timestamp)>>
  BY <1>1 DEF MainKey, getMainKeyHead
<1>3. tx.timestamp \in 0 .. TimeWidth - 1
  BY <1>1, AppAssumption, StoreAssumption DEF TimesFit, GanyTx
<1>4. /\ Low5(tx.timestamp) = tx.timestamp
      /\ Low5(period.startTime) = period.startTime
      /\ Low5(period.endTime) = period.endTime
  BY <1>3, FittingTimes DEF TimesFit
<1> HIDE DEF tx
<1>5. tx.topic = period.topic =>
        (KeyIsIn(k, period) <=> /\ tx.type = period.type
                                /\ tx.timestamp \in period.startTime .. period.endTime)
  BY <1>2, <1>4 DEF KeyIsIn
<1> QED BY <1>1, <1>5 DEF tx

\* A step of the application leaves what is owed owed.
LEMMA OwedStaysOwed ==
    ASSUME MinBlockGap >= 1, AppFacts, Next, got' = got,
           NEW k, NEW period, OwedOK(k, period)
    PROVE  OwedOK(k, period)'
<1>1. k \in MainKeys /\ k.sn[1] \in Nat /\ k.sn \notin got' /\ KeyIsIn(k, period)
  BY DEF OwedOK, MainKeys, Sn
<1>2. CASE Tick \/ DeliverInvalidTx \/ \E tx \in Txs : DeliverTx(tx)
  <2>1. phase' = phase /\ blockTime' = blockTime /\ committed' = committed
    BY <1>2 DEF Tick, DeliverInvalidTx, DeliverTx, Deliver
  <2> QED BY <1>1, <2>1 DEF OwedOK, KeyIsIn
<1>3. CASE BeginBlock
  <2>1. /\ phase = "idle" /\ phase' = "block" /\ committed' = committed
        /\ blockTime' \in Nat /\ blockTime' > blockTime
    BY <1>3, AppAssumption DEF BeginBlock, AppFacts, TypeOK
  <2>2. k.sn[1] < blockTime'
    BY <1>1, <2>1 DEF OwedOK, AppFacts, TypeOK
  <2> QED BY <1>1, <2>1, <2>2 DEF OwedOK, KeyIsIn
<1>4. CASE Commit
  <2>1. /\ phase = "block" /\ phase' = "idle" /\ blockTime' = blockTime
        /\ committed' \in {batch, committed}
    BY <1>4 DEF Commit
  <2>2. k.sn[1] < blockTime /\ blockTime \in Nat
    BY <2>1 DEF OwedOK, AppFacts, TypeOK
  <2>3. ASSUME NEW j \in DOMAIN batch.entries, j.sn = k.sn
        PROVE  /\ j = k
               /\ batch.entries[j].tx.topic = period.topic
    <3>1. j.sn[1] # blockTime
      BY <1>1, <2>2, <2>3
    <3>2. j \in DOMAIN committed.entries /\ j = k
      BY <2>1, <2>3, <3>1 DEF AppFacts, LineageInv, OwedOK
    <3>3. SameBulletin(committed.entries[j], batch.entries[j])
      BY <2>1, <2>3, <3>2 DEF AppFacts, LineageInv
    <3> QED BY <3>2, <3>3 DEF OwedOK, SameBulletin, SameOrigin
  <2>4. CASE committed' = batch
    BY <1>1, <2>1, <2>2, <2>3, <2>4 DEF OwedOK, KeyIsIn
  <2>5. CASE committed' = committed
    BY <1>1, <2>1, <2>2, <2>5 DEF OwedOK, KeyIsIn
  <2> QED BY <2>1, <2>4, <2>5
<1> QED BY <1>2, <1>3, <1>4 DEF Next

\* What a page holds, of the one period that is read.
LEMMA PageRead ==
    ASSUME AppFacts, ReaderInv, NEW period \in asked
    PROVE  LET result == queryBulletins(committed, period, got, now)
               readable == Readable(committed, period, got, now)
           IN  /\ \A i \in DOMAIN result : result[i] \in readable
               /\ result = << >> => readable = {}
BY PageOfReadable DEF AppFacts, TypeOK, OfTxs, SnInv, SnNamesOneBulletin

\* The reader's invariant.
LEMMA ReaderInvariant ==
    ASSUME MinBlockGap >= 1, MaxBlockTxs <= TxnLimit, TimesFit
    PROVE  QSpec => []ReaderInv
<1>1. QInit => ReaderInv
  BY DEF QInit, ReaderInv
<1>2. AppFacts /\ ReaderInv /\ [QNext]_qvars => ReaderInv'
  <2> SUFFICES ASSUME AppFacts, ReaderInv, [QNext]_qvars
               PROVE  ReaderInv'
    OBVIOUS
  <2>1. CASE Next /\ UNCHANGED readerVars
    <3>1. asked' = asked /\ got' = got /\ owed' = owed
      BY <2>1 DEF readerVars
    <3>2. ASSUME NEW period \in asked, NEW k \in owed
          PROVE  OwedOK(k, period)'
      BY <2>1, <3>1, <3>2, OwedStaysOwed DEF ReaderInv
    <3> QED BY <3>1, <3>2 DEF ReaderInv, OwedOK
  <2>2. CASE StartReading
    <3>1. /\ asked = {} /\ got = {} /\ got' = got
          /\ phase' = phase /\ blockTime' = blockTime /\ committed' = committed
      BY <2>2 DEF StartReading, ReaderInv, vars
    <3>2. PICK period \in Periods :
            asked' = {period} /\ owed' = Wanted(committed, period, now)
      BY <2>2 DEF StartReading
    <3>3. ASSUME NEW k \in owed'
          PROVE  OwedOK(k, period)'
      <4>1. k \in DOMAIN committed.entries /\ committed.entries[k].tx.topic = period.topic
        BY <3>2, <3>3 DEF Wanted
      <4>2. KeyIsIn(k, period)
        BY <3>2, <3>3, <4>1, KeyTellsPeriod DEF Wanted
      <4>3. /\ k \in MainKeys
            /\ phase = "block" => k.sn[1] < blockTime
            /\ phase = "idle" => k.sn[1] <= blockTime
            /\ \A j \in DOMAIN committed.entries : j.sn = k.sn => j = k
        BY <4>1 DEF AppFacts, TypeOK, StoreOK, MapOK, SnInv, SnNamesOneBulletin,
                    OneBulletinPerSn
      <4> QED BY <3>1, <4>1, <4>2, <4>3 DEF OwedOK, KeyIsIn
    <3> QED BY <3>2, <3>3 DEF ReaderInv, OwedOK
  <2>3. CASE ReadPage
    <3>1. /\ asked' = asked
          /\ phase' = phase /\ blockTime' = blockTime /\ committed' = committed
          /\ got' = got \cup {page'[i].sn : i \in DOMAIN page'}
          /\ owed' = owed \ {page'[i] : i \in DOMAIN page'}
      BY <2>3 DEF ReadPage, vars
    <3>2. PICK period \in asked : page' = queryBulletins(committed, period, got, now)
      BY <2>3 DEF ReadPage
    <3>3. \A i \in DOMAIN page' : page'[i] \in DOMAIN committed.entries
      BY <3>2, PageRead DEF Readable, KeysInPeriod
    <3>4. ASSUME NEW q \in asked, NEW k \in owed'
          PROVE  OwedOK(k, q)'
      <4>1. OwedOK(k, q) /\ \A i \in DOMAIN page' : page'[i] # k
        BY <3>1, <3>4 DEF ReaderInv
      <4>2. k.sn \notin got'
        BY <3>1, <3>3, <4>1 DEF OwedOK
      <4> QED BY <3>1, <4>1, <4>2 DEF OwedOK, KeyIsIn
    <3>5. asked' # {}
      BY <3>1, <3>2
    <3> QED BY <3>1, <3>4, <3>5 DEF ReaderInv, OwedOK
  <2>4. CASE StopReading
    BY <2>4 DEF StopReading, ReaderInv
  <2>5. CASE UNCHANGED qvars
    BY <2>5 DEF qvars, vars, ReaderInv, OwedOK, KeyIsIn
  <2> QED BY <2>1, <2>2, <2>3, <2>4, <2>5 DEF QNext
<1> QED BY <1>1, <1>2, ReadersChangeNothing, PTL DEF QSpec

\* A reader gets what it asks for (app.go:563-566), though truncated hashes of two
\* topics meet, where five bytes hold the times.
THEOREM PagesHoldWhatIsWanted ==
    ASSUME MinBlockGap >= 1, MaxBlockTxs <= TxnLimit, TimesFit
    PROVE  QSpec => PageIsWanted
<1> DEFINE Step == ReadPage => \A period \in asked, i \in DOMAIN page' :
                     page'[i] \in Wanted(committed, period, now)
<1>1. AppFacts /\ ReaderInv /\ [QNext]_qvars => [Step]_qvars
  <2> SUFFICES ASSUME AppFacts, ReaderInv, ReadPage, NEW period \in asked,
                      NEW i \in DOMAIN page'
               PROVE  page'[i] \in Wanted(committed, period, now)
    OBVIOUS
  <2>1. page' = queryBulletins(committed, period, got, now)
    BY DEF ReadPage, ReaderInv
  <2>2. page'[i] \in Readable(committed, period, got, now)
    BY <2>1, PageRead
  <2>3. /\ page'[i] \in DOMAIN committed.entries /\ Live(committed.entries[page'[i]], now)
        /\ KeyIsIn(page'[i], period)
        /\ committed.entries[page'[i]].tx.topic = period.topic
    BY <2>2 DEF Readable, KeysInPeriod, KeyIsIn
  <2>4. period \in Periods
    BY DEF ReaderInv
  <2> QED BY <2>3, <2>4, KeyTellsPeriod DEF Wanted
<1> QED BY <1>1, ReadersChangeNothing, ReaderInvariant, PTL DEF QSpec, PageIsWanted

\* A reader that got an empty page has been given everything that it could have read
\* all the time (app.go:514-515).
THEOREM ReadersMissNothing ==
    ASSUME MinBlockGap >= 1, MaxBlockTxs <= TxnLimit, TimesFit
    PROVE  QSpec => ReaderMissesNothing
<1> DEFINE Step == StopReading => \A k \in owed : ~Found(committed.entries, k, now)
<1>1. AppFacts /\ ReaderInv /\ [QNext]_qvars => [Step]_qvars
  <2> SUFFICES ASSUME AppFacts, ReaderInv, StopReading, NEW k \in owed,
                      Found(committed.entries, k, now)
               PROVE  FALSE
    OBVIOUS
  <2>1. PICK period \in asked : queryBulletins(committed, period, got, now) = << >>
    BY DEF StopReading
  <2>2. Readable(committed, period, got, now) = {}
    BY <2>1, PageRead
  <2>3. OwedOK(k, period) /\ k \in DOMAIN committed.entries /\ Live(committed.entries[k], now)
    BY DEF ReaderInv, Found
  <2>4. k \in Readable(committed, period, got, now)
    BY <2>3 DEF OwedOK, KeyIsIn, Readable, KeysInPeriod
  <2> QED BY <2>2, <2>4
<1> QED BY <1>1, ReadersChangeNothing, ReaderInvariant, PTL DEF QSpec, ReaderMissesNothing
=============================================================================
