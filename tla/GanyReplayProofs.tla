--------------------------- MODULE GanyReplayProofs ---------------------------
(***************************************************************************)
(* After any crashes and replays, the database holds what executing the    *)
(* chain once would give: the proof, for every value of the constants.      *)
(***************************************************************************)
EXTENDS GanyReplay, GanyAppProofs, FiniteSetTheorems

-----------------------------------------------------------------------------
(* Executing a chain, one transaction after the other.                      *)

\* Numbers are well ordered.
LEMMA FirstNumber ==
    ASSUME NEW T \in SUBSET Nat, T # {}
    PROVE  \E n \in T : \A m \in T : n <= m
<1>1. PICK k \in T : TRUE
  OBVIOUS
<1> DEFINE U == {0 .. m : m \in {j \in T : j <= k}}
           R == StrictSubsetOrdering(0 .. k)
<1>2. IsWellFoundedOn(R, FiniteSubsetsOf(0 .. k))
  BY FS_StrictSubsetOrderingWellFounded
<1>3. U \subseteq FiniteSubsetsOf(0 .. k) /\ U # {}
  <2>1. \A m \in T : IsFiniteSet(0 .. m)
    BY FS_Interval
  <2>2. \A m \in T : m <= k => 0 .. m \subseteq 0 .. k
    BY <1>1
  <2>3. 0 .. k \in U
    BY <1>1
  <2> QED BY <2>1, <2>2, <2>3 DEF FiniteSubsetsOf
<1>4. PICK x \in U : \A y \in U : <<y, x>> \notin R
  <2> HIDE DEF U, R
  <2> QED BY <1>2, <1>3, WFMin
<1>5. PICK n \in T : n <= k /\ x = 0 .. n
  OBVIOUS
<1>6. ASSUME NEW m \in T, m < n PROVE FALSE
  <2>1. m <= k /\ 0 .. m \in U
    BY <1>1, <1>5, <1>6
  <2>2. /\ 0 .. m \in SUBSET (0 .. k) /\ 0 .. n \in SUBSET (0 .. k)
        /\ 0 .. m \subseteq 0 .. n /\ 0 .. m # 0 .. n
    BY <1>1, <1>5, <1>6, <2>1
  <2>3. <<0 .. m, 0 .. n>> \in R
    BY <2>2 DEF StrictSubsetOrdering
  <2> QED BY <1>4, <1>5, <2>1, <2>3
<1> QED BY <1>6

\* The recursion of ExecuteTxs.
TxStep(f, i, time, store, txs) ==
    IF i = 0 THEN [store |-> store, index |-> 0] ELSE ExecuteTx(time, f[i - 1], txs[i])

TxSteps(f, n, time, store, txs) == f = [i \in 0 .. n |-> TxStep(f, i, time, store, txs)]

\* The execution of a block's transactions has a result for any number of them.
LEMMA TxStepsExist ==
    ASSUME NEW n \in Nat, NEW time, NEW store, NEW txs
    PROVE  \E f : TxSteps(f, n, time, store, txs)
<1> DEFINE T == {m \in Nat : ~ \E f : TxSteps(f, m, time, store, txs)}
<1>1. SUFFICES ASSUME T # {} PROVE FALSE
  OBVIOUS
<1>2. PICK m \in T : \A j \in T : m <= j
  BY <1>1, FirstNumber
<1>3. m # 0
  <2>1. TxSteps([i \in 0 .. 0 |-> [store |-> store, index |-> 0]], 0, time, store, txs)
    BY DEF TxSteps, TxStep
  <2> QED BY <2>1
<1>4. PICK f : TxSteps(f, m - 1, time, store, txs)
  <2>1. m - 1 \in Nat /\ ~ (m <= m - 1)
    BY <1>3
  <2> QED BY <1>2, <2>1
<1> DEFINE g == [i \in 0 .. m |-> IF i < m THEN f[i] ELSE TxStep(f, m, time, store, txs)]
<1>5. ASSUME NEW i \in 0 .. m PROVE g[i] = TxStep(g, i, time, store, txs)
  <2>1. i # 0 => g[i - 1] = f[i - 1]
    BY <1>3
  <2>2. g[i] = TxStep(f, i, time, store, txs)
    <3>1. CASE i = m
      BY <3>1
    <3>2. CASE i < m
      <4>1. i \in 0 .. m - 1
        BY <3>2, <1>3
      <4> QED BY <1>4, <3>2, <4>1 DEF TxSteps
    <3> QED BY <3>1, <3>2
  <2> HIDE DEF g
  <2> QED BY <2>1, <2>2 DEF TxStep
<1>6. TxSteps(g, m, time, store, txs)
  <2>1. g = [i \in 0 .. m |-> g[i]]
    OBVIOUS
  <2> HIDE DEF g
  <2> QED BY <1>5, <2>1 DEF TxSteps
<1> QED BY <1>2, <1>6

\* Two executions of the same transactions agree as far as both go.
LEMMA TxStepsAgree ==
    ASSUME NEW m \in Nat, NEW n \in Nat, m <= n, NEW time, NEW store, NEW txs,
           NEW f, TxSteps(f, m, time, store, txs), NEW g, TxSteps(g, n, time, store, txs)
    PROVE  f[m] = g[m]
<1> DEFINE T == {i \in Nat : i <= m /\ f[i] # g[i]}
<1>1. SUFFICES ASSUME T # {} PROVE FALSE
  OBVIOUS
<1>2. PICK i \in T : \A j \in T : i <= j
  BY <1>1, FirstNumber
<1>3. i \in 0 .. m /\ i \in 0 .. n
  OBVIOUS
<1>4. f[i] = TxStep(f, i, time, store, txs) /\ g[i] = TxStep(g, i, time, store, txs)
  BY <1>3 DEF TxSteps
<1>5. i # 0 => f[i - 1] = g[i - 1]
  <2>1. ASSUME i # 0 PROVE i - 1 \in 0 .. m /\ ~ (i <= i - 1)
    BY <1>3, <2>1
  <2> QED BY <1>2, <2>1
<1> QED BY <1>2, <1>4, <1>5 DEF TxStep

\* One transaction after the other.
LEMMA ExecuteTxsSteps ==
    ASSUME NEW time, NEW store, NEW txs
    PROVE  /\ ExecuteTxs(time, store, txs, 0) = [store |-> store, index |-> 0]
           /\ \A n \in Nat \ {0} :
                 ExecuteTxs(time, store, txs, n)
                   = ExecuteTx(time, ExecuteTxs(time, store, txs, n - 1), txs[n])
<1> DEFINE F(n) == CHOOSE f : TxSteps(f, n, time, store, txs)
<1>1. \A n \in Nat : TxSteps(F(n), n, time, store, txs)
  BY TxStepsExist
<1>2. \A n \in Nat : ExecuteTxs(time, store, txs, n) = F(n)[n]
  BY DEF ExecuteTxs, TxSteps, TxStep
<1>3. \A n \in Nat : F(n)[n] = TxStep(F(n), n, time, store, txs)
  <2> HIDE DEF F
  <2> SUFFICES ASSUME NEW n \in Nat PROVE F(n)[n] = TxStep(F(n), n, time, store, txs)
    OBVIOUS
  <2>1. n \in 0 .. n
    OBVIOUS
  <2> QED BY <1>1, <2>1 DEF TxSteps
<1>4. \A n \in Nat \ {0} : F(n - 1)[n - 1] = F(n)[n - 1]
  <2> HIDE DEF F
  <2> SUFFICES ASSUME NEW n \in Nat \ {0} PROVE F(n - 1)[n - 1] = F(n)[n - 1]
    OBVIOUS
  <2>1. n - 1 \in Nat /\ n \in Nat /\ n - 1 <= n
    OBVIOUS
  <2>2. TxSteps(F(n - 1), n - 1, time, store, txs) /\ TxSteps(F(n), n, time, store, txs)
    BY <1>1, <2>1
  <2> QED BY <2>1, <2>2, TxStepsAgree
<1> HIDE DEF F
<1> QED BY <1>2, <1>3, <1>4 DEF TxStep

\* The recursion of Execute.
BlockStep(f, i, blocks) ==
    IF i = 0 THEN EmptyStore ELSE ExecuteBlock(f[i - 1], blocks[i])

BlockSteps(f, n, blocks) == f = [i \in 0 .. n |-> BlockStep(f, i, blocks)]

\* The execution of blocks has a result for any number of them.
LEMMA BlockStepsExist ==
    ASSUME NEW n \in Nat, NEW blocks
    PROVE  \E f : BlockSteps(f, n, blocks)
<1> DEFINE T == {m \in Nat : ~ \E f : BlockSteps(f, m, blocks)}
<1>1. SUFFICES ASSUME T # {} PROVE FALSE
  OBVIOUS
<1>2. PICK m \in T : \A j \in T : m <= j
  BY <1>1, FirstNumber
<1>3. m # 0
  <2>1. BlockSteps([i \in 0 .. 0 |-> EmptyStore], 0, blocks)
    BY DEF BlockSteps, BlockStep
  <2> QED BY <2>1
<1>4. PICK f : BlockSteps(f, m - 1, blocks)
  <2>1. m - 1 \in Nat /\ ~ (m <= m - 1)
    BY <1>3
  <2> QED BY <1>2, <2>1
<1> DEFINE g == [i \in 0 .. m |-> IF i < m THEN f[i] ELSE BlockStep(f, m, blocks)]
<1>5. ASSUME NEW i \in 0 .. m PROVE g[i] = BlockStep(g, i, blocks)
  <2>1. i # 0 => g[i - 1] = f[i - 1]
    BY <1>3
  <2>2. g[i] = BlockStep(f, i, blocks)
    <3>1. CASE i = m
      BY <3>1
    <3>2. CASE i < m
      <4>1. i \in 0 .. m - 1
        BY <3>2, <1>3
      <4> QED BY <1>4, <3>2, <4>1 DEF BlockSteps
    <3> QED BY <3>1, <3>2
  <2> HIDE DEF g
  <2> QED BY <2>1, <2>2 DEF BlockStep
<1>6. BlockSteps(g, m, blocks)
  <2>1. g = [i \in 0 .. m |-> g[i]]
    OBVIOUS
  <2> HIDE DEF g
  <2> QED BY <1>5, <2>1 DEF BlockSteps
<1> QED BY <1>2, <1>6

\* Two executions of the same blocks agree as far as both go.
LEMMA BlockStepsAgree ==
    ASSUME NEW m \in Nat, NEW n \in Nat, m <= n, NEW blocks,
           NEW f, BlockSteps(f, m, blocks), NEW g, BlockSteps(g, n, blocks)
    PROVE  f[m] = g[m]
<1> DEFINE T == {i \in Nat : i <= m /\ f[i] # g[i]}
<1>1. SUFFICES ASSUME T # {} PROVE FALSE
  OBVIOUS
<1>2. PICK i \in T : \A j \in T : i <= j
  BY <1>1, FirstNumber
<1>3. i \in 0 .. m /\ i \in 0 .. n
  OBVIOUS
<1>4. f[i] = BlockStep(f, i, blocks) /\ g[i] = BlockStep(g, i, blocks)
  BY <1>3 DEF BlockSteps
<1>5. i # 0 => f[i - 1] = g[i - 1]
  <2>1. ASSUME i # 0 PROVE i - 1 \in 0 .. m /\ ~ (i <= i - 1)
    BY <1>3, <2>1
  <2> QED BY <1>2, <2>1
<1> QED BY <1>2, <1>4, <1>5 DEF BlockStep

\* One block after the other.
LEMMA ExecuteSteps ==
    ASSUME NEW blocks
    PROVE  /\ Execute(blocks, 0) = EmptyStore
           /\ \A n \in Nat \ {0} :
                 Execute(blocks, n) = ExecuteBlock(Execute(blocks, n - 1), blocks[n])
<1> DEFINE F(n) == CHOOSE f : BlockSteps(f, n, blocks)
<1>1. \A n \in Nat : BlockSteps(F(n), n, blocks)
  BY BlockStepsExist
<1>2. \A n \in Nat : Execute(blocks, n) = F(n)[n]
  BY DEF Execute, BlockSteps, BlockStep
<1>3. \A n \in Nat : F(n)[n] = BlockStep(F(n), n, blocks)
  <2> HIDE DEF F
  <2> SUFFICES ASSUME NEW n \in Nat PROVE F(n)[n] = BlockStep(F(n), n, blocks)
    OBVIOUS
  <2>1. n \in 0 .. n
    OBVIOUS
  <2> QED BY <1>1, <2>1 DEF BlockSteps
<1>4. \A n \in Nat \ {0} : F(n - 1)[n - 1] = F(n)[n - 1]
  <2> HIDE DEF F
  <2> SUFFICES ASSUME NEW n \in Nat \ {0} PROVE F(n - 1)[n - 1] = F(n)[n - 1]
    OBVIOUS
  <2>1. n - 1 \in Nat /\ n \in Nat /\ n - 1 <= n
    OBVIOUS
  <2>2. BlockSteps(F(n - 1), n - 1, blocks) /\ BlockSteps(F(n), n, blocks)
    BY <1>1, <2>1
  <2> QED BY <2>1, <2>2, BlockStepsAgree
<1> HIDE DEF F
<1> QED BY <1>2, <1>3, <1>4 DEF BlockStep

\* What the first n transactions of block h give, after the blocks before it.
Reached(blocks, h, n) ==
    ExecuteTxs(blocks[h].time, Execute(blocks, h - 1), blocks[h].txs, n)

\* The stores reached block by block, and from the beginning of a block to its end.
LEMMA ReachedBlocks ==
    ASSUME NEW blocks
    PROVE  /\ Execute(blocks, 0) = EmptyStore
           /\ \A h \in Nat \ {0} :
                 Execute(blocks, h) = Reached(blocks, h, Len(blocks[h].txs)).store
BY ExecuteSteps DEF Reached, ExecuteBlock

\* A block starts from what the blocks before it gave.
LEMMA ReachedStart ==
    ASSUME NEW blocks, NEW h
    PROVE  Reached(blocks, h, 0) = [store |-> Execute(blocks, h - 1), index |-> 0]
BY ExecuteTxsSteps DEF Reached

\* A new block changes nothing of what those before it gave.
LEMMA ReachedInLongerChain ==
    ASSUME NEW blocks, NEW more, Len(blocks) \in Nat,
           \A h \in 1 .. Len(blocks) : more[h] = blocks[h]
    PROVE  /\ \A h \in 0 .. Len(blocks) : Execute(more, h) = Execute(blocks, h)
           /\ \A h \in 1 .. Len(blocks) : \A n : Reached(more, h, n) = Reached(blocks, h, n)
           /\ Reached(more, Len(blocks) + 1, 0) = [store |-> Execute(blocks, Len(blocks)), index |-> 0]
<1> DEFINE T == {h \in Nat : h <= Len(blocks) /\ Execute(more, h) # Execute(blocks, h)}
<1>1. T = {}
  <2> SUFFICES ASSUME T # {} PROVE FALSE
    OBVIOUS
  <2>1. PICK h \in T : \A j \in T : h <= j
    BY FirstNumber
  <2>2. h # 0
    BY ReachedBlocks
  <2>3. h \in Nat \ {0} /\ h - 1 \in Nat /\ h - 1 <= Len(blocks) /\ ~ (h <= h - 1)
    BY <2>2
  <2>4. Execute(more, h - 1) = Execute(blocks, h - 1)
    BY <2>1, <2>3
  <2>5. more[h] = blocks[h]
    BY <2>3
  <2> QED BY <2>3, <2>4, <2>5, ExecuteSteps
<1>2. \A h \in 0 .. Len(blocks) : Execute(more, h) = Execute(blocks, h)
  BY <1>1
<1>3. \A h \in 1 .. Len(blocks) : \A n : Reached(more, h, n) = Reached(blocks, h, n)
  <2> SUFFICES ASSUME NEW h \in 1 .. Len(blocks), NEW n
               PROVE  Reached(more, h, n) = Reached(blocks, h, n)
    OBVIOUS
  <2>1. h - 1 \in 0 .. Len(blocks)
    OBVIOUS
  <2> QED BY <1>2, <2>1 DEF Reached
<1>4. Reached(more, Len(blocks) + 1, 0) = [store |-> Execute(blocks, Len(blocks)), index |-> 0]
  <2>1. Len(blocks) + 1 - 1 = Len(blocks) /\ Len(blocks) \in 0 .. Len(blocks)
    OBVIOUS
  <2> QED BY <1>2, <2>1, ReachedStart
<1> QED BY <1>2, <1>3, <1>4

-----------------------------------------------------------------------------
(* One transaction, on two stores that agree.                               *)

\* The creation of a bulletin, by a transaction that is accepted in a block at `time`.
Creates(tx, time) == tx.oldSn = NoSn /\ tx.content # NoContent /\ ~TooLongAgo(tx, time)

FirstVersion(tx, clock) ==
    [ids |-> <<GetBulletinID(tx)>>, tx |-> tx,
     expireAt |-> ExpiresAt(toValidTTL(tx.duration, clock), clock)]

\* A transaction in a batch that has room.
Put3(store, tx, sn, clock) == putGanyTx(store, tx, sn, clock, CreateWriteCount)

\* An error, or a bulletin without content, writes nothing.
LEMMA NothingPut ==
    ASSUME NEW store, NEW tx, NEW sn, NEW clock,
           \/ Put3(store, tx, sn, clock).code # OK
           \/ tx.oldSn = NoSn /\ ~Creates(tx, sn[1])
    PROVE  Put3(store, tx, sn, clock).store = store
<1>1. CASE Put3(store, tx, sn, clock).code # OK
  BY <1>1, RefusedPutsNothing DEF Put3
<1>2. CASE tx.oldSn = NoSn /\ ~Creates(tx, sn[1])
  BY <1>2 DEF Put3, putGanyTx, createGanyTx, Creates
<1> QED BY <1>1, <1>2

\* A creation.
LEMMA CreationPut ==
    ASSUME NEW store, NEW tx, NEW sn, NEW clock, Creates(tx, sn[1])
    PROVE  /\ Put3(store, tx, sn, clock).code = OK
           /\ Put3(store, tx, sn, clock).store.entries
                = Put(store.entries, MainKey(tx, sn), FirstVersion(tx, clock))
<1>1. Put3(store, tx, sn, clock) = createGanyTx(store, tx, sn, clock, CreateWriteCount)
  BY DEF Put3, putGanyTx, Creates
<1>2. /\ Put3(store, tx, sn, clock).code = OK
      /\ Put3(store, tx, sn, clock).store = CreateWrites(store, tx, sn, clock, CreateWriteCount)
  BY <1>1 DEF createGanyTx, Creates
<1> QED BY <1>2 DEF CreateWrites, FirstVersion, CreateWriteCount

\* A deletion or a new version.
LEMMA OverwritePut ==
    ASSUME NEW store, StoreOK(store), NEW tx, NEW sn, NEW clock,
           Put3(store, tx, sn, clock).code = OK, tx.oldSn # NoSn
    PROVE  /\ MainKey(tx, tx.oldSn) \in DOMAIN store.entries
           /\ tx.content = NoContent =>
                 Put3(store, tx, sn, clock).store.entries
                   = Delete(store.entries, MainKey(tx, tx.oldSn))
           /\ tx.content # NoContent =>
                 Put3(store, tx, sn, clock).store.entries
                   = Put(store.entries, MainKey(tx, tx.oldSn),
                         NextVersion(store.entries[MainKey(tx, tx.oldSn)], tx, clock))
<1> DEFINE key == MainKey(tx, tx.oldSn)
           put == Put3(store, tx, sn, clock)
<1>1. put = overwriteBulletin(store, tx, clock, CreateWriteCount)
  BY DEF Put3, putGanyTx
<1>2. OverwriteError(store, tx, clock) = OK
  BY <1>1 DEF overwriteBulletin
<1>3. key \in DOMAIN store.entries
  BY <1>2 DEF OverwriteError, Found, ErrorOther, OK
<1>4. put.store = [store EXCEPT !.entries =
            IF tx.content = NoContent THEN Delete(store.entries, key)
            ELSE Put(store.entries, key, NextVersion(store.entries[key], tx, clock))]
  BY <1>1, <1>2 DEF overwriteBulletin, CreateWriteCount, StoreOK
<1> QED BY <1>3, <1>4 DEF StoreOK

SameEntry(e1, e2) == e1.ids = e2.ids /\ e1.tx = e2.tx

\* Two stores hold the same bulletins, of those created before sn.
Agree(store1, store2, sn) ==
    \A k \in MainKeys : Before(k.sn, sn) =>
        /\ k \in DOMAIN store1.entries <=> k \in DOMAIN store2.entries
        /\ k \in DOMAIN store1.entries => SameEntry(store1.entries[k], store2.entries[k])

\* Every bulletin outlives the clock.
Alive(store, clock) == \A k \in DOMAIN store.entries : store.entries[k].expireAt > clock

\* A transaction that creates, or overwrites a bulletin from before, is answered the same.
LEMMA SameCode ==
    ASSUME NEW store1, StoreOK(store1), NEW clock1 \in Nat, Alive(store1, clock1),
           NEW store2, StoreOK(store2), NEW clock2 \in Nat, Alive(store2, clock2),
           NEW tx \in GanyTx, NEW sn \in Sn, Agree(store1, store2, sn),
           tx.oldSn = NoSn \/ Before(tx.oldSn, sn)
    PROVE  Put3(store1, tx, sn, clock1).code
             = Put3(store2, tx, sn, clock2).code
<1>1. CASE tx.oldSn = NoSn
  BY <1>1 DEF Put3, putGanyTx, createGanyTx
<1>2. CASE tx.oldSn # NoSn
  <2> DEFINE key == MainKey(tx, tx.oldSn)
  <2>1. key \in MainKeys /\ key.sn = tx.oldSn
    <3>1. tx.oldSn \in Sn
      BY <1>2 DEF GanyTx
    <3> QED BY <3>1, KeyTypes DEF MainKey
  <2>2. /\ key \in DOMAIN store1.entries <=> key \in DOMAIN store2.entries
        /\ key \in DOMAIN store1.entries => SameEntry(store1.entries[key], store2.entries[key])
    BY <1>2, <2>1 DEF Agree
  <2>3. /\ Found(store1.entries, key, clock1) <=> key \in DOMAIN store1.entries
        /\ Found(store2.entries, key, clock2) <=> key \in DOMAIN store2.entries
    BY DEF Found, Live, Alive
  <2>4. OverwriteError(store1, tx, clock1) = OverwriteError(store2, tx, clock2)
    BY <2>2, <2>3 DEF OverwriteError, SameEntry, historyContainsId
  <2>5. ASSUME NEW store, NEW clock
        PROVE  Put3(store, tx, sn, clock).code = OverwriteError(store, tx, clock)
    BY <1>2 DEF Put3, putGanyTx, overwriteBulletin, CreateWriteCount, OK
  <2> QED BY <2>4, <2>5
<1> QED BY <1>1, <1>2

\* The SN after a transaction with this code.
SnAfter(sn, code) == <<sn[1], IF code = OK THEN sn[2] + 1 ELSE sn[2]>>

\* Stores that agree do so after the transaction, and on what it creates, if one has no
\* bulletin of its SN yet, and the other at most what it created there before.
LEMMA SamePut ==
    ASSUME NEW store1, StoreOK(store1), NEW clock1 \in Nat, Alive(store1, clock1),
           NEW store2, StoreOK(store2), NEW clock2 \in Nat, Alive(store2, clock2),
           NEW tx \in GanyTx, NEW sn \in Sn, Agree(store1, store2, sn),
           tx.oldSn = NoSn \/ Before(tx.oldSn, sn),
           \A k \in DOMAIN store2.entries : k.sn # sn,
           \A k \in DOMAIN store1.entries :
              k.sn = sn => \/ Put3(store1, tx, sn, clock1).code # OK
                           \/ Creates(tx, sn[1]) /\ k = MainKey(tx, sn)
    PROVE  LET put1 == Put3(store1, tx, sn, clock1)
               put2 == Put3(store2, tx, sn, clock2)
           IN  Agree(put1.store, put2.store, SnAfter(sn, put1.code))
<1> DEFINE put1 == Put3(store1, tx, sn, clock1)
           put2 == Put3(store2, tx, sn, clock2)
           key == MainKey(tx, tx.oldSn)
<1>1. put1.code = put2.code
  BY SameCode
<1> SUFFICES ASSUME NEW k \in MainKeys, Before(k.sn, SnAfter(sn, put1.code))
             PROVE  /\ k \in DOMAIN put1.store.entries <=> k \in DOMAIN put2.store.entries
                    /\ k \in DOMAIN put1.store.entries =>
                          SameEntry(put1.store.entries[k], put2.store.entries[k])
  BY DEF Agree
<1>2. Before(k.sn, sn) \/ (put1.code = OK /\ k.sn = sn)
  <2>1. k.sn \in Nat \X Nat /\ sn \in Nat \X Nat
    BY DEF MainKeys, Sn
  <2>2. k.sn = <<k.sn[1], k.sn[2]>> /\ sn = <<sn[1], sn[2]>>
    BY <2>1
  <2> QED BY <2>1, <2>2 DEF Before, SnAfter
<1>3. MainKey(tx, sn).sn = sn /\ key.sn = tx.oldSn
  BY DEF MainKey
<1>4. Before(k.sn, sn) =>
        /\ k \in DOMAIN store1.entries <=> k \in DOMAIN store2.entries
        /\ k \in DOMAIN store1.entries => SameEntry(store1.entries[k], store2.entries[k])
  BY DEF Agree
<1>5. CASE Creates(tx, sn[1])
  <2>1. /\ put1.store.entries = Put(store1.entries, MainKey(tx, sn), FirstVersion(tx, clock1))
        /\ put2.store.entries = Put(store2.entries, MainKey(tx, sn), FirstVersion(tx, clock2))
    BY <1>5, CreationPut
  <2>2. CASE k = MainKey(tx, sn)
    BY <2>1, <2>2 DEF Put, FirstVersion, SameEntry
  <2>3. CASE k # MainKey(tx, sn)
    <3>1. /\ k \in DOMAIN store1.entries <=> k \in DOMAIN store2.entries
          /\ k \in DOMAIN store1.entries => SameEntry(store1.entries[k], store2.entries[k])
      BY <1>2, <1>4, <2>3
    <3> QED BY <2>1, <2>3, <3>1 DEF Put
  <2> QED BY <2>2, <2>3
<1>6. CASE ~ Creates(tx, sn[1])
  <2>1. /\ k \in DOMAIN store1.entries <=> k \in DOMAIN store2.entries
        /\ k \in DOMAIN store1.entries => SameEntry(store1.entries[k], store2.entries[k])
    BY <1>2, <1>4, <1>6
  <2>2. CASE put1.code # OK \/ tx.oldSn = NoSn
    <3>1. put1.store = store1 /\ put2.store = store2
      BY <1>1, <1>6, <2>2, NothingPut
    <3> QED BY <2>1, <3>1
  <2>3. CASE put1.code = OK /\ tx.oldSn # NoSn
    <3>0. put2.code = OK
      BY <1>1, <2>3
    <3>1. key \in DOMAIN store1.entries /\ key \in DOMAIN store2.entries
      BY <2>3, <3>0, OverwritePut
    <3>2. key \in MainKeys /\ Before(key.sn, sn)
      BY <1>3, <2>3, <3>1 DEF StoreOK, MapOK
    <3>3. SameEntry(store1.entries[key], store2.entries[key])
      BY <3>1, <3>2 DEF Agree
    <3>4. CASE tx.content = NoContent
      <4>1. /\ put1.store.entries = Delete(store1.entries, key)
            /\ put2.store.entries = Delete(store2.entries, key)
        BY <2>3, <3>0, <3>4, OverwritePut
      <4> QED BY <2>1, <4>1 DEF Delete, Restrict
    <3>5. CASE tx.content # NoContent
      <4>1. put1.store.entries
              = Put(store1.entries, key, NextVersion(store1.entries[key], tx, clock1))
        BY <2>3, <3>5, OverwritePut
      <4>2. put2.store.entries
              = Put(store2.entries, key, NextVersion(store2.entries[key], tx, clock2))
        BY <2>3, <3>0, <3>5, OverwritePut
      <4>3. SameEntry(NextVersion(store1.entries[key], tx, clock1),
                      NextVersion(store2.entries[key], tx, clock2))
        BY <3>3 DEF SameEntry, NextVersion
      <4> QED BY <2>1, <4>1, <4>2, <4>3 DEF Put
    <3> QED BY <3>4, <3>5
  <2> QED BY <2>2, <2>3
<1> QED BY <1>5, <1>6

-----------------------------------------------------------------------------
(* A chain executed once.                                                   *)

\* Nothing expires while the clock runs, and no Duration overflows.
NothingExpires ==
    /\ MaxNow \in 1 .. MaxTTL
    /\ \A tx \in Txs : tx.duration \in MaxNow + 1 .. DurationHalf - 1

Blocks == [time : Nat \ {0}, txs : Seq(Txs)]

\* Block times increase, and what a block overwrites was created by an earlier block.
ChainOK(blocks) ==
    /\ blocks \in Seq(Blocks)
    /\ \A h1, h2 \in 1 .. Len(blocks) : h1 < h2 => blocks[h1].time < blocks[h2].time
    /\ \A h \in 1 .. Len(blocks) : \A n \in 1 .. Len(blocks[h].txs) :
          LET oldSn == blocks[h].txs[n].oldSn
          IN  oldSn = NoSn \/ oldSn[1] < blocks[h].time

\* The time of block h, and of the genesis before the first.
TimeAt(blocks, h) == IF h = 0 THEN 0 ELSE blocks[h].time

\* What one execution gives: bulletins from before sn, none of which expires.
Sound(store, sn) ==
    /\ StoreOK(store)
    /\ Alive(store, 1)
    /\ \A k \in DOMAIN store.entries : Before(k.sn, sn)

\* What a transaction puts does not expire before the clock stops.
LEMMA PutOutlives ==
    ASSUME NothingExpires, NEW store, StoreOK(store), NEW tx \in Txs, NEW sn,
           NEW clock \in 1 .. MaxNow, NEW until \in {clock, MaxNow}, Alive(store, until)
    PROVE  Alive(Put3(store, tx, sn, clock).store, until)
<1> DEFINE new == Put3(store, tx, sn, clock).store
           expiry == ExpiresAt(toValidTTL(tx.duration, clock), clock)
<1>1. tx \in GanyTx /\ tx.duration \in Nat /\ tx.duration < DurationHalf /\ tx.duration > MaxNow
  BY AppAssumption, StoreAssumption DEF NothingExpires, GanyTx
<1>2. expiry > MaxNow
  <2>1. tx.duration - clock \in 1 .. DurationHalf - 1 /\ ~ (tx.duration <= clock)
    BY <1>1, StoreAssumption, AppAssumption
  <2>2. ToDuration(tx.duration - clock) = tx.duration - clock
    BY <2>1, StoreAssumption DEF ToDuration
  <2>3. expiry = IF tx.duration - clock > MaxTTL THEN clock + MaxTTL ELSE tx.duration
    BY <1>1, <2>1, <2>2, StoreAssumption DEF ExpiresAt, toValidTTL
  <2> QED BY <1>1, <2>3, StoreAssumption, AppAssumption DEF NothingExpires
<1>3. expiry > until
  BY <1>2, <1>1, ExpiryType, AppAssumption
<1>4. \A k \in DOMAIN new.entries :
        \/ k \in DOMAIN store.entries /\ new.entries[k] = store.entries[k]
        \/ new.entries[k].expireAt = expiry
  BY <1>1, PutSetsExpiry DEF Put3
<1> QED BY <1>3, <1>4 DEF Alive

\* A transaction in a chain that was executed once up to it.
LEMMA PutIsSound ==
    ASSUME NothingExpires, NEW store, NEW tx \in Txs, NEW sn \in Sn, Sound(store, sn)
    PROVE  LET put == Put3(store, tx, sn, 1)
           IN  Sound(put.store, SnAfter(sn, put.code))
<1> DEFINE put == Put3(store, tx, sn, 1)
<1>1. tx \in GanyTx /\ 1 \in 1 .. MaxNow
  BY AppAssumption DEF NothingExpires
<1>2. StoreOK(store) /\ Alive(store, 1)
  BY DEF Sound
<1>3. StoreOK(put.store)
  BY <1>1, <1>2, PutGanyTxType DEF Put3, CreateWriteCount
<1>4. Alive(put.store, 1)
  BY <1>1, <1>2, PutOutlives
<1>5. ASSUME NEW k \in DOMAIN put.store.entries
      PROVE  Before(k.sn, SnAfter(sn, put.code))
  <2>1. sn[1] \in Nat /\ sn[2] \in Nat
    BY DEF Sn
  <2>2. k \in DOMAIN store.entries \/ (put.code = OK /\ k = MainKey(tx, sn))
    BY <1>1, <1>2, PutAddsOneKey DEF Put3
  <2>3. Before(k.sn, sn) \/ (put.code = OK /\ k.sn = sn)
    BY <2>2 DEF Sound, MainKey
  <2>4. k.sn[2] \in Nat
    BY <1>3 DEF StoreOK, MapOK, MainKeys, Sn
  <2> QED BY <2>1, <2>3, <2>4 DEF Before, SnAfter
<1> QED BY <1>3, <1>4, <1>5 DEF Sound

\* The next transaction of block h, on what was reached before it.
LEMMA ReachedNext ==
    ASSUME NEW blocks, NEW h, NEW n \in Nat \ {0}
    PROVE  LET reached == Reached(blocks, h, n - 1)
               put == Put3(reached.store, blocks[h].txs[n], <<blocks[h].time, reached.index>>, 1)
           IN  /\ Reached(blocks, h, n).store = put.store
               /\ <<blocks[h].time, Reached(blocks, h, n).index>>
                    = SnAfter(<<blocks[h].time, reached.index>>, put.code)
<1>1. Reached(blocks, h, n)
        = ExecuteTx(blocks[h].time, Reached(blocks, h, n - 1), blocks[h].txs[n])
  BY ExecuteTxsSteps DEF Reached
<1> QED BY <1>1 DEF ExecuteTx, Put3, SnAfter

\* Within a block, what is reached is sound if the block began with a sound store.
LEMMA ReachedIsSound ==
    ASSUME NothingExpires, NEW blocks, ChainOK(blocks), NEW h \in 1 .. Len(blocks),
           Sound(Execute(blocks, h - 1), <<blocks[h].time, 0>>)
    PROVE  \A n \in 0 .. Len(blocks[h].txs) :
              /\ Reached(blocks, h, n).index \in Nat
              /\ Sound(Reached(blocks, h, n).store, <<blocks[h].time, Reached(blocks, h, n).index>>)
<1> DEFINE Good(n) ==
              /\ Reached(blocks, h, n).index \in Nat
              /\ Sound(Reached(blocks, h, n).store, <<blocks[h].time, Reached(blocks, h, n).index>>)
           T == {n \in Nat : n <= Len(blocks[h].txs) /\ ~Good(n)}
<1> SUFFICES ASSUME T # {} PROVE FALSE
  <2>1. \A n \in 0 .. Len(blocks[h].txs) : n \in Nat /\ n <= Len(blocks[h].txs)
    BY DEF ChainOK, Blocks
  <2> QED BY <2>1
<1>1. PICK n \in T : \A m \in T : n <= m
  <2> HIDE DEF T
  <2>1. T \in SUBSET Nat
    BY DEF T
  <2> QED BY <2>1, FirstNumber
<1>2. Good(0)
  <2>1. Reached(blocks, h, 0) = [store |-> Execute(blocks, h - 1), index |-> 0]
    BY ReachedStart
  <2> QED BY <2>1
<1>3. n \in Nat \ {0} /\ n - 1 \in Nat /\ n <= Len(blocks[h].txs) /\ ~ Good(n)
  BY <1>1, <1>2
<1> HIDE DEF Good
<1>4. Good(n - 1)
  <2>1. n - 1 <= Len(blocks[h].txs) /\ ~ (n <= n - 1)
    BY <1>3 DEF ChainOK, Blocks
  <2> QED BY <1>1, <1>3, <2>1
<1> DEFINE reached == Reached(blocks, h, n - 1)
           sn == <<blocks[h].time, reached.index>>
           put == Put3(reached.store, blocks[h].txs[n], sn, 1)
<1>5. reached.index \in Nat /\ Sound(reached.store, sn)
  BY <1>4 DEF Good
<1>6. blocks[h] \in Blocks /\ blocks[h].time \in Nat /\ blocks[h].txs[n] \in Txs
  <2>1. blocks[h] \in Blocks
    BY DEF ChainOK
  <2>2. blocks[h].time \in Nat /\ blocks[h].txs \in Seq(Txs)
    BY <2>1 DEF Blocks
  <2>3. n \in 1 .. Len(blocks[h].txs)
    BY <1>3, <2>2
  <2> QED BY <2>1, <2>2, <2>3
<1>7. Sound(put.store, SnAfter(sn, put.code))
  BY <1>5, <1>6, PutIsSound DEF Sn
<1>8. Reached(blocks, h, n).store = put.store
      /\ <<blocks[h].time, Reached(blocks, h, n).index>> = SnAfter(sn, put.code)
  BY <1>3, ReachedNext
<1>9. Reached(blocks, h, n).index \in Nat
  BY <1>5, <1>8 DEF SnAfter
<1>10. Good(n)
  BY <1>7, <1>8, <1>9 DEF Good
<1> QED BY <1>3, <1>10

\* What is from before one SN is from before every later one.
LEMMA SoundLater ==
    ASSUME NEW store, NEW t1 \in Nat, NEW i1 \in Nat, NEW t2 \in Nat, NEW i2 \in Nat,
           t1 < t2 \/ (t1 = t2 /\ i1 <= i2), Sound(store, <<t1, i1>>)
    PROVE  Sound(store, <<t2, i2>>)
<1> SUFFICES ASSUME NEW k \in DOMAIN store.entries PROVE Before(k.sn, <<t2, i2>>)
  BY DEF Sound
<1>1. k.sn[1] \in Nat /\ k.sn[2] \in Nat
  BY DEF Sound, StoreOK, MapOK, MainKeys, Sn
<1>2. Before(k.sn, <<t1, i1>>)
  BY DEF Sound
<1> QED BY <1>1, <1>2 DEF Before

\* The times of a chain's blocks, and what the blocks hold.
LEMMA BlockTimes ==
    ASSUME NEW blocks, ChainOK(blocks)
    PROVE  /\ Len(blocks) \in Nat
           /\ TimeAt(blocks, 0) = 0
           /\ \A h \in 0 .. Len(blocks) : TimeAt(blocks, h) \in Nat
           /\ \A h1, h2 \in 0 .. Len(blocks) : h1 < h2 => TimeAt(blocks, h1) < TimeAt(blocks, h2)
           /\ \A h \in 1 .. Len(blocks) :
                 /\ TimeAt(blocks, h) = blocks[h].time
                 /\ blocks[h].time \in Nat \ {0}
                 /\ blocks[h].txs \in Seq(Txs)
                 /\ Len(blocks[h].txs) \in Nat
<1>1. Len(blocks) \in Nat
  BY DEF ChainOK
<1>2. ASSUME NEW h \in 1 .. Len(blocks)
      PROVE  /\ h # 0
             /\ blocks[h].time \in Nat \ {0}
             /\ blocks[h].txs \in Seq(Txs)
             /\ Len(blocks[h].txs) \in Nat
  <2>1. blocks[h] \in Blocks
    BY DEF ChainOK
  <2> QED BY <2>1 DEF Blocks
<1>3. ASSUME NEW h1 \in 0 .. Len(blocks), NEW h2 \in 0 .. Len(blocks), h1 < h2
      PROVE  TimeAt(blocks, h1) < TimeAt(blocks, h2)
  <2>1. h2 \in 1 .. Len(blocks) /\ h2 # 0
    BY <1>3
  <2>2. CASE h1 = 0
    BY <1>2, <2>1, <2>2 DEF TimeAt
  <2>3. CASE h1 # 0
    <3>1. h1 \in 1 .. Len(blocks)
      BY <2>3
    <3> QED BY <1>3, <2>1, <2>3, <3>1 DEF TimeAt, ChainOK
  <2> QED BY <2>2, <2>3
<1>4. \A h \in 0 .. Len(blocks) : h = 0 \/ h \in 1 .. Len(blocks)
  BY <1>1
<1> QED BY <1>1, <1>2, <1>3, <1>4 DEF TimeAt

\* A chain executed once gives sound stores.
LEMMA ExecuteIsSound ==
    ASSUME NothingExpires, NEW blocks, ChainOK(blocks)
    PROVE  \A h \in 0 .. Len(blocks) : Sound(Execute(blocks, h), <<TimeAt(blocks, h) + 1, 0>>)
<1> DEFINE Good(h) == Sound(Execute(blocks, h), <<TimeAt(blocks, h) + 1, 0>>)
           T == {h \in Nat : h <= Len(blocks) /\ ~Good(h)}
<1> SUFFICES ASSUME T # {} PROVE FALSE
  <2>1. \A h \in 0 .. Len(blocks) : h \in Nat /\ h <= Len(blocks)
    BY BlockTimes
  <2> QED BY <2>1
<1>1. PICK h \in T : \A m \in T : h <= m
  <2> HIDE DEF T
  <2>1. T \in SUBSET Nat
    BY DEF T
  <2> QED BY <2>1, FirstNumber
<1>2. Good(0)
  <2>1. Execute(blocks, 0) = EmptyStore
    BY ReachedBlocks
  <2>2. StoreOK(EmptyStore) /\ DOMAIN EmptyStore.entries = {}
    BY DEF EmptyStore, EmptyMap, StoreOK, MapOK
  <2>3. ASSUME NEW sn PROVE Sound(EmptyStore, sn)
    BY <2>2 DEF Sound, Alive
  <2> QED BY <2>1, <2>3
<1>3. h \in Nat \ {0} /\ h - 1 \in Nat /\ h <= Len(blocks) /\ ~ Good(h)
  BY <1>1, <1>2
<1> HIDE DEF Good
<1>4. h \in 1 .. Len(blocks) /\ h - 1 \in 0 .. Len(blocks) /\ h \in 0 .. Len(blocks) /\ h - 1 < h
  BY <1>3, BlockTimes
<1>5. Good(h - 1)
  <2>1. h - 1 <= Len(blocks) /\ ~ (h <= h - 1)
    BY <1>4
  <2> QED BY <1>1, <1>3, <2>1
<1>6. /\ TimeAt(blocks, h - 1) \in Nat /\ TimeAt(blocks, h) \in Nat
      /\ TimeAt(blocks, h - 1) < TimeAt(blocks, h)
      /\ TimeAt(blocks, h) = blocks[h].time
      /\ Len(blocks[h].txs) \in 0 .. Len(blocks[h].txs)
  BY <1>4, BlockTimes
<1>7. Sound(Execute(blocks, h - 1), <<blocks[h].time, 0>>)
  <2> DEFINE before == TimeAt(blocks, h - 1) + 1
  <2>1. before \in Nat /\ (before < blocks[h].time \/ (before = blocks[h].time /\ 0 <= 0))
    BY <1>6
  <2>2. Sound(Execute(blocks, h - 1), <<before, 0>>)
    BY <1>5 DEF Good
  <2> HIDE DEF before
  <2> QED BY <1>6, <2>1, <2>2, SoundLater
<1> DEFINE reached == Reached(blocks, h, Len(blocks[h].txs))
<1>8. reached.index \in Nat /\ Sound(reached.store, <<blocks[h].time, reached.index>>)
  BY <1>4, <1>6, <1>7, ReachedIsSound
<1>9. Execute(blocks, h) = reached.store
  BY <1>3, ReachedBlocks
<1> HIDE DEF reached
<1>10. Sound(reached.store, <<blocks[h].time + 1, 0>>)
  <2>1. blocks[h].time \in Nat /\ blocks[h].time + 1 \in Nat /\ blocks[h].time < blocks[h].time + 1
    BY <1>6
  <2> QED BY <1>8, <2>1, SoundLater
<1> QED BY <1>3, <1>6, <1>9, <1>10 DEF Good

\* The stores within a block, too.
LEMMA ReachedInBlock ==
    ASSUME NothingExpires, NEW blocks, ChainOK(blocks), NEW h \in 1 .. Len(blocks),
           NEW n \in 0 .. Len(blocks[h].txs)
    PROVE  /\ Reached(blocks, h, n).index \in Nat
           /\ Sound(Reached(blocks, h, n).store, <<blocks[h].time, Reached(blocks, h, n).index>>)
<1>1. h - 1 \in 0 .. Len(blocks) /\ h \in 0 .. Len(blocks) /\ h - 1 < h
  BY BlockTimes
<1>2. /\ TimeAt(blocks, h - 1) \in Nat /\ TimeAt(blocks, h - 1) < TimeAt(blocks, h)
      /\ TimeAt(blocks, h) = blocks[h].time /\ blocks[h].time \in Nat
  BY <1>1, BlockTimes
<1> DEFINE before == TimeAt(blocks, h - 1) + 1
<1>3. before \in Nat /\ (before < blocks[h].time \/ (before = blocks[h].time /\ 0 <= 0))
  BY <1>2
<1>4. Sound(Execute(blocks, h - 1), <<before, 0>>)
  BY <1>1, ExecuteIsSound
<1> HIDE DEF before
<1>5. Sound(Execute(blocks, h - 1), <<blocks[h].time, 0>>)
  BY <1>2, <1>3, <1>4, SoundLater
<1> QED BY <1>5, ReachedIsSound

\* The index of a block never goes back.
LEMMA IndexGrows ==
    ASSUME NothingExpires, NEW blocks, ChainOK(blocks), NEW h \in 1 .. Len(blocks),
           NEW m \in 0 .. Len(blocks[h].txs), NEW n \in 0 .. Len(blocks[h].txs), m <= n
    PROVE  Reached(blocks, h, m).index <= Reached(blocks, h, n).index
<1> DEFINE I(i) == Reached(blocks, h, i).index
           T == {i \in Nat : i <= n /\ m <= i /\ ~ (I(m) <= I(i))}
<1>0. Len(blocks[h].txs) \in Nat
  BY BlockTimes
<1> SUFFICES ASSUME T # {} PROVE FALSE
  BY <1>0
<1>1. PICK i \in T : \A j \in T : i <= j
  <2> HIDE DEF T
  <2>1. T \in SUBSET Nat
    BY DEF T
  <2> QED BY <2>1, FirstNumber
<1>2. i \in Nat /\ i <= n /\ m <= i /\ ~ (I(m) <= I(i))
  BY <1>1
<1>3. \A j \in 0 .. Len(blocks[h].txs) : I(j) \in Nat
  BY ReachedInBlock
<1>4. m \in 0 .. Len(blocks[h].txs) /\ i \in 0 .. Len(blocks[h].txs)
  BY <1>0, <1>2
<1>5. i # m
  <2>1. I(m) \in Nat
    BY <1>3, <1>4
  <2> HIDE DEF I
  <2> QED BY <1>2, <2>1
<1>6. i \in Nat \ {0} /\ i - 1 \in 0 .. Len(blocks[h].txs) /\ i - 1 <= n /\ m <= i - 1 /\ i - 1 \in Nat
      /\ ~ (i <= i - 1)
  BY <1>0, <1>2, <1>4, <1>5
<1>7. I(m) <= I(i - 1)
  <2> HIDE DEF I
  <2> QED BY <1>1, <1>6
<1>8. I(i) = I(i - 1) \/ I(i) = I(i - 1) + 1
  <2>1. <<blocks[h].time, I(i)>>
          = SnAfter(<<blocks[h].time, I(i - 1)>>,
                    Put3(Reached(blocks, h, i - 1).store, blocks[h].txs[i],
                         <<blocks[h].time, I(i - 1)>>, 1).code)
    BY <1>6, ReachedNext
  <2> HIDE DEF I
  <2> QED BY <2>1 DEF SnAfter
<1>9. I(m) \in Nat /\ I(i) \in Nat /\ I(i - 1) \in Nat
  BY <1>3, <1>4, <1>6
<1> HIDE DEF I
<1> QED BY <1>2, <1>7, <1>8, <1>9

-----------------------------------------------------------------------------
(* Stores that a chain filled.                                              *)

\* The n-th transaction of block h created main key k.
CreatedBy(blocks, k, h, n) ==
    /\ Creates(blocks[h].txs[n], blocks[h].time)
    /\ k = MainKey(blocks[h].txs[n], <<blocks[h].time, Reached(blocks, h, n - 1).index>>)

\* The chain created every bulletin of the store.
Created(blocks, store) ==
    \A k \in DOMAIN store.entries :
        \E h \in 1 .. Len(blocks) : \E n \in 1 .. Len(blocks[h].txs) : CreatedBy(blocks, k, h, n)

\* The creator of a bulletin is one of the first m transactions of its block exactly if
\* the bulletin's SN was given out when they were executed.
LEMMA CreatorsPlace ==
    ASSUME NothingExpires, NEW blocks, ChainOK(blocks), NEW h \in 1 .. Len(blocks),
           NEW n \in 1 .. Len(blocks[h].txs), NEW m \in 0 .. Len(blocks[h].txs),
           NEW k, CreatedBy(blocks, k, h, n)
    PROVE  n <= m <=> Before(k.sn, <<blocks[h].time, Reached(blocks, h, m).index>>)
<1> DEFINE I(i) == Reached(blocks, h, i).index
           time == blocks[h].time
<1>1. n \in Nat \ {0} /\ n - 1 \in 0 .. Len(blocks[h].txs) /\ n \in 0 .. Len(blocks[h].txs) /\ m \in Nat
  BY BlockTimes
<1>2. k.sn = <<time, I(n - 1)>> /\ Creates(blocks[h].txs[n], time)
  BY DEF CreatedBy, MainKey
<1>3. I(m) \in Nat /\ I(n) \in Nat /\ I(n - 1) \in Nat /\ time \in Nat
  BY <1>1, ReachedInBlock, BlockTimes
<1>4. I(n) = I(n - 1) + 1
  <2>1. <<time, I(n)>>
          = SnAfter(<<time, I(n - 1)>>,
                    Put3(Reached(blocks, h, n - 1).store, blocks[h].txs[n], <<time, I(n - 1)>>, 1).code)
    BY <1>1, ReachedNext
  <2>2. Creates(blocks[h].txs[n], <<time, I(n - 1)>>[1])
    BY <1>2
  <2>3. Put3(Reached(blocks, h, n - 1).store, blocks[h].txs[n], <<time, I(n - 1)>>, 1).code = OK
    BY <2>2, CreationPut
  <2> HIDE DEF I
  <2> QED BY <2>1, <2>3 DEF SnAfter
<1>5. n <= m => I(n) <= I(m)
  BY <1>1, IndexGrows
<1>6. ~ (n <= m) => I(m) <= I(n - 1)
  <2>1. ~ (n <= m) => m <= n - 1
    BY <1>1
  <2> QED BY <1>1, <2>1, IndexGrows
<1> HIDE DEF I
<1>7. n <= m <=> Before(<<time, I(n - 1)>>, <<time, I(m)>>)
  BY <1>3, <1>4, <1>5, <1>6 DEF Before
<1> QED BY <1>2, <1>7 DEF I

\* A block is known by its time.
LEMMA OneBlockPerTime ==
    ASSUME NEW blocks, ChainOK(blocks), NEW h1 \in 1 .. Len(blocks), NEW h2 \in 1 .. Len(blocks),
           blocks[h1].time = blocks[h2].time
    PROVE  h1 = h2
<1>1. h1 \in 0 .. Len(blocks) /\ h2 \in 0 .. Len(blocks) /\ h1 \in Nat /\ h2 \in Nat
  BY BlockTimes
<1>2. \A h \in 1 .. Len(blocks) : TimeAt(blocks, h) = blocks[h].time /\ blocks[h].time \in Nat
  BY BlockTimes
<1>3. ~ (h1 < h2) /\ ~ (h2 < h1)
  BY <1>1, <1>2, BlockTimes
<1> QED BY <1>1, <1>3

\* A key that is new after a transaction was created by it.
LEMMA NewKey ==
    ASSUME NEW store, StoreOK(store), NEW tx, NEW sn, NEW clock,
           NEW k \in DOMAIN Put3(store, tx, sn, clock).store.entries
    PROVE  k \in DOMAIN store.entries \/ (Creates(tx, sn[1]) /\ k = MainKey(tx, sn))
<1> DEFINE put == Put3(store, tx, sn, clock)
           key == MainKey(tx, tx.oldSn)
<1>1. CASE Creates(tx, sn[1])
  <2>1. put.store.entries = Put(store.entries, MainKey(tx, sn), FirstVersion(tx, clock))
    BY <1>1, CreationPut
  <2>2. DOMAIN put.store.entries = DOMAIN store.entries \cup {MainKey(tx, sn)}
    BY <2>1 DEF Put
  <2> QED BY <1>1, <2>2
<1>2. CASE ~Creates(tx, sn[1]) /\ (put.code # OK \/ tx.oldSn = NoSn)
  BY <1>2, NothingPut
<1>3. CASE put.code = OK /\ tx.oldSn # NoSn
  <2>1. key \in DOMAIN store.entries
    BY <1>3, OverwritePut
  <2>2. \/ put.store.entries = Delete(store.entries, key)
        \/ put.store.entries = Put(store.entries, key, NextVersion(store.entries[key], tx, clock))
    BY <1>3, OverwritePut
  <2>3. DOMAIN put.store.entries \subseteq DOMAIN store.entries
    BY <2>1, <2>2 DEF Put, Delete, Restrict
  <2> QED BY <2>3
<1> QED BY <1>1, <1>2, <1>3

\* When the n-th transaction of a block is delivered to a store that agrees with the
\* transactions before it, the two agree on one transaction more.
LEMMA AgreeAfterTx ==
    ASSUME NothingExpires, NEW blocks, ChainOK(blocks), NEW h \in 1 .. Len(blocks),
           NEW n \in 1 .. Len(blocks[h].txs), NEW store, StoreOK(store), Created(blocks, store),
           NEW clock \in Nat, Alive(store, clock), NEW sn,
           sn = <<blocks[h].time, Reached(blocks, h, n - 1).index>>,
           Agree(store, Reached(blocks, h, n - 1).store, sn)
    PROVE  LET put == Put3(store, blocks[h].txs[n], sn, clock)
               next == <<blocks[h].time, Reached(blocks, h, n).index>>
           IN  /\ SnAfter(sn, put.code) = next
               /\ Agree(put.store, Reached(blocks, h, n).store, next)
               /\ Created(blocks, put.store)
<1> DEFINE tx == blocks[h].txs[n]
           reached == Reached(blocks, h, n - 1)
           put == Put3(store, tx, sn, clock)
           once == Put3(reached.store, tx, sn, 1)
           next == <<blocks[h].time, Reached(blocks, h, n).index>>
<1>1. /\ n \in Nat \ {0} /\ n - 1 \in 0 .. Len(blocks[h].txs) /\ n \in 0 .. Len(blocks[h].txs)
      /\ blocks[h].time \in Nat /\ blocks[h].txs \in Seq(Txs)
  BY BlockTimes
<1>2. tx \in Txs /\ tx \in GanyTx
  BY <1>1, AppAssumption
<1>3. reached.index \in Nat /\ Sound(reached.store, sn) /\ sn \in Sn /\ sn[1] = blocks[h].time
  BY <1>1, ReachedInBlock DEF Sn
<1>4. StoreOK(reached.store) /\ Alive(reached.store, 1)
  BY <1>3 DEF Sound
<1>5. tx.oldSn = NoSn \/ Before(tx.oldSn, sn)
  BY <1>3 DEF ChainOK, Before
<1>6. put.code = once.code
  BY <1>2, <1>3, <1>4, <1>5, SameCode
<1>7. Reached(blocks, h, n).store = once.store /\ next = SnAfter(sn, once.code)
  BY <1>1, ReachedNext
<1>8. \A k \in DOMAIN reached.store.entries : k.sn # sn
  <2> SUFFICES ASSUME NEW k \in DOMAIN reached.store.entries, k.sn = sn PROVE FALSE
    OBVIOUS
  <2>1. Before(sn, sn)
    BY <1>3 DEF Sound
  <2> QED BY <1>3, <2>1 DEF Before, Sn
<1>9. ASSUME NEW k \in DOMAIN store.entries, k.sn = sn, put.code = OK
      PROVE  Creates(tx, sn[1]) /\ k = MainKey(tx, sn)
  <2>1. PICK g \in 1 .. Len(blocks) : \E i \in 1 .. Len(blocks[g].txs) : CreatedBy(blocks, k, g, i)
    BY DEF Created
  <2>2. PICK i \in 1 .. Len(blocks[g].txs) : CreatedBy(blocks, k, g, i)
    BY <2>1
  <2>3. blocks[g].time = blocks[h].time
    BY <1>3, <1>9, <2>2 DEF CreatedBy, MainKey
  <2>4. g = h
    BY <2>3, OneBlockPerTime
  <2>5. i \in 1 .. Len(blocks[h].txs) /\ i \in Nat /\ CreatedBy(blocks, k, h, i)
    BY <2>2, <2>4, <1>1
  <2>6. i <= n <=> Before(k.sn, next)
    BY <1>1, <2>5, CreatorsPlace
  <2>7. i <= n - 1 <=> Before(k.sn, sn)
    BY <1>1, <2>5, CreatorsPlace
  <2>8. Before(sn, next) /\ ~Before(sn, sn)
    <3>1. sn[1] \in Nat /\ sn[2] \in Nat
      BY <1>3 DEF Sn
    <3>2. next = <<sn[1], sn[2] + 1>>
      BY <1>6, <1>7, <1>9 DEF SnAfter
    <3> HIDE DEF next
    <3>3. next[1] = sn[1] /\ next[2] = sn[2] + 1
      BY <3>2
    <3> QED BY <3>1, <3>3 DEF Before
  <2>9. i = n
    BY <1>1, <1>9, <2>5, <2>6, <2>7, <2>8
  <2> QED BY <1>3, <2>5, <2>9 DEF CreatedBy
<1>10. Agree(put.store, once.store, SnAfter(sn, put.code))
  <2>1. Agree(store, reached.store, sn)
    OBVIOUS
  <2>2. \A k \in DOMAIN store.entries :
          k.sn = sn => put.code # OK \/ (Creates(tx, sn[1]) /\ k = MainKey(tx, sn))
    BY <1>9
  <2> HIDE DEF tx, reached
  <2> QED BY <1>2, <1>3, <1>4, <1>5, <1>8, <2>1, <2>2, SamePut
<1>11. ASSUME NEW k \in DOMAIN put.store.entries
       PROVE  \E g \in 1 .. Len(blocks) : \E i \in 1 .. Len(blocks[g].txs) : CreatedBy(blocks, k, g, i)
  <2>1. CASE k \in DOMAIN store.entries
    BY <2>1 DEF Created
  <2>2. CASE Creates(tx, sn[1]) /\ k = MainKey(tx, sn)
    BY <1>3, <2>2 DEF CreatedBy
  <2> QED BY <2>1, <2>2, NewKey
<1> QED BY <1>6, <1>7, <1>10, <1>11 DEF Created

\* Agreement at the end of a block is agreement on the block: what a crash left behind
\* of it was created again or was never there.
LEMMA AgreeAtEnd ==
    ASSUME NothingExpires, NEW blocks, ChainOK(blocks), NEW h \in 1 .. Len(blocks),
           NEW store, StoreOK(store), Created(blocks, store),
           LET n == Len(blocks[h].txs)
           IN  Agree(store, Reached(blocks, h, n).store, <<blocks[h].time, Reached(blocks, h, n).index>>)
    PROVE  Agree(store, Execute(blocks, h), <<blocks[h].time + 1, 0>>)
<1> DEFINE n == Len(blocks[h].txs)
           end == <<blocks[h].time, Reached(blocks, h, n).index>>
<1>1. Execute(blocks, h) = Reached(blocks, h, n).store
  BY ReachedBlocks
<1>2. n \in 0 .. Len(blocks[h].txs) /\ blocks[h].time \in Nat
  BY BlockTimes
<1>3. Reached(blocks, h, n).index \in Nat /\ Sound(Reached(blocks, h, n).store, end)
  BY <1>2, ReachedInBlock
<1>4. ASSUME NEW k \in MainKeys, Before(k.sn, <<blocks[h].time + 1, 0>>), ~Before(k.sn, end)
      PROVE  k \notin DOMAIN store.entries
  <2> SUFFICES ASSUME k \in DOMAIN store.entries PROVE FALSE
    OBVIOUS
  <2>1. PICK g \in 1 .. Len(blocks) : \E i \in 1 .. Len(blocks[g].txs) : CreatedBy(blocks, k, g, i)
    BY DEF Created
  <2>2. PICK i \in 1 .. Len(blocks[g].txs) : CreatedBy(blocks, k, g, i)
    BY <2>1
  <2>3. k.sn[1] \in Nat /\ k.sn[2] \in Nat
    BY DEF MainKeys, Sn
  <2>4. k.sn[1] = blocks[h].time
    BY <1>2, <1>3, <1>4, <2>3 DEF Before
  <2>5. g = h
    BY <2>2, <2>4, OneBlockPerTime DEF CreatedBy, MainKey
  <2>6. i <= n <=> Before(k.sn, end)
    BY <1>2, <2>2, <2>5, CreatorsPlace
  <2> QED BY <1>2, <1>4, <2>2, <2>5, <2>6
<1>5. ASSUME NEW k \in MainKeys, ~Before(k.sn, end)
      PROVE  k \notin DOMAIN Reached(blocks, h, n).store.entries
  BY <1>3, <1>5 DEF Sound
<1> HIDE DEF end
<1> QED BY <1>1, <1>4, <1>5 DEF Agree, end

\* Agreement on a block is agreement up to the next: there is no bulletin in between.
LEMMA AgreeUpToNext ==
    ASSUME NothingExpires, NEW blocks, ChainOK(blocks), NEW h \in 0 .. Len(blocks),
           h + 1 <= Len(blocks), NEW store, Created(blocks, store),
           Agree(store, Execute(blocks, h), <<TimeAt(blocks, h) + 1, 0>>)
    PROVE  Agree(store, Execute(blocks, h), <<blocks[h + 1].time, 0>>)
<1> DEFINE t1 == TimeAt(blocks, h)
           t2 == blocks[h + 1].time
<1>1. h \in Nat /\ h + 1 \in 1 .. Len(blocks) /\ h + 1 \in 0 .. Len(blocks) /\ Len(blocks) \in Nat
  BY BlockTimes
<1>2. t1 \in Nat /\ t2 \in Nat /\ t2 = TimeAt(blocks, h + 1)
  BY <1>1, BlockTimes
<1>3. Sound(Execute(blocks, h), <<t1 + 1, 0>>)
  BY ExecuteIsSound
<1> SUFFICES ASSUME NEW k \in MainKeys, Before(k.sn, <<t2, 0>>), ~Before(k.sn, <<t1 + 1, 0>>)
             PROVE  k \notin DOMAIN store.entries /\ k \notin DOMAIN Execute(blocks, h).entries
  BY DEF Agree
<1>4. k \notin DOMAIN Execute(blocks, h).entries
  BY <1>3 DEF Sound
<1>5. k.sn[1] \in Nat /\ k.sn[2] \in Nat
  BY DEF MainKeys, Sn
<1>6. t1 < k.sn[1] /\ k.sn[1] < t2
  BY <1>2, <1>5 DEF Before
<1>7. ASSUME k \in DOMAIN store.entries PROVE FALSE
  <2>1. PICK g \in 1 .. Len(blocks) : \E i \in 1 .. Len(blocks[g].txs) : CreatedBy(blocks, k, g, i)
    BY <1>7 DEF Created
  <2>2. k.sn[1] = blocks[g].time
    BY <2>1 DEF CreatedBy, MainKey
  <2>3. g \in 0 .. Len(blocks) /\ g \in Nat /\ TimeAt(blocks, g) = k.sn[1]
    BY <1>1, <2>2, BlockTimes
  <2>4. ~ (g <= h)
    <3>1. CASE g = h
      BY <1>2, <1>6, <2>3, <3>1
    <3>2. CASE g < h
      <4>1. TimeAt(blocks, g) < TimeAt(blocks, h)
        BY <2>3, <3>2, BlockTimes
      <4> QED BY <1>2, <1>5, <1>6, <2>3, <4>1
    <3> QED BY <1>1, <2>3, <3>1, <3>2
  <2>5. ~ (h + 1 <= g)
    <3>1. CASE g = h + 1
      BY <1>2, <1>5, <1>6, <2>3, <3>1
    <3>2. CASE h + 1 < g
      <4>1. TimeAt(blocks, h + 1) < TimeAt(blocks, g)
        BY <1>1, <2>3, <3>2, BlockTimes
      <4> QED BY <1>2, <1>5, <1>6, <2>3, <4>1
    <3> QED BY <1>1, <2>3, <3>1, <3>2
  <2> QED BY <1>1, <2>3, <2>4, <2>5
<1> QED BY <1>4, <1>7

-----------------------------------------------------------------------------
(* The inductive invariant.                                                 *)

\* Where the node stands in its chain.
PositionOK ==
    /\ now \in 1 .. MaxNow
    /\ height \in 0 .. Len(chain)
    /\ blockTime = TimeAt(chain, height)
    /\ phase = "block" =>
          /\ height # 0
          /\ pos \in 0 .. Len(Block.txs)
          /\ txIndex = Reached(chain, height, pos).index

\* What is stored was created by the chain, and outlives the clock.
Durable(store) == Created(chain, store) /\ Alive(store, MaxNow)

\* Between two blocks the database agrees with one execution of the blocks so far, and
\* in a block the batch does with the transactions so far. What a crash left behind of
\* later blocks may differ: the database is ahead of the height.
Progress ==
    /\ phase = "idle" => Agree(committed, Execute(chain, height), <<blockTime + 1, 0>>)
    /\ phase = "block" => Agree(batch, Reached(chain, height, pos).store, CurrentSn)

ReplayInv ==
    /\ TypeOK
    /\ ChainOK(chain)
    /\ PositionOK
    /\ Durable(batch) /\ Durable(committed)
    /\ Progress

\* An empty chain and an empty database are in the invariant.
LEMMA ReplayInvInit ==
    ASSUME NothingExpires, RInit
    PROVE  ReplayInv
<1>1. StoreOK(EmptyStore) /\ DOMAIN EmptyStore.entries = {}
  BY DEF EmptyStore, EmptyMap, StoreOK, MapOK
<1>2. TypeOK
  BY <1>1 DEF RInit, Init, TypeOK, PutCodes, OK
<1>3. Len(<< >>) = 0 /\ << >> \in Seq(Blocks)
  OBVIOUS
<1>4. ChainOK(chain)
  BY <1>3 DEF RInit, ChainOK
<1>5. PositionOK
  BY <1>3 DEF RInit, Init, PositionOK, NothingExpires, TimeAt
<1>6. Durable(batch) /\ Durable(committed)
  BY <1>1 DEF RInit, Init, Durable, Created, Alive
<1>7. Progress
  <2>1. Execute(chain, height) = committed /\ DOMAIN committed.entries = {} /\ phase = "idle"
    BY <1>1, ReachedBlocks DEF RInit, Init
  <2> QED BY <2>1 DEF Progress, Agree
<1> QED BY <1>2, <1>4, <1>5, <1>6, <1>7 DEF ReplayInv

\* The first part of a new or a replayed block, whatever the chain is then.
LEMMA BlockBegins ==
    ASSUME NothingExpires, ReplayInv, TypeOK', BeginBlock, pos' = 0,
           NEW blocks, blocks = chain', ChainOK(blocks), height + 1 \in 1 .. Len(blocks),
           blocks[height + 1].time = blockTime', TimeAt(blocks, height) = blockTime,
           Execute(blocks, height) = Execute(chain, height), Created(blocks, committed)
    PROVE  ReplayInv'
<1>1. /\ phase = "idle" /\ phase' = "block" /\ height' = height + 1 /\ now' = now
      /\ txIndex' = 0 /\ batch' = committed /\ committed' = committed
  BY DEF BeginBlock
<1>2. height \in Nat /\ height \in 0 .. Len(blocks) /\ height + 1 <= Len(blocks) /\ Len(blocks) \in Nat
  BY BlockTimes DEF ReplayInv, TypeOK
<1>3. Len(blocks[height + 1].txs) \in Nat /\ TimeAt(blocks, height + 1) = blockTime'
  BY BlockTimes
<1>4. Reached(blocks, height + 1, 0) = [store |-> Execute(blocks, height), index |-> 0]
  <2> DEFINE next == height + 1
  <2>1. next - 1 = height
    BY <1>2
  <2> HIDE DEF next
  <2>2. Reached(blocks, next, 0) = [store |-> Execute(blocks, next - 1), index |-> 0]
    BY ReachedStart
  <2> QED BY <2>1, <2>2 DEF next
<1>5. height + 1 # 0
  BY <1>2
<1>6. /\ Reached(blocks, height + 1, 0).store = Execute(chain, height)
      /\ Reached(blocks, height + 1, 0).index = 0
  BY <1>4
<1>7. PositionOK'
  <2>1. now \in 1 .. MaxNow
    BY DEF ReplayInv, PositionOK
  <2>2. 0 \in 0 .. Len(blocks[height + 1].txs) /\ height + 1 \in 0 .. Len(blocks)
    BY <1>2, <1>3
  <2> QED BY <1>1, <1>3, <1>5, <1>6, <2>1, <2>2 DEF PositionOK, Block
<1>8. Durable(batch)' /\ Durable(committed)'
  BY <1>1 DEF Durable, ReplayInv
<1>9. Progress'
  <2>1. Agree(committed, Execute(blocks, height), <<TimeAt(blocks, height) + 1, 0>>)
    BY <1>1 DEF ReplayInv, Progress
  <2>2. Agree(committed, Execute(blocks, height), <<blocks[height + 1].time, 0>>)
    BY <1>2, <2>1, AgreeUpToNext
  <2>3. Agree(batch', Reached(blocks, height + 1, 0).store, <<blockTime', txIndex'>>)
    BY <1>1, <1>6, <2>2
  <2> QED BY <1>1, <2>3 DEF Progress, CurrentSn
<1> QED BY <1>7, <1>8, <1>9 DEF ReplayInv

\* A new block: it is longer than the chain, and what it overwrites was created before.
LEMMA DecideStep ==
    ASSUME NothingExpires, MinBlockGap >= 1, ~BlindOverwrites, ReplayInv, TypeOK', DecideBlock
    PROVE  ReplayInv'
<1>1. /\ height = Len(chain) /\ phase = "idle" /\ BeginBlock /\ pos' = 0
      /\ ChainOK(chain) /\ PositionOK /\ Created(chain, committed)
  BY DEF DecideBlock, CaughtUp, ReplayInv, Durable
<1>2. PICK txs \in BlockTxs : chain' = Append(chain, [time |-> blockTime', txs |-> txs])
  BY DEF DecideBlock
<1> DEFINE block == [time |-> blockTime', txs |-> txs]
           blocks == Append(chain, block)
<1>3. blockTime' \in Nat /\ blockTime' >= blockTime + 1 /\ blockTime \in Nat
  BY <1>1, AppAssumption DEF BeginBlock, ReplayInv, TypeOK
<1>4. txs \in Seq(Txs) /\ \A n \in 1 .. Len(txs) : Known(txs[n])
  BY DEF BlockTxs, SeqOf
<1>5. block \in Blocks
  BY <1>3, <1>4 DEF Blocks
<1>6. /\ Len(chain) \in Nat /\ blocks \in Seq(Blocks) /\ Len(blocks) = Len(chain) + 1
      /\ \A h \in 1 .. Len(chain) : blocks[h] = chain[h]
      /\ blocks[Len(chain) + 1] = block
  <2> HIDE DEF block
  <2>1. chain \in Seq(Blocks)
    BY <1>1 DEF ChainOK
  <2> QED BY ONLY <1>5, <2>1
<1> HIDE DEF blocks
<1>7. TimeAt(blocks, height) = blockTime
  <2>1. height = 0 \/ height \in 1 .. Len(chain)
    BY <1>1, <1>6
  <2> QED BY <1>1, <1>6, <2>1 DEF TimeAt, PositionOK
<1>8. \A h \in 1 .. Len(chain) : chain[h].time \in Nat /\ chain[h].time <= blockTime
  <2> SUFFICES ASSUME NEW h \in 1 .. Len(chain)
               PROVE  chain[h].time \in Nat /\ chain[h].time <= blockTime
    OBVIOUS
  <2>1. h \in 0 .. Len(chain) /\ height \in 0 .. Len(chain) /\ h \in Nat /\ (h < height \/ h = height)
    BY <1>1, <1>6
  <2>2. TimeAt(chain, h) = chain[h].time /\ chain[h].time \in Nat
    BY <1>1, BlockTimes
  <2>3. h < height => TimeAt(chain, h) < TimeAt(chain, height)
    BY <1>1, <2>1, BlockTimes
  <2> QED BY <1>1, <1>3, <2>1, <2>2, <2>3 DEF PositionOK
<1>9. \A n \in 1 .. Len(txs) : txs[n].oldSn = NoSn \/ txs[n].oldSn[1] < blockTime'
  <2> SUFFICES ASSUME NEW n \in 1 .. Len(txs), txs[n].oldSn # NoSn
               PROVE  txs[n].oldSn[1] < blockTime'
    OBVIOUS
  <2>1. PICK k \in DOMAIN committed.entries : k.sn = txs[n].oldSn
    BY <1>4 DEF Known
  <2>2. PICK h \in 1 .. Len(chain) : \E i \in 1 .. Len(chain[h].txs) : CreatedBy(chain, k, h, i)
    BY <1>1 DEF Created
  <2>3. k.sn[1] = chain[h].time
    BY <2>2 DEF CreatedBy, MainKey
  <2> QED BY <1>3, <1>8, <2>1, <2>3
<1>10. ChainOK(blocks)
  <2>1. ASSUME NEW h1 \in 1 .. Len(blocks), NEW h2 \in 1 .. Len(blocks), h1 < h2
        PROVE  blocks[h1].time < blocks[h2].time
    <3>1. h1 \in 1 .. Len(chain)
      BY <1>6, <2>1
    <3>2. CASE h2 \in 1 .. Len(chain)
      BY <1>1, <1>6, <2>1, <3>1, <3>2 DEF ChainOK
    <3>3. CASE h2 = Len(chain) + 1
      BY <1>3, <1>6, <1>8, <3>1, <3>3
    <3> QED BY <1>6, <3>2, <3>3
  <2>2. ASSUME NEW h \in 1 .. Len(blocks), NEW n \in 1 .. Len(blocks[h].txs)
        PROVE  blocks[h].txs[n].oldSn = NoSn \/ blocks[h].txs[n].oldSn[1] < blocks[h].time
    <3>1. CASE h \in 1 .. Len(chain)
      <4>1. blocks[h] = chain[h] /\ n \in 1 .. Len(chain[h].txs)
        BY <1>6, <3>1
      <4> QED BY <1>1, <3>1, <4>1 DEF ChainOK
    <3>2. CASE h = Len(chain) + 1
      BY <1>6, <1>9, <3>2
    <3> QED BY <1>6, <3>1, <3>2
  <2> QED BY <1>6, <2>1, <2>2 DEF ChainOK
<1>11. /\ \A h \in 0 .. Len(chain) : Execute(blocks, h) = Execute(chain, h)
       /\ \A h \in 1 .. Len(chain) : \A n : Reached(blocks, h, n) = Reached(chain, h, n)
  BY <1>6, ReachedInLongerChain
<1>12. Created(blocks, committed)
  <2> SUFFICES ASSUME NEW k \in DOMAIN committed.entries
               PROVE  \E h \in 1 .. Len(blocks) : \E n \in 1 .. Len(blocks[h].txs) :
                         CreatedBy(blocks, k, h, n)
    BY DEF Created
  <2>1. PICK h \in 1 .. Len(chain) : \E n \in 1 .. Len(chain[h].txs) : CreatedBy(chain, k, h, n)
    BY <1>1 DEF Created
  <2>2. PICK n \in 1 .. Len(chain[h].txs) : CreatedBy(chain, k, h, n)
    BY <2>1
  <2>3. h \in 1 .. Len(blocks) /\ n \in 1 .. Len(blocks[h].txs) /\ blocks[h] = chain[h]
    BY <1>6
  <2>4. CreatedBy(blocks, k, h, n)
    BY <1>11, <2>2, <2>3 DEF CreatedBy
  <2> QED BY <2>3, <2>4
<1>13. height + 1 \in 1 .. Len(blocks) /\ blocks[height + 1].time = blockTime' /\ height \in 0 .. Len(chain)
  BY <1>1, <1>6
<1>14. blocks = chain'
  BY <1>2 DEF blocks
<1> QED BY <1>1, <1>7, <1>10, <1>11, <1>12, <1>13, <1>14, BlockBegins

\* The next block of the chain, again.
LEMMA ReplayStep ==
    ASSUME NothingExpires, ReplayInv, TypeOK', ReplayBlock
    PROVE  ReplayInv'
<1>1. /\ height < Len(chain) /\ BeginBlock /\ pos' = 0 /\ chain' = chain
      /\ blockTime' = chain[height + 1].time /\ height' = height + 1
  BY DEF ReplayBlock, BeginBlock
<1>2. ChainOK(chain) /\ PositionOK /\ Created(chain, committed) /\ height \in Nat
  BY DEF ReplayInv, Durable, TypeOK
<1>3. height + 1 \in 1 .. Len(chain)
  BY <1>1, <1>2, BlockTimes
<1> QED BY <1>1, <1>2, <1>3, BlockBegins DEF PositionOK

\* What a node delivers is one of the valid transactions.
LEMMA DeliversOfTxs ==
    ASSUME ReplayInv, DeliverNextTx
    PROVE  Block.txs[pos + 1] \in Txs /\ DeliverTx(Block.txs[pos + 1])
<1>1. /\ ChainOK(chain) /\ PositionOK /\ phase = "block" /\ pos < Len(Block.txs)
      /\ DeliverTx(Block.txs[pos + 1])
  BY DEF DeliverNextTx, ReplayInv
<1>2. height \in 1 .. Len(chain) /\ pos \in 0 .. Len(Block.txs)
  BY <1>1, BlockTimes DEF PositionOK
<1>3. Block.txs \in Seq(Txs) /\ Len(Block.txs) \in Nat
  BY <1>1, <1>2, BlockTimes DEF Block
<1>4. pos + 1 \in 1 .. Len(Block.txs)
  BY <1>1, <1>2, <1>3
<1> QED BY <1>1, <1>3, <1>4

\* One transaction of the block: the batch and one execution make the same step.
LEMMA DeliverStep ==
    ASSUME NothingExpires, MaxBlockTxs <= TxnLimit, ReplayInv, TypeOK', DeliverNextTx
    PROVE  ReplayInv'
<1> DEFINE n == pos + 1
           tx == chain[height].txs[n]
           put == Put3(batch, tx, CurrentSn, now)
<1>1. /\ TypeOK /\ ChainOK(chain) /\ PositionOK /\ Created(chain, batch) /\ Alive(batch, MaxNow)
      /\ Created(chain, committed) /\ Alive(committed, MaxNow)
  BY DEF ReplayInv, Durable
<1>2. /\ phase = "block" /\ pos < Len(chain[height].txs) /\ DeliverTx(tx) /\ pos' = n
      /\ chain' = chain
  BY DEF DeliverNextTx, Block
<1>3. /\ height \in 1 .. Len(chain) /\ height \in Nat
      /\ blockTime = chain[height].time
      /\ pos \in 0 .. Len(chain[height].txs)
      /\ txIndex = Reached(chain, height, pos).index
  <2>1. height \in 0 .. Len(chain) /\ height # 0 /\ blockTime = TimeAt(chain, height)
    BY <1>1, <1>2 DEF PositionOK
  <2>2. height \in 1 .. Len(chain)
    BY <1>1, <2>1, BlockTimes
  <2> QED BY <1>1, <1>2, <2>1, <2>2, BlockTimes DEF PositionOK, Block
<1>4. n \in 1 .. Len(chain[height].txs) /\ n \in 0 .. Len(chain[height].txs) /\ n - 1 = pos
  BY <1>1, <1>2, <1>3, BlockTimes
<1>5. tx \in Txs
  <2>1. chain[height].txs \in Seq(Txs)
    BY <1>1, <1>3, BlockTimes
  <2> QED BY <1>4, <2>1
<1> HIDE DEF n
<1>6. /\ batch' = put.store /\ txIndex' = NextTxIndex(put.code)
      /\ phase' = "block" /\ now' = now /\ blockTime' = blockTime /\ committed' = committed
      /\ height' = height
  <2> HIDE DEF tx
  <2>1. height' = height
    BY <1>2 DEF DeliverTx, Deliver
  <2> QED BY <1>1, <1>2, <1>5, <2>1, DeliverTxFits DEF Put3
<1>7. /\ StoreOK(batch) /\ now \in Nat /\ now \in 1 .. MaxNow /\ Alive(batch, now)
  <2>1. now \in 1 .. MaxNow /\ StoreOK(batch) /\ now \in Nat /\ now <= MaxNow
    BY <1>1, AppAssumption DEF TypeOK, PositionOK
  <2>2. \A k \in DOMAIN batch.entries : batch.entries[k].expireAt \in Int
    BY <2>1 DEF StoreOK, MapOK, Entries
  <2>3. Alive(batch, now)
    BY <1>1, <2>1, <2>2, AppAssumption DEF Alive
  <2> QED BY <2>1, <2>3
<1>8. Agree(batch, Reached(chain, height, n - 1).store, CurrentSn)
      /\ CurrentSn = <<chain[height].time, Reached(chain, height, n - 1).index>>
  BY <1>2, <1>3, <1>4 DEF ReplayInv, Progress, CurrentSn
<1>9. /\ SnAfter(CurrentSn, put.code) = <<chain[height].time, Reached(chain, height, n).index>>
      /\ Agree(put.store, Reached(chain, height, n).store,
               <<chain[height].time, Reached(chain, height, n).index>>)
      /\ Created(chain, put.store)
  BY <1>1, <1>3, <1>4, <1>7, <1>8, AgreeAfterTx
<1>10. Alive(put.store, MaxNow)
  BY <1>1, <1>5, <1>7, PutOutlives
<1>11. CurrentSn' = SnAfter(CurrentSn, put.code)
  BY <1>6 DEF CurrentSn, SnAfter, NextTxIndex
<1>12. txIndex' = Reached(chain, height, n).index
  BY <1>9, <1>11 DEF CurrentSn
<1> HIDE DEF put, tx
<1>13. PositionOK'
  BY <1>1, <1>2, <1>3, <1>4, <1>6, <1>12 DEF PositionOK, Block, TimeAt
<1>14. Durable(batch)' /\ Durable(committed)'
  BY <1>1, <1>2, <1>6, <1>9, <1>10 DEF Durable
<1>15. Progress'
  BY <1>2, <1>6, <1>9, <1>11 DEF Progress
<1> QED BY <1>1, <1>2, <1>13, <1>14, <1>15 DEF ReplayInv

\* The end of a block that badger commits.
LEMMA CommitStep ==
    ASSUME NothingExpires, ~DiskMayFail, ReplayInv, TypeOK', CommitBlock
    PROVE  ReplayInv'
<1>1. /\ phase = "block" /\ phase' = "idle" /\ pos = Len(chain[height].txs)
      /\ committed' = batch /\ batch' = batch /\ chain' = chain
      /\ now' = now /\ height' = height /\ blockTime' = blockTime
  BY DEF CommitBlock, Commit, Block
<1>2. /\ ChainOK(chain) /\ PositionOK /\ StoreOK(batch) /\ Created(chain, batch) /\ Durable(batch)
  BY DEF ReplayInv, Durable, TypeOK
<1>3. height \in 1 .. Len(chain) /\ blockTime = chain[height].time
      /\ CurrentSn = <<chain[height].time, Reached(chain, height, pos).index>>
  <2>1. height \in 0 .. Len(chain) /\ height # 0 /\ blockTime = TimeAt(chain, height)
        /\ txIndex = Reached(chain, height, pos).index
    BY <1>1, <1>2 DEF PositionOK
  <2>2. height \in 1 .. Len(chain)
    BY <1>2, <2>1, BlockTimes
  <2> QED BY <2>1, <2>2 DEF TimeAt, CurrentSn
<1>4. Agree(batch, Reached(chain, height, pos).store,
            <<chain[height].time, Reached(chain, height, pos).index>>)
  BY <1>1, <1>3 DEF ReplayInv, Progress
<1>5. Agree(batch, Execute(chain, height), <<blockTime + 1, 0>>)
  BY <1>1, <1>2, <1>3, <1>4, AgreeAtEnd
<1>6. PositionOK'
  BY <1>1, <1>2 DEF PositionOK
<1>7. Durable(batch)' /\ Durable(committed)'
  BY <1>1, <1>2 DEF Durable
<1>8. Progress'
  BY <1>1, <1>5 DEF Progress
<1> QED BY <1>1, <1>2, <1>6, <1>7, <1>8 DEF ReplayInv

\* A crash forgets the height: no bulletin is from before the first block.
LEMMA CrashStep ==
    ASSUME NothingExpires, ReplayInv, Crash
    PROVE  ReplayInv'
<1>1. /\ phase' = "idle" /\ height' = 0 /\ blockTime' = 0 /\ txIndex' = 0
      /\ batch' = committed /\ committed' = committed /\ chain' = chain /\ now' = now
      /\ resp' = OK
  BY DEF Crash, Restart
<1>2. TypeOK /\ ChainOK(chain) /\ PositionOK /\ Durable(committed) /\ Created(chain, committed)
  BY DEF ReplayInv, Durable
<1>3. TypeOK'
  BY <1>1, <1>2 DEF TypeOK, PutCodes
<1>4. PositionOK'
  BY <1>1, <1>2, BlockTimes DEF PositionOK
<1>5. Durable(batch)' /\ Durable(committed)'
  BY <1>1, <1>2 DEF Durable
<1>6. Agree(committed, Execute(chain, 0), <<0 + 1, 0>>)
  <2> SUFFICES ASSUME NEW k \in MainKeys, Before(k.sn, <<1, 0>>)
               PROVE  k \notin DOMAIN committed.entries /\ k \notin DOMAIN Execute(chain, 0).entries
    BY DEF Agree
  <2>1. Execute(chain, 0) = EmptyStore /\ DOMAIN EmptyStore.entries = {}
    BY ReachedBlocks DEF EmptyStore, EmptyMap
  <2>2. k.sn[1] \in Nat /\ k.sn[2] \in Nat
    BY DEF MainKeys, Sn
  <2>3. k.sn[1] = 0
    BY <2>2 DEF Before
  <2>4. ASSUME k \in DOMAIN committed.entries PROVE FALSE
    <3>1. PICK h \in 1 .. Len(chain) : \E n \in 1 .. Len(chain[h].txs) : CreatedBy(chain, k, h, n)
      BY <1>2, <2>4 DEF Created
    <3>2. k.sn[1] = chain[h].time
      BY <3>1 DEF CreatedBy, MainKey
    <3>3. chain[h].time \in Nat \ {0}
      BY <1>2, BlockTimes
    <3> QED BY <2>3, <3>2, <3>3
  <2> QED BY <2>1, <2>4
<1>7. Progress'
  BY <1>1, <1>6 DEF Progress
<1> QED BY <1>1, <1>2, <1>3, <1>4, <1>5, <1>7 DEF ReplayInv

\* The invariant holds in every reachable state, crashes and replays included.
LEMMA ReplayInvInvariant ==
    ASSUME NothingExpires, MinBlockGap >= 1, MaxBlockTxs <= TxnLimit,
           ~DiskMayFail, ~BlindOverwrites
    PROVE  RSpec => []ReplayInv
<1>1. RInit => ReplayInv
  BY ReplayInvInit
<1>2. ReplayInv /\ [RNext]_rvars => ReplayInv'
  <2> SUFFICES ASSUME ReplayInv, [RNext]_rvars
               PROVE  ReplayInv'
    OBVIOUS
  <2>1. TypeOK
    BY DEF ReplayInv
  <2>2. CASE RTick
    <3>1. /\ now' \in 1 .. MaxNow /\ chain' = chain /\ pos' = pos
          /\ UNCHANGED <<phase, height, blockTime, txIndex, batch, committed, resp>>
      BY <2>2, AppAssumption DEF RTick, Tick, ReplayInv, PositionOK
    <3>2. TypeOK'
      BY <2>1, <2>2, TypeStep DEF RTick, Next
    <3>3. PositionOK'
      BY <3>1 DEF ReplayInv, PositionOK, Block
    <3>4. Progress' /\ Durable(batch)' /\ Durable(committed)' /\ ChainOK(chain)'
      BY <3>1 DEF ReplayInv, Progress, Durable, CurrentSn
    <3> QED BY <3>2, <3>3, <3>4 DEF ReplayInv
  <2>3. CASE DecideBlock
    <3>1. TypeOK'
      BY <2>1, <2>3, TypeStep DEF DecideBlock, Next
    <3> QED BY <2>3, <3>1, DecideStep
  <2>4. CASE ReplayBlock
    <3>1. TypeOK'
      BY <2>1, <2>4, TypeStep DEF ReplayBlock, Next
    <3> QED BY <2>4, <3>1, ReplayStep
  <2>5. CASE DeliverNextTx
    <3>1. Block.txs[pos + 1] \in Txs /\ DeliverTx(Block.txs[pos + 1])
      BY <2>5, DeliversOfTxs
    <3>2. TypeOK'
      BY <2>1, <3>1, TypeStep DEF Next
    <3> QED BY <2>5, <3>2, DeliverStep
  <2>6. CASE CommitBlock
    <3>1. TypeOK'
      BY <2>1, <2>6, TypeStep DEF CommitBlock, Next
    <3> QED BY <2>6, <3>1, CommitStep
  <2>7. CASE Crash
    BY <2>7, CrashStep
  <2>8. CASE UNCHANGED rvars
    <3>1. TypeOK'
      BY <2>1, <2>8, TypeStep DEF rvars
    <3> QED BY <2>8, <3>1 DEF rvars, vars, ReplayInv, PositionOK, Progress, Durable, CurrentSn, Block
  <2> QED BY <2>2, <2>3, <2>4, <2>5, <2>6, <2>7, <2>8 DEF RNext
<1> QED BY <1>1, <1>2, PTL DEF RSpec

\* When nothing expires and authors overwrite what they have read, with blocks a second
\* apart that fit their batches and a disk that works, crashes leave no trace: a node
\* that has executed its chain, from the first block after every crash (app.go:117-119),
\* holds exactly the bulletins and histories of executing it once.
THEOREM ReplaysAreIdempotent ==
    ASSUME NothingExpires, MinBlockGap >= 1, MaxBlockTxs <= TxnLimit,
           ~DiskMayFail, ~BlindOverwrites
    PROVE  RSpec => []ReplayRestoresBulletins
<1>1. ReplayInv => ReplayRestoresBulletins
  <2> SUFFICES ASSUME ReplayInv, CaughtUp
               PROVE  Bulletins(committed) = Bulletins(Execute(chain, Len(chain)))
    BY DEF ReplayRestoresBulletins
  <2> DEFINE once == Execute(chain, height)
             end == <<blockTime + 1, 0>>
  <2>1. /\ ChainOK(chain) /\ Created(chain, committed) /\ height = Len(chain)
        /\ height \in 0 .. Len(chain) /\ blockTime = TimeAt(chain, height)
        /\ StoreOK(committed) /\ Agree(committed, once, end) /\ blockTime \in Nat
    BY DEF ReplayInv, Durable, CaughtUp, PositionOK, Progress, TypeOK
  <2>2. Sound(once, end)
    BY <2>1, ExecuteIsSound
  <2>3. \A k \in DOMAIN once.entries : k \in MainKeys /\ Before(k.sn, end)
    BY <2>2 DEF Sound, StoreOK, MapOK
  <2>4. ASSUME NEW k \in DOMAIN committed.entries
        PROVE  k \in MainKeys /\ Before(k.sn, end)
    <3>1. PICK h \in 1 .. Len(chain) : \E n \in 1 .. Len(chain[h].txs) : CreatedBy(chain, k, h, n)
      BY <2>1 DEF Created
    <3>2. k.sn[1] = chain[h].time
      BY <3>1 DEF CreatedBy, MainKey
    <3>3. h \in 0 .. Len(chain) /\ h \in Nat /\ (h < height \/ h = height)
          /\ TimeAt(chain, h) = chain[h].time /\ chain[h].time \in Nat
      BY <2>1, BlockTimes
    <3>4. h < height => TimeAt(chain, h) < TimeAt(chain, height)
      BY <2>1, <3>3, BlockTimes
    <3>5. k.sn[1] < blockTime + 1
      BY <2>1, <3>2, <3>3, <3>4
    <3>6. k \in MainKeys
      BY <2>1 DEF StoreOK, MapOK
    <3> QED BY <3>5, <3>6 DEF Before
  <2> HIDE DEF once, end
  <2>5. DOMAIN committed.entries = DOMAIN once.entries
    BY <2>1, <2>3, <2>4 DEF Agree
  <2>6. \A k \in DOMAIN committed.entries : SameEntry(committed.entries[k], once.entries[k])
    BY <2>1, <2>4 DEF Agree
  <2>7. Bulletins(committed) = Bulletins(once)
    BY <2>5, <2>6 DEF Bulletins, SameEntry
  <2> QED BY <2>1, <2>7 DEF once
<1> QED BY <1>1, ReplayInvInvariant, PTL
=============================================================================
