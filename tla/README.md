# TLA+ models of ganychain

Ganychain is a chain of censorship-resistant bulletins. A client sends a bulletin with a
probabilistic payment to a backend; the backend checks the payment against smartBCH's state,
which it follows by copying blocks, has one of several Tendermint shards commit the
bulletin, and then calls the payment contract. Each shard's ABCI application keeps the
bulletins, their versions and their indexes in badger, where they expire.

These modules model that code, check it on small instances with TLC, and prove its main
safety properties for every instance with TLAPS. Definitions keep the names of the
source; `PROJECT.json` maps each to the lines it models.

## The system

| component | state | operations | correct when |
|---|---|---|---|
| **Application of a shard** (`app/app.go`) | badger: main key → versions, SN → key head, range → heads; a badger transaction per block; block time, index in the block | `BeginBlock`, `DeliverTx` (create, overwrite, delete), `Commit`, `GetGanyTxByUrl`, `QueryBulletinByTimePeriod`, `Info` | an SN names one bulletin; a URL finds it; an overwrite extends the bulletin's own history, keeps its author and id; nothing deleted returns; lifetimes stay in their bounds; an error touches no other bulletin |
| **Restart** (`app/app.go` `Info`, `cmd/gany.go`) | the database, Tendermint's block store | replay of the whole chain from height 0 on the old database | the replay gives the bulletins that executing the chain once gives |
| **Queries** (`queryBulletins`) | none | newest first, by type, topic and period, bounded, excluding SNs | only what was asked for; paging misses nothing and ends |
| **Follower** (`follower/follower.go`, `contract.go`) | a state store (moeingads), a history store (moeingdb), `sbchHeight`, the cached list of validators | catch up twice, then poll for blocks; read the list on an election's log or when a request finds no list | the stores hold a prefix of the leader's chain; nothing read is undone; the cached list is not replaced by an older one |
| **Backend** (`backend/backend.go`) | none of its own; concurrent requests | `PutBulletin`: check, broadcast, pay, poll for the receipt; queries forwarded to shards | an answer with a hash means committed and paid; no payment without a bulletin; nonces buy one bulletin; every request is answered |
| **Transactions** (`proto/*.go`) | none | layout of the 4 fields, ids, `CanBeOverwrittenBy` | fields are read where they were written, whatever lengths a header gives |
| **Authentication** (`proto/auth.go`, `merkle.go`, `checkAuth`) | none | challenge of a proof, `CheckAuthProof` over groups of conditions | who is let in fulfils a whole group; who fulfils one is let in |
| **Payments** (`stochastic_payment.go`, `eip712.go`, `callPayToAB`) | wallets, in the contract | check of signature, nonces, balance and probability; packing for the contract | the contract unpacks what was signed |
| **Test doubles** (`utils/testutils`) | wallets and shards in memory | `PutBulletin` of the mock: check, one block, move tokens | they do as the code they stand for; the shards hold what was paid for last |
| **Node** (`cmd/gany.go`, `rpc`) | the configuration, the databases and servers of the shards, the RPC server | start, fail, stop, restart; route a request to its shard | no request meets a shard that is not open; what was accepted is found after any restarts |
| **web3client, contract bindings, protobuf** | none that lasts | I/O, generated code | – |

How they interact: `rpc` calls the backend from a goroutine per request; the backend reads the
follower (shared memory), calls a shard through Tendermint's `BroadcastTxCommit` and
smartBCH through JSON-RPC; the follower copies smartBCH's blocks by polling and hears of
elections through a websocket; Tendermint calls the application, one call at a time for the
consensus connection, while queries read the committed database from other goroutines.

What is hard here: SNs made of whole seconds and an index that restarts in every block;
truncated hashes in keys; badger's expiry on a wall clock while the chain has block times;
batches that fill up and commits that fail; the replay of everything after every crash; two
stores written one after the other; logs and blocks of one event on two channels; requests
whose check is stale when its result is used, whose calls time out after they took effect,
and that share one account. `PROJECT.json` lists these hazards line by line, with the
properties that would catch them.

## Modules

    BulletinStore          operators: what one transaction does to a database
      GanyApp              state machine of one shard's application
        GanyAppProofs      theorems
        GanyBoard          GanyApp implements BulletinBoard
        GanyReplicas       two GanyApps with clocks of their own
        GanyReplay         GanyApp under Tendermint, with crashes and replays
          GanyReplayProofs theorem
        BulletinQuery      GanyApp read by a client that pages through a period
          GanyShardProofs  theorems about GanyBoard, GanyReplicas and BulletinQuery
      MockChain            the tests' doubles (with StochasticPayment)
        MockChainProofs    theorems
    BulletinBoard          abstract: posts that change a block at a time
    TxLayout               operators: the bytes of a transaction
    AuthProof              operators: conditions, groups and Merkle paths
      Admission            a request until it is stored or refused (both of the above)
        AdmissionProofs    theorems
    StochasticPayment      operators: a payment from its signature to the contract
    Follower               the follower, its leader, its readers
      FollowerProofs       theorems
    PutBulletin            concurrent requests, ganychain, the contract, a follower that lags
      PutBulletinProofs    theorems
    GanyNode               the process: shards, servers, routes, restarts
      GanyNodeProofs       theorems
    MC*                    instances for TLC

**BulletinStore** translates `putGanyTx`, `createGanyTx`, `overwriteBulletin`, `getGanyTx` and
their helpers into operators on a store of three maps. The clock and the number of writes
that badger still accepts are arguments, so that the same operators serve execution, replay
and proofs. Hashes and their first bytes are model values (`Prefix`), so that two authors or topics
may share a truncated key; a timestamp is kept modulo `TimeWidth` (2^40 in the code), an index
position modulo `RangeSize` (256). `ToDuration` wraps at `DurationHalf` as `int64`
nanoseconds do. Badger (expiry, `Get`, `SetEntry`, `Delete`, `ErrTxnTooBig`) is external.

**GanyApp** has `BeginBlock`, `DeliverTx`, `DeliverInvalidTx`, `Commit` and the clock's `Tick`.
`batch` is the badger transaction opened in `BeginBlock`, `committed` the database; a commit
may fail (`DiskMayFail`), since the code drops its error. From the `TxnLimit`-th transaction
on, a batch may be full after any of a creation's three writes. No property speaks of the SN's entry in the
key map, for nothing reads it: `GetGanyTxByUrl` goes through the ranges.

**GanyReplay** adds Tendermint's block store. `Restart` answers height 0, so every stored block is
delivered again; crashes come before, in and after blocks and within replays.
`BlindOverwrites = FALSE` says that an overwrite names an SN that somebody could have read.
That is an assumption: with blind ones a replay can accept what was refused at first. `Execute` is the
reference: the store after the first n blocks, each transaction delivered once, on an empty database.

**BulletinQuery** adds a reader that excludes the SNs it was given and asks again until a page is
empty, interleaved with blocks, overwrites, deletions and expiry.

**BulletinBoard** and **GanyBoard**: a board holds posts under serial numbers that are used in order. Within a
block posts are published, revised version by version and withdrawn, by transactions with the origin of
the post (type, topic, time, author, duration); closing the block shows all of it at once, or
loses it as a whole if the disk may fail. `GanyBoard` maps the entries of the database that have not expired
to posts: keys, indexes, ranges, ids and lifetimes disappear. A `Tick` may be an `Expire`.

**GanyReplicas** gives the same calls to two instances of `GanyApp`, each with a clock, and watches
`contested`: that a version came for a bulletin that one node only still has. From
there on the two may differ, and the run's mutant aside, do; up to there they must agree.

**TxLayout, AuthProof, Admission**: a layout is a size and four lengths, any of them, with
`uint32` sums modulo `Width`; a slice is two offsets. A hash is a term: the sequence of what was
written to the hash function. `CheckAuthProof` has three results, for a condition number can
index a list out of its range, a panic from which the RPC server recovers. `Admission` runs one request
through the getters, `checkAuth` and the application's own check, with challenges and evidence that need
not belong together. `Entitled` is the reference: what a condition asks for, read from the challenge.
A topic too short to hold a hash is sliced up to its buffer's capacity, so it may end in a panic or not.

**StochasticPayment, MockChain**: amounts are byte sequences of at most `MaxAmountLen` bytes (12 in
the code), so that empty and too long ones, leading zeros and the packing of V are there; a signature tells
who signed which hash. `Checks` is steps 1 to 6 of the backend's `PutBulletin`, `callPayToAB` what it sends and
`payToAB` (external) what the contract makes of it. `MockChain` is the state machine of `MockBackend`,
`MockFollower` and `MockGanyApp`, on which the repository's tests rest; the last two of its
properties compare it with the backend, so that what it checks of payments is checked of both. A shard's
`BroadcastTx` executes a block with the operators of `BulletinStore`, at the bulletin's own time and index 0: an
author's creations of one second replace each other, versions and deletions do what they do in the
application, and a refused transaction leaves its batch behind, with what it wrote before badger refused it.
The lengths of root, payee and signature are taken as right.

**Follower** has one action per step of `updateState` (fetch and apply, record, publish), of
`catchupLeader`, and of the two readers of the validator list, which is read slot by slot
under the lock while blocks are applied. A slot's value is the height of the block that
wrote it last, and the block tells what the slot holds. Slot 0 is the length word, and the slots after it are
the validators, empty behind the end of the list: elections may make the list longer, shorter or empty. A
list may have the length of one block and validators of others. When the list became shorter in between,
the slice of an empty word panics: `FailRequest` in a request, from which the RPC server recovers, and
`LogCatcherPanics` in the log catcher, which ends the process. Slots are storage slots: the genesis accounts that an
empty history store makes a start write again hold balances only. An ended subscription means that logs are not received
(`ReceiveLog` has no fairness).

**GanyNode** has one action per step of `cmdGanyApp`: a database and a listener for each shard, then the RPC
server, each in a goroutine; HTTP and then HTTPS; the signal handler, the servers that follow the
cancelled context, and the end of the process, which forgets all but the configuration and the
databases. Errors end the process where the code exits and are kept as a state where it logs. Each
Tendermint is external: it calls the ABCI port that it is configured with (`ProxyApp`), whoever serves it.
Each edit of the configuration may be any of `Configs`, wrong ones included. A GC of badger changes no key.

**PutBulletin** has one action per step of a request; any call to another process may fail, also
after it took effect (a payment taken whose answer is lost, a bulletin committed after
`BroadcastTxCommit` timed out). The mempool's cache refuses copies until it forgets them. The
contract (outside the repository) takes a payment with the wallet's nonces, enough balance
and a proof of the signed list of validators. `Retry` is `PollReceipt` and `GiveUp`.

## Runs

| run | states | shows |
|---|---|---|
| `app` | 173,642 | serial numbers, URLs, histories, lifetimes and answers agree through creations, overwrites and deletions, and the application implements the board |
| `replicas` | 332,754 | one-second blocks, full batches and overflowing durations: nodes with different clocks agree until a bulletin that one of them let expire is contested, no other authentication comes into a history, and an error touches no other bulletin |
| `replay` | 286,501 | two crashes anywhere: the replay restores the bulletins |
| `query` | 55,400 | pages hold what is wanted, nothing is missed, the reading ends |
| `admission` | 56,561 | what is stored was read as four fields; who is let in fulfils a group; within what the code can check, nobody entitled is refused |
| `payments` | 52,436 | tokens are conserved, a signature pays once, the shards hold what was paid for last under each key, and the doubles check and pay as the backend and the contract do |
| `follower` | 687,349 | the stores are a prefix of the chain, neither state nor the cached list goes back, every block is reached |
| `put` | 347,392 | answers, bulletins and payments agree; one payment per request; every request is answered |
| `node` | 79,530 | accepted bulletins are found after any restarts, no request meets a shard that is not open, every start ends |
| `url`, `follower_election`, `auth` | – | the findings below |

Bounds, and why they are enough:

- `app`: 2 blocks of 2 transactions, 3 seconds. The SN arithmetic needs an index that restarts
  (2 blocks) and one that is skipped (2 transactions); versions and deletions need a
  bulletin and its overwrite in one block and across blocks. Ranges hold 2 indexes instead of 256, so
  that both share one. `MinTTL` 1 and `MaxTTL` 2 let bulletins expire before, at and after
  each block. Two authors share truncated addresses. 4 blocks are not reached: what
  depends on many is what the theorems are for.
- `replicas`: 2 blocks of 2 transactions and 2 seconds of each clock. Bulletins last until
  2: one that both nodes stored earlier is gone on the node whose clock is there and lives on the other. A version of it
  is then `contested`, which the run reaches. `MinBlockGap = 0`, a `TxnLimit` that is reached, and durations beyond `DurationHalf`.
- `replay`: 3 blocks and 2 crashes: a crash in a replay, and blocks made after one. Nothing expires
  in it (`MinTTL` exceeds the clock), because lifetimes follow the wall clock and a replay
  renews them: that a bulletin which expired is back for `MinTTL` after a replay is a fact of
  the code that no doc promises otherwise.
- `query`: pages of at most 2 bulletins (`MaxQueryResultCount` 1, and the code's comparison lets one
  more through), up to 4 bulletins, two topics whose hashes share their first bytes.
- `admission`: lengths modulo 6 with a header of 1, so that every sum wraps somewhere and every order of
  offsets occurs; sets of one, two and four addresses, so that paths have no, one and two pairs; up to one call, two
  sets and two payments in a proof, with groups that name, skip and overrun them.
- `payments`: amounts of up to 2 bytes and 3 of a too long one; nonces that wrap at 3, and 4 payments, so that
  they come round; payer, payee and validator the same, pairwise and apart. Two shards; creations of one second by one
  author, a version, a deletion and an empty creation; badger may refuse any of a creation's writes; 2 seconds, in
  which a bulletin expires.
- `follower`: 3 blocks (one for each round of catching up and one after), 1 crash. Elections of two validators and
  of one, and a candidate who joins, in any order: the list grows and shrinks between the reading of the length word
  and of each validator, which includes both panics.
- `put`: 3 requests, two of them copies of one transaction, all with the same nonces; the third
  was signed for the list after an election. Larger sets are for the theorems.
- `node`: up to 2 shards, six configurations (none, one, two, swapped ports, a missing namespace, a wrong
  count), 2 bulletins, any number of restarts.

`CHECK_DEADLOCK FALSE` is set where a model stops at its bounds or a request ends: everywhere
but in `node`, which can always be stopped and started.

Every property of a passing run has a mutant in `PROJECT.json`: a plausible bug in a mapped
definition (`X_...` next to `X` in the modules) that the run finds.

### Fairness

- `ReadingEnds`: the reader asks on, and blocks are bounded.
- `FollowerCatchesUp`: weak fairness of the follower's goroutine, which loops for as long as the
  process runs (follower.go:174-177, 203-207) and repeats what fails: the leader's
  answers arrive in the end. Neither the leader nor the logs are fair.
- `EveryRequestIsAnswered`: weak fairness of each request's goroutine: its calls return or
  time out. One of them, `TransactionReceipt`, is called with `context.Background()`
  (backend.go:159) and has no timeout of its own; that it returns is assumed. Blocks,
  payments and the follower need not go on.
- `StartEnds`: weak fairness of main and of its goroutines while the process runs: opening a database,
  listening and starting a server return, with a result or an error. Nothing makes the
  process end, and signals, crashes and edits are unfair.

## Findings

Each is a run that ends in a violation of one property, which a comment of the repository states.

- `url`: only the last head written to a range stays in it (app.go:414-423 copies the old
  list into a nil slice), so the second bulletin of a block has no URL that finds it.
- `follower_election`: the election's log may come before its block; the old list is then
  cached and stays until the next election.
- `auth`: the hash function of a Merkle path is not reset between two pairs (merkle.go:37-43), so a
  member of a set of more than two addresses is refused with the right path. What else
  `Checkable` excludes from `EntitledIsNotRefused` is of the same kind: dynamic conditions never hold
  (auth.go:139), and of the payments only as many are known as there are sets (auth.go:75).

More of the kind, which the models have and no run of its own shows: a creation that is refused because the
batch is full leaves its first writes in it (app.go:387-396), under the SN that the next accepted transaction
gets; the log catcher's panic at a list that became shorter ends the node (contract.go:152); two blocks of one
second give the same SNs (`SerialNumbersAreUnique` assumes a second between them, and fails without); ids
hash two bytes of a bulletin and of its proof (tx.go:181) where the comment says the whole of both (tx.go:169), so that they tell few bulletins apart; a timestamp beyond 40 bits
is stored in another period (`PageIsWanted` is checked within 40 bits); a bulletin is
committed before it is paid for, and may never be; a configuration of no shards starts, and its
first request divides by zero; when HTTPS fails, HTTP goes on and is never stopped (server.go:111-116).

## Proofs

`tlapm` checks every leaf. Assumptions are the named `ASSUME`s on the constants, and those
stated in a theorem.

**GanyAppProofs**
- `TypeCorrect`: `TypeOK` is inductive; a lemma per operator of `BulletinStore` says what type of
  value it returns.
- `HistoriesKept`: every entry is stored under the main key of its latest version and its
  history holds one id. `KeyIsItsBulletins` is the strengthening: `overwriteBulletin` finds the entry
  under a truncated key, and only `CanBeOverwrittenBy` makes the new version compute that same key.
  No assumption on blocks or batches.
- `SerialNumbersAreUnique`, for blocks at least a second apart (`MinBlockGap >= 1`) and
  batches that do not fill up (`MaxBlockTxs <= TxnLimit`). Uniqueness alone is not inductive: `SnInv` adds that
  the SNs of the batch are before the current one and those of the database of earlier
  blocks. Both assumptions are needed: two blocks of one second
  give the same SNs, and the `Accepted_Anytime` mutant shows what a full batch does.
- `BlocksExtendHistories` and `DeletedIsGone`, under the same assumptions: a commit extends each history or leaves it,
  and what is new in it is of this block. `LineageInv` relates the batch to the database it started from,
  transaction by transaction.
- `LoneUrlsResolve`, under the same assumptions. `UrlInv` says of both stores that the range of a first version that
  is alone in it holds its head and lives as long as it does, and that the key map has all SNs of a range:
  a new bulletin of a range that is in use makes the others not alone, and an overwrite leaves ranges as they are.
- `LifetimesAreBounded`, for durations that do not overflow (`duration < DurationHalf`), from `LifetimeInv`: what
  `toValidTTL` gives is within `MinTTL` and `MaxTTL` of a clock that only goes on.
- `AnswersTakeEffect`, an action property, for blocks a second apart, a batch that does not fill up and durations
  that do not overflow: a bulletin whose duration does is accepted and dead on arrival.
- `ErrorsTouchNoOther`, an action property with no assumption on blocks or batches. Of a refused
  transaction a batch may keep up to two writes; all of them are under the SN that it was tried with
  (`RefusedPutsUnderItsSn`), and what was there under any other SN is stored, and read, as before.

**GanyReplayProofs**: `ReplaysAreIdempotent`. Its hypotheses are the run's: nothing expires while the clock runs, blocks are a
second apart, batches do not fill up, the disk does not fail, and overwrites name what could be read.
- A node that replays stands at one place of its chain, and its database holds what later places left there before
  the crash. `Reached(chain, h, n)` is one execution up to the n-th transaction of block h, and `Progress` says that
  the batch agrees with it on the bulletins whose SNs are before the current one (`Agree`); after the current one it may hold
  anything that the chain creates. After a restart the position is the start of the chain, where nothing is claimed:
  what the crash left needs no case of its own.
- `Durable` is what makes agreement grow: each stored bulletin is created by a transaction of the chain, under the SN
  that one execution gives it there (`Created`). So a creation on replay meets its own leftover under its own key and
  overwrites it (`AgreeAfterTx`), and at the end of a block no leftover has an SN in between (`AgreeAtEnd`, `AgreeUpToNext`).
- A transaction must get the answer that it got at first, for the next SN depends on it (`SameCode`). An overwrite that names an
  earlier SN does, by the agreement, and `~BlindOverwrites` gives that it is earlier: the bulletin was committed when the block
  was decided. A blind one may name a leftover, and then the replay accepts what was refused at first.
- `Execute` is a recursive function, and its unfolding over a growing chain is an induction: a minimal counterexample
  exists (`FirstNumber`, from the well-foundedness of finite subsets), for theorems with operator
  parameters cannot be used here.

**GanyShardProofs**
- `AppImplementsBoard`, the refinement, under the two assumptions of `SerialNumbersAreUnique`
  and durations that do not overflow. One lemma per kind of step: a creation publishes, an
  overwrite revises or withdraws the one post under its SN (`SnInv` gives that there is only one), what is refused stutters, time
  only takes posts away, and a commit shows the batch or nothing.
- `NodesAgree`, for any transactions and clocks, batches that fill up included, and disks
  that do not fail (`~DiskMayFail`): a commit that one node loses is a difference. The invariant
  says that both nodes hold the same keys, bulletins and histories, and that only lifetimes differ; the heart is
  that `putGanyTx` reads a clock only to find the entry of an overwrite.
- `PagesHoldWhatIsWanted` and `ReadersMissNothing`, under the assumptions of `SerialNumbersAreUnique`
  and for times that five bytes hold (`TimesFit`; others come back for the wrong period, see `KeyTellsPeriod`). A page is
  stated without recursion: a key's place is the number of keys before it. Places are an injection of the keys into as
  many numbers, so each place is taken (`PlacesAreTaken`), and a page is empty only where nothing is left to read
  (`PageOfReadable`). The invariant `ReaderInv` says of each bulletin owed to the reader that it was committed before the
  current block: nothing else has its serial number or gets it, so excluding what was given never excludes it.

**AdmissionProofs**, for every `Width`, `HeaderLen`, request, proof and tree
- `StoredLayout`: a wrapped sum would need lengths that add up to
  `Width` at least, and the fields before the wrapped one already lie within the bytes, which are fewer.
- `WhoIsLetInIsEntitled`, from `AuthorisedWasChecked`. Its hypotheses are what terms for hashes leave open: no address is a pair
  of hashes (`AddressesAreNoPairs`), the root of a tree is its only member's leaf or a hash of two, and a leaf below it
  is a member's (`MerkleRoot`), and topics name sets that somebody made (`NamedSetsExist`). Then no path of any length leads an outsider
  to a root: what is hashed of a path of two or more pairs has the form of no root (`OnlyMembersReachTheRoot`).
- `EntitledIsAdmitted`, for trees whose short paths lead to their roots (`PathsLeadToRoot`) and proofs that are `Checkable`. That no
  other condition or group panics is half of it: `CheckAuthProof` goes through them all.

**FollowerProofs**, for a leader that names its latest height (`~LeaderLags`; with a leader that
names an older one, catchupLeader returns it and old blocks are applied again)
- `StateFollowsChain` and `StateIsMonotone`, from `SyncInv`: the step the goroutine is at tells how far
  each store is, and the state store holds the state after `history` or `history + 1` blocks.
  `BlockApplies` is the heart: applying a block once more to the state after it changes nothing.
- `CacheIsMonotone`, for lists of any length, from `CacheInv`: one reader holds the lock, what it has read lies, slot
  by slot, between the cached list and the state store (`ReadSinceCached`), and it has read no more validators than its length
  word says (`WithinLength`). The list may be of several heights, since blocks are applied
  while it is read; by `StateIsMonotone` each slot of it is no older than the cached one all the same.

**PutBulletinProofs**, for every set of requests and transactions
- `TypeCorrect`: payments in flight, answers and wallets are of their types (`PaymentTypes`, `RequestTypes`).
- `PaidIsPublished`, from `BulletinFirst`: from the commit on a request's bulletin is published, also
  when the request has ended and its payment has not.
- `EveryPaymentIsSentOnce`, from `SentOnce`: who has sent is polling or has ended.
- `AnswersAreTrue` and `NoncesBuyOneBulletin`, from `PaidOnce`: the contract has moved on from the nonces
  of each payment it took, and, payments being sent once, no receipt is ever replaced.

**GanyNodeProofs**, for every set of configurations, topics and shards, from one invariant `IInv`
- `OpenShardsOnly`: the RPC server is started when all databases of the configuration are open, and the configuration
  stays as it is while a process runs.
- `AcceptedStaysFound`: every accepted bulletin lies in the database that its hash gives under the configuration of then
  (`InItsShard`), databases only grow, and serial numbers are not used twice.

**MockChainProofs**, for any requests and wallets, and any wrap of the nonces, from one invariant `IInv`
- Numbers are folds here: `Uint` of an amount's bytes, `Total` of the balances. A fold is a function on the subsets of a finite
  set, and what holds of it is shown of a smallest subset where it would not (`SmallestSet`, `FoldExists`,
  `FoldsAgree`). From these come `UintOfBytes`, that a byte more is 256 times the number and the byte, and
  `TotalOfSetWallet`, that a total changes by what one wallet changes.
- `TypeCorrect` and `NoTokensAreMade`, from `PaymentMovesTokens`: three wallets are written one after the other, so the sums are
  right also when some of the three are one.
- `StoredMeansPaid`: an accepted block stores its bulletin under its main key, or deletes it there, and leaves all other
  keys alone (`AcceptedIsHeld`, `BlockStoresAccepted`); what is kept of the payments changes at that key only
  (`KeptAppended`, `HeldIsKept`). What a refused block left in its batch is not there when the next begins.
- `SignaturesPayOnce`, from `NoncesCount`: who signed a payment has nonces since as many further as he has signed
  payments, this one included, until they have come round. A signature is over its nonces (`CheckedPayment`), so a second
  payment with it needs a full round.
- `ContractIsAskedWhatIsPaid`, for a validator on the list that the payer signed: V and the amount come out of the number
  that `PackAmountBV` makes of them, and a legal amount is copied as a whole.
- `MockRefusesAsBackend`: the two read their checks in another order of sources, and end alike.
- Assumed of requests is `IsPayment`, that amounts are bytes and V is one, and of delegations that nobody delegates to the address
  that a wrong signature recovers to.

Only model-checked: the liveness properties (`FollowerCatchesUp`, `EveryRequestIsAnswered`, `ReadingEnds`, `StartEnds`), for fairness is beyond the prover. Every other property of a passing run is a theorem.

## Not modelled

- `CheckTx`, `Query`, snapshots, `InitChain`: they change no state that anything modelled reads.
- Protobuf's own encoding, the contract's bindings and the messages' accessors: generated code.
- Hashes, signatures and the VRF as computations: they are terms, and the VRF's output is a constant.
- WebSockets: `OnStart` does not start them. Hex strings, CORS, flags, logging: I/O.
- Badger's garbage collection (cmd/gany.go): it rewrites files and changes no key.
- `follower/config.go`, `follower/service.go`: constants and an interface.
- `MockClient`: every method panics. `GenEIP712MsgForSR`: tests alone use it.
- In `PutBulletin`, a request that fails a check of its transaction alone ends there and is left out
  (`Admission` and `StochasticPayment` have those checks), and the delegation of a payer is fixed.

## What could follow

1. `PutBulletin` over `Follower`: the lagging view and the cached list as the follower gives them.
2. `ReplayRestoresBulletins` with a disk that may fail: a block that is lost is replayed after the next crash only.
3. `GanyReplicas` after a contested version: how far the two nodes can drift apart.
