------------------------------ MODULE GanyReplay ------------------------------
(***************************************************************************)
(* A shard's application under Tendermint, with crashes of either process.  *)
(* Tendermint stores a block when it is decided and then executes it. The   *)
(* application keeps no height: Info answers 0 (app.go:117-119), so after a  *)
(* restart Tendermint executes every stored block again, from the first, on *)
(* a database that still holds what was committed before.                   *)
(***************************************************************************)
EXTENDS GanyApp, SequencesExt

CONSTANTS
    BlindOverwrites,    \* whether an OldSn may name a bulletin nobody has read
    MaxCrashes          \* bound of the model

ASSUME ReplayAssumption ==
    /\ BlindOverwrites \in BOOLEAN
    /\ MaxCrashes \in Nat

VARIABLES
    chain,      \* Tendermint's block store: the time and transactions of each block
    pos,        \* how many transactions of the current block were delivered
    crashes     \* crashes so far

rvars == <<vars, chain, pos, crashes>>

RInit ==
    /\ Init
    /\ chain = << >>
    /\ pos = 0
    /\ crashes = 0

CaughtUp == height = Len(chain) /\ phase = "idle"

-----------------------------------------------------------------------------

RTick == Tick /\ UNCHANGED <<chain, pos, crashes>>

\* The author of an overwrite has read the bulletin that it replaces.
Known(tx) ==
    \/ tx.oldSn = NoSn
    \/ BlindOverwrites
    \/ \E k \in DOMAIN committed.entries : k.sn = tx.oldSn

BlockTxs == SeqOf({tx \in Txs : Known(tx)}, MaxBlockTxs)

\* A new block is decided, stored, and its execution begins.
DecideBlock ==
    /\ CaughtUp
    /\ BeginBlock
    /\ \E txs \in BlockTxs :
        chain' = Append(chain, [time |-> blockTime', txs |-> txs])
    /\ pos' = 0
    /\ UNCHANGED crashes

\* The execution of the next stored block begins.
ReplayBlock ==
    /\ height < Len(chain)
    /\ BeginBlock
    /\ blockTime' = chain[height'].time
    /\ pos' = 0
    /\ UNCHANGED <<chain, crashes>>

Block == chain[height]

DeliverNextTx ==
    /\ phase = "block"
    /\ pos < Len(Block.txs)
    /\ DeliverTx(Block.txs[pos + 1])
    /\ pos' = pos + 1
    /\ UNCHANGED <<chain, crashes>>

CommitBlock ==
    /\ phase = "block"
    /\ pos = Len(Block.txs)
    /\ Commit
    /\ UNCHANGED <<chain, pos, crashes>>

\* A restart from the height of the last BeginBlock.
Restart_FromCurrentHeight ==
    /\ height' = height
    /\ blockTime' = blockTime

\* What Info tells Tendermint after a restart: nothing was executed.
Restart ==
    /\ height' = 0
    /\ blockTime' = 0

\* The open batch is lost and the database stays as it was last committed.
Crash ==
    /\ crashes < MaxCrashes
    /\ crashes' = crashes + 1
    /\ phase' = "idle"
    /\ Restart
    /\ txIndex' = 0
    /\ pos' = 0
    /\ batch' = committed
    /\ resp' = OK
    /\ UNCHANGED <<now, committed, chain>>

RNext ==
    \/ RTick
    \/ DecideBlock
    \/ ReplayBlock
    \/ DeliverNextTx
    \/ CommitBlock
    \/ Crash

RSpec == RInit /\ [][RNext]_rvars

-----------------------------------------------------------------------------
(* Properties.                                                              *)

\* The store and the next index after a transaction, delivered once, on a clock at which
\* nothing expires.
ExecuteTx(time, acc, tx) ==
    LET put == putGanyTx(acc.store, tx, <<time, acc.index>>, 1, CreateWriteCount)
    IN  [store |-> put.store,
         index |-> IF put.code = OK THEN acc.index + 1 ELSE acc.index]

\* The store and the next index after the first n transactions of a block.
ExecuteTxs(time, store, txs, n) ==
    LET after[i \in 0 .. n] ==
            IF i = 0 THEN [store |-> store, index |-> 0]
            ELSE ExecuteTx(time, after[i - 1], txs[i])
    IN  after[n]

ExecuteBlock(store, block) == ExecuteTxs(block.time, store, block.txs, Len(block.txs)).store

\* The store after the first n blocks, executed once.
Execute(blocks, n) ==
    LET after[i \in 0 .. n] ==
            IF i = 0 THEN EmptyStore
            ELSE ExecuteBlock(after[i - 1], blocks[i])
    IN  after[n]

\* When nothing expires and authors overwrite what they have read, a node that has
\* executed its chain holds exactly the bulletins and histories of executing it
\* once, however often it crashed, in a block or while it replayed: creations
\* restart the histories that overwrites extend again (app.go:365-396, 492-511).
ReplayRestoresBulletins ==
    CaughtUp => Bulletins(committed) = Bulletins(Execute(chain, Len(chain)))
=============================================================================
