------------------------------ MODULE Follower ------------------------------
(***************************************************************************)
(* The follower of smartBCH (src/follower/follower.go): a goroutine copies   *)
(* the leader's blocks into a state store and a history store, another       *)
(* listens for elections and caches the list of validators, and the          *)
(* backend's requests read that list. A crash keeps the two stores only.     *)
(*                                                                          *)
(* A block writes a set of storage slots, and the value of a slot is the     *)
(* height of the block that wrote it last, 0 if none did: that block tells   *)
(* what the slot holds. Slot 0 is the word with the length of the list of    *)
(* validators; the words of a validator are one slot, which is empty behind  *)
(* the end of the list.                                                      *)
(***************************************************************************)
EXTENDS Integers, Sequences

CONSTANTS
    Slots,          \* the storage slots
    MaxListLength,  \* slots 1 .. MaxListLength hold validators
    Blocks,         \* the blocks the leader may produce
    LeaderLags,     \* whether the leader may name a height below its latest
    MaxHeight, MaxCrashes   \* bounds of the model

List == 1 .. MaxListLength

\* The slots a block writes, the length of the list as it leaves it, and whether
\* the contract logs an election in it.
Block == [slots : SUBSET Slots, length : 0 .. MaxListLength, elects : BOOLEAN]

ASSUME FollowerAssumption ==
    /\ MaxListLength \in Nat
    /\ {0} \cup List \subseteq Slots
    /\ Blocks \subseteq Block
    /\ LeaderLags \in BOOLEAN
    /\ MaxHeight \in Nat /\ MaxCrashes \in Nat

VARIABLES
    chain,      \* the leader's blocks
    ads,        \* the state store: slot -> value
    history,    \* the latest height of the history store
    sbchHeight, \* the height requests are told
    round,      \* 1 and 2: catching up, 3: in sync
    step,       \* "ask" for the latest height, "fetch", "record" or "publish" a block
    want,       \* the height of the block wanted next
    target,     \* latestHeight, as the leader told it
    cache,      \* validatorPubKeyList: the length word it came of, the validators
    lock,       \* who holds mu for writing: a set of readers
    partial,    \* what each reader has read: the length word, then validators
    logs,       \* heights of elections whose logs are on their way
    election,   \* the election the log catcher handles, 0 if none
    crashes     \* crashes so far

storeVars == <<ads, history>>
syncVars == <<sbchHeight, round, step, want, target>>
cacheVars == <<cache, lock, partial, logs, election>>
vars == <<chain, storeVars, syncVars, cacheVars, crashes>>

Readers == {"log", "rpc"}

Init ==
    /\ chain = << >>
    /\ ads = [s \in Slots |-> 0]
    /\ history = 0
    /\ sbchHeight = 0
    /\ round = 1 /\ step = "ask" /\ want = 1 /\ target = 0
    /\ cache = << >>
    /\ lock = {}
    /\ partial = [r \in Readers |-> << >>]
    /\ logs = << >>
    /\ election = 0
    /\ crashes = 0

-----------------------------------------------------------------------------
(* The leader.                                                              *)

\* The log of an election goes to who has subscribed.
ProduceBlock ==
    /\ Len(chain) < MaxHeight
    /\ \E block \in Blocks :
        /\ chain' = Append(chain, block)
        /\ logs' = IF block.elects THEN Append(logs, Len(chain')) ELSE logs
    /\ UNCHANGED <<storeVars, syncVars, cache, lock, partial, election, crashes>>

-----------------------------------------------------------------------------
(* runFollower.                                                             *)

\* The first block wanted after a catch-up to `latest`, in the next round.
EndRound(latest) ==
    /\ round' = round + 1
    /\ want' = latest + 1
    /\ step' = IF round' = 3 THEN "fetch" ELSE "ask"

\* eth_blockNumber, which a request that fails repeats.
GeLatestBlockHeight == IF LeaderLags THEN 0 .. Len(chain) ELSE {Len(chain)}

\* sbch_getSyncBlock: none is an error, as is anything that cannot be decoded.
GetSyncBlock(height) == {chain[h] : h \in {height} \cap DOMAIN chain}

\* catchupLeader asks until it gets an answer, then wants the blocks up to it.
AskHeight ==
    /\ step = "ask"
    /\ \E latest \in GeLatestBlockHeight :
        /\ target' = latest
        /\ IF want <= latest
           THEN step' = "fetch" /\ UNCHANGED <<round, want>>
           ELSE EndRound(latest)
    /\ UNCHANGED <<chain, storeVars, sbchHeight, cacheVars, crashes>>

ApplyBlock(block, height) ==
    [s \in Slots |-> IF s \in block.slots THEN height ELSE ads[s]]

\* A block that cannot be fetched is passed over.
FetchBlock_Skipping ==
    /\ step = "fetch"
    /\ \/ /\ want <= Len(chain)
          /\ ads' = ApplyBlock(chain[want], want)
          /\ step' = "record"
          /\ UNCHANGED want
       \/ /\ want < MaxHeight
          /\ want' = want + 1
          /\ UNCHANGED <<ads, step>>
    /\ UNCHANGED <<chain, history, sbchHeight, round, target, cacheVars, crashes>>

\* No block is fetched beyond the height the leader told.
FetchBlock_ToTarget ==
    /\ step = "fetch"
    /\ want <= target
    /\ ads' = ApplyBlock(chain[want], want)
    /\ step' = "record"
    /\ UNCHANGED <<chain, history, sbchHeight, round, want, target, cacheVars, crashes>>

\* GetSyncBlock and SyncUpdateTo. Without the block, updateState returns the height
\* before it and is called for the same block again.
FetchBlock ==
    /\ step = "fetch"
    /\ \E block \in GetSyncBlock(want) : ads' = ApplyBlock(block, want)
    /\ step' = "record"
    /\ UNCHANGED <<chain, history, sbchHeight, round, want, target, cacheVars, crashes>>

\* historyStore.AddBlock
RecordBlock ==
    /\ step = "record"
    /\ history' = want
    /\ step' = "publish"
    /\ UNCHANGED <<chain, ads, sbchHeight, round, want, target, cacheVars, crashes>>

PublishBlock ==
    /\ step = "publish"
    /\ sbchHeight' = want
    /\ IF round < 3 /\ want >= target
       THEN EndRound(target)
       ELSE want' = want + 1 /\ step' = "fetch" /\ UNCHANGED round
    /\ UNCHANGED <<chain, storeVars, target, cacheVars, crashes>>

-----------------------------------------------------------------------------
(* The cached list of validators.                                           *)

\* The lock taken for reading only.
MayLock_Shared(reader) == reader \notin lock

MayLock(reader) == lock = {}

StartReading(reader) ==
    /\ MayLock(reader)
    /\ lock' = lock \cup {reader}
    /\ partial' = [partial EXCEPT ![reader] = << >>]

\* The log catcher receives the log of an election. It subscribes once: when the
\* subscription ends (follower.go:257), no log is received any more.
ReceiveLog ==
    /\ logs # << >>
    /\ election = 0
    /\ election' = Head(logs)
    /\ logs' = Tail(logs)
    /\ UNCHANGED <<chain, storeVars, syncVars, cache, lock, partial, crashes>>

ReadForLog ==
    /\ election # 0
    /\ "log" \notin lock
    /\ StartReading("log")
    /\ UNCHANGED <<chain, storeVars, syncVars, cache, logs, election, crashes>>

\* A request that found no list reads the store. It looks before it takes the lock
\* (follower.go:297), and any number of requests may have looked while there was none, so
\* that the list may be there when one of them gets the lock.
ReadForRequest ==
    /\ "rpc" \notin lock
    /\ StartReading("rpc")
    /\ UNCHANGED <<chain, storeVars, syncVars, cache, logs, election, crashes>>

\* The length that the length word of a block says, and whether it left slot i empty.
ListLength(height) == IF height = 0 THEN 0 ELSE chain[height].length
IsEmpty(i, height) == i > ListLength(height)

HasRead(reader) ==
    LET words == partial[reader]
    IN  words # << >> /\ Len(words) = 1 + ListLength(words[1])

\* The slot that comes next: the length word, then as many validators as it says.
NextSlot(reader) == Len(partial[reader])

FindsEmptySlot(reader) ==
    /\ reader \in lock
    /\ ~HasRead(reader)
    /\ NextSlot(reader) # 0 /\ IsEmpty(NextSlot(reader), ads[NextSlot(reader)])

ReadSlot(reader) ==
    /\ reader \in lock
    /\ ~HasRead(reader) /\ ~FindsEmptySlot(reader)
    /\ partial' = [partial EXCEPT ![reader] = Append(@, ads[NextSlot(reader)])]
    /\ UNCHANGED <<chain, storeVars, syncVars, cache, lock, logs, election, crashes>>

\* The length was read before an election that left a shorter list: the slice of an
\* empty word panics (contract.go:152). The RPC server recovers, and the request fails.
FailRequest ==
    /\ FindsEmptySlot("rpc")
    /\ lock' = lock \ {"rpc"}
    /\ partial' = [partial EXCEPT !["rpc"] = << >>]
    /\ UNCHANGED <<chain, storeVars, syncVars, cache, logs, election, crashes>>

CacheList(reader) ==
    /\ reader \in lock
    /\ HasRead(reader)
    /\ cache' = partial[reader]
    /\ lock' = lock \ {reader}
    /\ partial' = [partial EXCEPT ![reader] = << >>]
    /\ election' = IF reader = "log" THEN 0 ELSE election
    /\ UNCHANGED <<chain, storeVars, syncVars, logs, crashes>>

-----------------------------------------------------------------------------
(* Crashes.                                                                 *)

\* The block recorded last is wanted again.
FirstWanted_Inclusive == IF history = 0 THEN 1 ELSE history

FirstWanted == history + 1

\* The process ends and starts again. NewSbchFollower starts from the stores. An empty
\* history store makes it write the genesis accounts again (72-74): these hold balances,
\* and none of the slots. Logs of earlier elections are not sent to the new subscription.
Restart ==
    /\ crashes < MaxCrashes
    /\ crashes' = crashes + 1
    /\ sbchHeight' = history
    /\ round' = 1 /\ step' = "ask" /\ want' = FirstWanted /\ target' = 0
    /\ cache' = << >>
    /\ lock' = {}
    /\ partial' = [r \in Readers |-> << >>]
    /\ logs' = << >>
    /\ election' = 0
    /\ UNCHANGED <<chain, storeVars>>

Crash == Restart

\* The panic at an empty slot, in the log catcher, where nothing recovers.
LogCatcherPanics == FindsEmptySlot("log") /\ Restart

Next ==
    \/ ProduceBlock
    \/ AskHeight \/ FetchBlock \/ RecordBlock \/ PublishBlock
    \/ ReceiveLog \/ ReadForLog \/ ReadForRequest
    \/ \E reader \in Readers : ReadSlot(reader) \/ CacheList(reader)
    \/ FailRequest \/ LogCatcherPanics
    \/ Crash

\* The follower's goroutine runs for as long as the process does, and the leader's
\* answers reach it in the end: it repeats a request that fails.
Fairness ==
    /\ WF_vars(AskHeight)
    /\ WF_vars(FetchBlock)
    /\ WF_vars(RecordBlock)
    /\ WF_vars(PublishBlock)

Spec == Init /\ [][Next]_vars /\ Fairness

-----------------------------------------------------------------------------
(* Properties.                                                              *)

\* The values of the slots after the first n blocks.
IsStateAfter(n) ==
    \A s \in Slots :
        /\ ads[s] \in 0 .. n
        /\ ads[s] # 0 => s \in chain[ads[s]].slots
        /\ \A h \in ads[s] + 1 .. n : s \notin chain[h].slots

\* The state store holds what the leader's chain holds after the blocks of the
\* history store, or one block later (follower.go:187-189): no block is skipped,
\* torn or applied late, over any crashes between the two writes; and requests are
\* never told a height whose block is not stored (190).
StateIsPrefix ==
    /\ sbchHeight <= history
    /\ \E n \in {history, history + 1} :
        n <= Len(chain) /\ IsStateAfter(n)

\* What a request has read of the chain's state, a later one does not see undone:
\* no slot goes back to an older value, even when a restart applies again a block
\* that the crash kept from the history (188-189).
StateNeverGoesBack == [][\A s \in Slots : ads[s] <= ads'[s]]_ads

\* As long as the process runs, neither the length nor a validator of the cached list
\* is replaced by an earlier one: a reading that began before an election cannot
\* overwrite the list read after it, because it holds the lock (310-312). The list may
\* be of several blocks, for slots are written while it is read.
CacheNeverGoesBack ==
    [][crashes' = crashes =>
         \A i \in DOMAIN cache \cap DOMAIN cache' : cache'[i] >= cache[i]]_vars

\* The follower gets to every block of the leader, whatever crashes and however the
\* leader's chain grows while it catches up twice (168-179).
FollowerCatchesUp ==
    \A n \in 1 .. MaxHeight : Len(chain) >= n ~> sbchHeight >= n

\* "once the election log is identified, read the validator list and cache it"
\* (follower.go:239): the validators that the log catcher caches are not older than
\* the election whose log it handles, which writes all of them.
ElectionIsCached ==
    [][CacheList("log") => \A i \in DOMAIN cache' \ {1} : cache'[i] >= election]_vars
=============================================================================
