---------------------------- MODULE FollowerProofs ----------------------------
(***************************************************************************)
(* What Follower does for every set of slots, every number of blocks and     *)
(* every number of crashes, with a leader that names its latest height.      *)
(***************************************************************************)
EXTENDS Follower, TLAPS

CacheStep ==
    \/ ReceiveLog \/ ReadForLog \/ ReadForRequest \/ FailRequest
    \/ \E reader \in Readers : ReadSlot(reader) \/ CacheList(reader)

\* What the follower's goroutine knows of the chain and of the stores.
SyncTypes ==
    /\ chain \in Seq(Block)
    /\ ads \in [Slots -> Nat]
    /\ history \in Nat
    /\ sbchHeight \in Nat
    /\ round \in 1 .. 3
    /\ step \in {"ask", "fetch", "record", "publish"}
    /\ want \in Nat \ {0}
    /\ target \in Nat

\* Where the goroutine is in updateState tells how far each store is: after the state
\* store, before the history store, it holds the block wanted; after a crash, it may
\* hold that block before it is fetched again.
SyncInv ==
    /\ SyncTypes
    /\ sbchHeight <= history
    /\ want = IF step = "publish" THEN history ELSE history + 1
    /\ history <= Len(chain)
    /\ target <= Len(chain)
    /\ round < 3 /\ step # "ask" => want <= target
    /\ round = 3 => step # "ask"
    /\ \E n \in {history, history + 1} : n <= Len(chain) /\ IsStateAfter(n)
    /\ step = "record" => want <= Len(chain) /\ IsStateAfter(want)

\* A follower that has never run starts in the invariant.
LEMMA SyncInvInit == Init => SyncInv
BY FollowerAssumption DEF Init, SyncInv, SyncTypes, IsStateAfter

\* A longer chain has the same states.
LEMMA ChainGrows ==
    ASSUME SyncTypes, NEW block \in Block, chain' = Append(chain, block),
           ads' = ads, NEW n \in Nat, n <= Len(chain), IsStateAfter(n)
    PROVE  n <= Len(chain') /\ IsStateAfter(n)'
<1>1. Len(chain') = Len(chain) + 1
  BY DEF SyncTypes
<1>2. \A h \in 1 .. Len(chain) : chain'[h] = chain[h]
  BY DEF SyncTypes
<1>3. \A s \in Slots : ads[s] \in Nat
  BY DEF SyncTypes
<1>4. Len(chain) \in Nat
  BY DEF SyncTypes
<1> QED BY <1>1, <1>2, <1>3, <1>4 DEF IsStateAfter

\* Applying block n + 1 to the state after n blocks, or once more to the state after
\* n + 1, gives the state after n + 1.
LEMMA BlockApplies ==
    ASSUME SyncTypes, NEW m \in Nat, NEW n \in {m, m + 1}, IsStateAfter(n),
           m + 1 <= Len(chain), chain' = chain,
           ads' = ApplyBlock(chain[m + 1], m + 1)
    PROVE  /\ IsStateAfter(m + 1)'
           /\ \A s \in Slots : ads[s] <= ads'[s]
<1>1. ASSUME NEW s \in Slots
      PROVE  /\ ads'[s] \in 0 .. m + 1
             /\ ads'[s] # 0 => s \in chain[ads'[s]].slots
             /\ \A h \in ads'[s] + 1 .. m + 1 : s \notin chain[h].slots
             /\ ads[s] <= ads'[s]
  <2>1. ads[s] \in Nat /\ ads[s] <= n
    BY <1>1 DEF SyncTypes, IsStateAfter
  <2>2. CASE s \in chain[m + 1].slots
    <3>1. ads'[s] = m + 1
      BY <1>1, <2>2 DEF ApplyBlock
    <3> QED BY <2>1, <2>2, <3>1
  <2>3. CASE s \notin chain[m + 1].slots
    <3>1. ads'[s] = ads[s]
      BY <1>1, <2>3 DEF ApplyBlock
    <3>2. ads[s] # 0 => s \in chain[ads[s]].slots
      BY <1>1 DEF IsStateAfter
    <3>3. \A h \in ads[s] + 1 .. n : s \notin chain[h].slots
      BY <1>1 DEF IsStateAfter
    <3>4. \A h \in ads[s] + 1 .. m + 1 : h \in ads[s] + 1 .. n \/ h = m + 1
      BY <2>1
    <3> QED BY <2>1, <2>3, <3>1, <3>2, <3>3, <3>4
  <2> QED BY <2>2, <2>3
<1> QED BY <1>1 DEF IsStateAfter

\* Every step keeps the invariant, and no slot of the state store goes back.
LEMMA SyncInvStep ==
    ASSUME ~LeaderLags, SyncInv, [Next]_vars
    PROVE  SyncInv' /\ \A s \in Slots : ads[s] <= ads'[s]
<1> USE DEF SyncInv
<1> DEFINE Monotone == \A s \in Slots : ads[s] <= ads'[s]
<1>0. ads' = ads => Monotone
  BY DEF SyncTypes
<1>1. CASE CacheStep \/ UNCHANGED vars
  <2>1. UNCHANGED <<chain, storeVars, syncVars>>
    BY <1>1 DEF CacheStep, ReceiveLog, ReadForLog, ReadForRequest, ReadSlot, CacheList,
                FailRequest, vars, StartReading
  <2> QED BY <1>0, <2>1 DEF storeVars, syncVars, SyncTypes, IsStateAfter
<1>2. CASE ProduceBlock
  <2>1. PICK block \in Blocks : chain' = Append(chain, block)
    BY <1>2 DEF ProduceBlock
  <2>2. block \in Block
    BY FollowerAssumption
  <2>3. UNCHANGED <<ads, history, sbchHeight, round, step, want, target>>
    BY <1>2 DEF ProduceBlock, storeVars, syncVars
  <2>4. SyncTypes' /\ Len(chain') = Len(chain) + 1
    BY <2>1, <2>2, <2>3 DEF SyncTypes
  <2>5. \E n \in {history', history' + 1} : n <= Len(chain') /\ IsStateAfter(n)'
    BY <2>1, <2>2, <2>3, ChainGrows DEF SyncTypes
  <2>6. step' = "record" => want' <= Len(chain') /\ IsStateAfter(want)'
    <3> SUFFICES ASSUME step' = "record" PROVE want' <= Len(chain') /\ IsStateAfter(want)'
      OBVIOUS
    <3>1. \A n \in Nat : n <= Len(chain) /\ IsStateAfter(n) =>
            n <= Len(chain') /\ IsStateAfter(n)'
      BY <2>1, <2>2, <2>3, ChainGrows
    <3>2. want \in Nat /\ want <= Len(chain) /\ IsStateAfter(want)
      BY <2>3 DEF SyncTypes
    <3> QED BY <2>3, <3>1, <3>2 DEF IsStateAfter
  <2> QED BY <1>0, <2>3, <2>4, <2>5, <2>6 DEF SyncTypes
<1>3. CASE AskHeight
  <2>1. /\ target' = Len(chain)
        /\ UNCHANGED <<chain, ads, history, sbchHeight>>
        /\ step = "ask"
    BY <1>3 DEF AskHeight, GeLatestBlockHeight, storeVars
  <2>2. CASE want <= Len(chain)
    <3>1. step' = "fetch" /\ round' = round /\ want' = want
      BY <1>3, <2>2, <2>1 DEF AskHeight, GeLatestBlockHeight
    <3>2. SyncTypes'
      BY <2>1, <3>1 DEF SyncTypes
    <3>3. \A n : IsStateAfter(n)' <=> IsStateAfter(n)
      BY <2>1 DEF IsStateAfter
    <3> QED BY <1>0, <2>1, <2>2, <3>1, <3>2, <3>3
  <2>3. CASE ~(want <= Len(chain))
    <3>1. EndRound(Len(chain))
      BY <1>3, <2>3, <2>1 DEF AskHeight, GeLatestBlockHeight
    <3>2. history = Len(chain)
      BY <2>1, <2>3 DEF SyncTypes
    <3>3. round \in 1 .. 2
      BY <2>1 DEF SyncTypes
    <3> QED BY <1>0, <2>1, <3>1, <3>2, <3>3 DEF EndRound, SyncTypes, IsStateAfter
  <2> QED BY <2>2, <2>3
<1>4. CASE FetchBlock
  <2>1. /\ step = "fetch" /\ want <= Len(chain) /\ step' = "record"
        /\ ads' = ApplyBlock(chain[want], want)
        /\ UNCHANGED <<chain, history, sbchHeight, round, want, target>>
    <3>1. PICK block \in GetSyncBlock(want) : ads' = ApplyBlock(block, want)
      BY <1>4 DEF FetchBlock
    <3>2. block = chain[want] /\ want \in 1 .. Len(chain)
      BY DEF GetSyncBlock, SyncTypes
    <3> QED BY <1>4, <3>1, <3>2 DEF FetchBlock
  <2>2. want = history + 1
    BY <2>1
  <2>3. IsStateAfter(history + 1)' /\ Monotone
    BY <2>1, <2>2, BlockApplies DEF SyncTypes
  <2>4. SyncTypes'
    BY <2>1 DEF SyncTypes, ApplyBlock
  <2>5. \E n \in {history', history' + 1} : n <= Len(chain') /\ IsStateAfter(n)'
    BY <2>1, <2>2, <2>3 DEF IsStateAfter
  <2> QED BY <2>1, <2>2, <2>3, <2>4, <2>5 DEF SyncTypes, IsStateAfter
<1>5. CASE RecordBlock
  <2>1. /\ step = "record" /\ step' = "publish" /\ history' = want
        /\ UNCHANGED <<chain, ads, sbchHeight, round, want, target>>
    BY <1>5 DEF RecordBlock
  <2> QED BY <1>0, <2>1 DEF SyncTypes, IsStateAfter
<1>6. CASE PublishBlock
  <2>1. /\ step = "publish" /\ sbchHeight' = want
        /\ UNCHANGED <<chain, ads, history, target>>
    BY <1>6 DEF PublishBlock, storeVars
  <2>2. CASE round < 3 /\ want >= target
    <3>1. EndRound(target) /\ want = target
      BY <1>6, <2>1, <2>2 DEF PublishBlock, SyncTypes
    <3> QED BY <1>0, <2>1, <2>2, <3>1 DEF EndRound, SyncTypes, IsStateAfter
  <2>3. CASE ~(round < 3 /\ want >= target)
    <3>1. want' = want + 1 /\ step' = "fetch" /\ round' = round
      BY <1>6, <2>3 DEF PublishBlock
    <3> QED BY <1>0, <2>1, <2>3, <3>1 DEF SyncTypes, IsStateAfter
  <2> QED BY <2>2, <2>3
<1>7. CASE Crash \/ LogCatcherPanics
  <2>1. /\ sbchHeight' = history /\ round' = 1 /\ step' = "ask"
        /\ want' = history + 1 /\ target' = 0
        /\ UNCHANGED <<chain, ads, history>>
    BY <1>7 DEF Crash, LogCatcherPanics, Restart, FirstWanted, storeVars
  <2> QED BY <1>0, <2>1 DEF SyncTypes, IsStateAfter
<1> QED BY <1>1, <1>2, <1>3, <1>4, <1>5, <1>6, <1>7 DEF Next, CacheStep

-----------------------------------------------------------------------------

\* The state store is always the leader's state after the blocks of the history store,
\* or after one more (follower.go:181-199), with any number of crashes.
THEOREM StateFollowsChain ==
    ASSUME ~LeaderLags
    PROVE  Spec => []StateIsPrefix
<1>1. SyncInv /\ [Next]_vars => SyncInv'
  BY SyncInvStep
<1>2. SyncInv => StateIsPrefix
  BY DEF SyncInv, StateIsPrefix
<1> QED BY SyncInvInit, <1>1, <1>2, PTL DEF Spec

\* No restart takes a slot of the state store back to an older value, although it
\* applies a block again (follower.go:82, 188).
THEOREM StateIsMonotone ==
    ASSUME ~LeaderLags
    PROVE  Spec => StateNeverGoesBack
<1>1. SyncInv /\ [Next]_vars => SyncInv'
  BY SyncInvStep
<1>2. SyncInv /\ [Next]_vars => [\A s \in Slots : ads[s] <= ads'[s]]_ads
  BY SyncInvStep
<1> QED BY SyncInvInit, <1>1, <1>2, PTL DEF Spec, StateNeverGoesBack

-----------------------------------------------------------------------------
(* The cached list of validators.                                           *)

\* What holds of the list and of its readers at every step. `CacheTypes` and the single
\* holder are there for the rest: what is cached was read from the store slot by slot,
\* and what the holder has read so far lies between the cached list and the store.
CacheTypes ==
    /\ crashes \in Nat
    /\ lock \subseteq Readers
    /\ cache \in Seq(Nat)
    /\ partial \in [Readers -> Seq(Nat)]

OneHolder == \A r1, r2 \in lock : r1 = r2

\* The first word read is slot 0's.
CachedWasRead ==
    \A i \in DOMAIN cache : i - 1 \in {0} \cup List /\ cache[i] <= ads[i - 1]

ReadSinceCached ==
    \A r \in lock : \A i \in DOMAIN partial[r] :
        /\ i - 1 \in {0} \cup List
        /\ partial[r][i] <= ads[i - 1]
        /\ i \in DOMAIN cache => cache[i] <= partial[r][i]

\* No reader goes beyond the length that it read.
WithinLength ==
    \A r \in lock : partial[r] # << >> =>
        /\ partial[r][1] \in 0 .. Len(chain)
        /\ Len(partial[r]) <= 1 + ListLength(partial[r][1])

CacheInv == CacheTypes /\ OneHolder /\ CachedWasRead /\ ReadSinceCached /\ WithinLength

\* The words of a list are slots, with values that are numbers.
LEMMA WordsAreSlots ==
    ASSUME SyncTypes
    PROVE  \A i \in {0} \cup List : i \in Slots /\ ads[i] \in Nat
BY FollowerAssumption DEF SyncTypes

\* A length fits the slots of the list.
LEMMA LengthsFit ==
    ASSUME SyncTypes, NEW height \in 0 .. Len(chain)
    PROVE  ListLength(height) \in 0 .. MaxListLength
<1>1. CASE height = 0
  BY <1>1, FollowerAssumption DEF ListLength
<1>2. CASE height # 0
  <2>1. height \in 1 .. Len(chain)
    BY <1>2
  <2>2. chain[height] \in Block
    BY <2>1 DEF SyncTypes
  <2> QED BY <1>2, <2>2 DEF ListLength, Block
<1> QED BY <1>1, <1>2

\* What is at least a cached word, and at most a stored one, lies between them.
LEMMA AtMostIsTransitive ==
    \A a, b, c \in Nat : a <= b /\ b <= c => a <= c
OBVIOUS

\* While the cache stays, a store that does not go back keeps both bounds, and the
\* blocks of a chain that grows keep their lengths.
LEMMA StoreMayAdvance ==
    ASSUME SyncTypes, SyncTypes', CacheInv, \A s \in Slots : ads[s] <= ads'[s],
           Len(chain) <= Len(chain'), \A h \in 1 .. Len(chain) : chain'[h] = chain[h],
           UNCHANGED <<cache, lock, partial, crashes>>
    PROVE  CacheInv'
<1>1. \A i \in {0} \cup List : ads[i] \in Nat /\ ads'[i] \in Nat /\ ads[i] <= ads'[i]
  BY FollowerAssumption DEF SyncTypes
<1>2. CacheTypes' /\ OneHolder'
  BY DEF CacheInv, CacheTypes, OneHolder
<1>3. CachedWasRead'
  <2> SUFFICES ASSUME NEW i \in DOMAIN cache
               PROVE  i - 1 \in {0} \cup List /\ cache[i] <= ads'[i - 1]
    BY DEF CachedWasRead
  <2>1. cache[i] \in Nat
    BY DEF CacheInv, CacheTypes
  <2>2. i - 1 \in {0} \cup List /\ cache[i] <= ads[i - 1]
    BY DEF CacheInv, CachedWasRead
  <2> DEFINE j == i - 1
  <2>3. j \in {0} \cup List /\ cache[i] <= ads[j]
    BY <2>2
  <2> HIDE DEF j
  <2>4. cache[i] <= ads'[j]
    <3>1. ads[j] \in Nat /\ ads'[j] \in Nat /\ ads[j] <= ads'[j]
      BY <1>1, <2>3
    <3> QED BY <2>1, <2>3, <3>1, AtMostIsTransitive
  <2> QED BY <2>2, <2>4 DEF j
<1>4. ReadSinceCached'
  <2> SUFFICES ASSUME NEW r \in lock, NEW i \in DOMAIN partial[r]
               PROVE  /\ i - 1 \in {0} \cup List
                      /\ partial[r][i] <= ads'[i - 1]
                      /\ i \in DOMAIN cache => cache[i] <= partial[r][i]
    BY DEF ReadSinceCached
  <2>1. partial[r] \in Seq(Nat)
    BY DEF CacheInv, CacheTypes
  <2>2. /\ i - 1 \in {0} \cup List /\ partial[r][i] <= ads[i - 1]
        /\ i \in DOMAIN cache => cache[i] <= partial[r][i]
    BY DEF CacheInv, ReadSinceCached
  <2>3. partial[r][i] \in Nat
    BY <2>1
  <2> DEFINE j == i - 1
  <2>4. j \in {0} \cup List /\ partial[r][i] <= ads[j]
    BY <2>2
  <2> HIDE DEF j
  <2>5. partial[r][i] <= ads'[j]
    <3>1. ads[j] \in Nat /\ ads'[j] \in Nat /\ ads[j] <= ads'[j]
      BY <1>1, <2>4
    <3> QED BY <2>3, <2>4, <3>1, AtMostIsTransitive
  <2> QED BY <2>2, <2>5 DEF j
<1>5. WithinLength'
  <2> SUFFICES ASSUME NEW r \in lock, partial[r] # << >>
               PROVE  /\ partial[r][1] \in 0 .. Len(chain')
                      /\ Len(partial[r]) <= 1 + ListLength(partial[r][1])'
    BY DEF WithinLength
  <2> DEFINE h == partial[r][1]
  <2>1. h \in 0 .. Len(chain) /\ Len(partial[r]) <= 1 + ListLength(h)
    BY DEF CacheInv, WithinLength
  <2>2. Len(chain) \in Nat /\ Len(chain') \in Nat
    BY DEF SyncTypes
  <2>3. ListLength(h)' = ListLength(h)
    BY <2>1, <2>2 DEF ListLength
  <2> QED BY <2>1, <2>2, <2>3
<1> QED BY <1>2, <1>3, <1>4, <1>5 DEF CacheInv

\* A list of which nothing has been read is between any cache and any store.
LEMMA ReadingStarts ==
    ASSUME CacheInv, NEW reader \in Readers, StartReading(reader),
           UNCHANGED <<chain, ads, cache, crashes>>
    PROVE  CacheInv'
<1>1. lock' = {reader} /\ partial' = [partial EXCEPT ![reader] = << >>]
  BY DEF StartReading, MayLock
<1>2. partial'[reader] = << >>
  BY <1>1 DEF CacheInv, CacheTypes
<1>3. CacheTypes' /\ OneHolder'
  BY <1>1 DEF CacheInv, CacheTypes, OneHolder
<1>4. ReadSinceCached' /\ WithinLength'
  BY <1>1, <1>2 DEF ReadSinceCached, WithinLength
<1> QED BY <1>3, <1>4 DEF CacheInv, CachedWasRead

\* A word read next is at least what the cache has of it, and it is in a slot: no
\* length is beyond the slots of the list.
LEMMA SlotIsRead ==
    ASSUME SyncInv, CacheInv, NEW reader \in Readers, ReadSlot(reader)
    PROVE  CacheInv'
<1> DEFINE old == partial[reader]
           n == Len(old)
           new == Append(old, ads[n])
<1>1. /\ reader \in lock /\ old \in Seq(Nat) /\ n \in Nat
      /\ UNCHANGED <<chain, ads, cache, lock, crashes>>
      /\ partial' = [partial EXCEPT ![reader] = new]
  BY DEF ReadSlot, NextSlot, CacheInv, CacheTypes, storeVars
<1>2. old # << >> => old[1] \in 0 .. Len(chain) /\ n <= ListLength(old[1])
  <2> SUFFICES ASSUME old # << >>
               PROVE  old[1] \in 0 .. Len(chain) /\ n <= ListLength(old[1])
    OBVIOUS
  <2>1. old[1] \in 0 .. Len(chain) /\ n <= 1 + ListLength(old[1])
    BY <1>1 DEF CacheInv, WithinLength
  <2>2. n # 1 + ListLength(old[1])
    BY DEF ReadSlot, HasRead
  <2>3. ListLength(old[1]) \in Nat
    BY <2>1, LengthsFit DEF SyncInv
  <2> QED BY <1>1, <2>1, <2>2, <2>3
<1>3. n \in {0} \cup List
  <2> SUFFICES ASSUME n # 0 PROVE n \in List
    OBVIOUS
  <2>1. old # << >>
    BY <1>1
  <2>2. ListLength(old[1]) \in 0 .. MaxListLength
    BY <1>2, <2>1, LengthsFit DEF SyncInv
  <2> QED BY <1>1, <1>2, <2>1, <2>2, FollowerAssumption DEF List
<1>4. ads[n] \in Nat /\ n \in Slots
  BY <1>3, WordsAreSlots DEF SyncInv
<1>5. /\ Len(new) = n + 1 /\ new \in Seq(Nat)
      /\ new[n + 1] = ads[n] /\ \A i \in 1 .. n : new[i] = old[i]
  <2> DEFINE word == ads[n]
  <2>1. old \in Seq(Nat) /\ word \in Nat
    BY <1>1, <1>4
  <2>2. /\ Len(Append(old, word)) = n + 1 /\ Append(old, word) \in Seq(Nat)
        /\ Append(old, word)[n + 1] = word
        /\ \A i \in 1 .. n : Append(old, word)[i] = old[i]
    <3> HIDE DEF old, word
    <3> QED BY <2>1
  <2> QED BY <2>2
<1>6. partial'[reader] = new /\ \A r \in lock : r = reader
  BY <1>1 DEF CacheInv, CacheTypes, OneHolder
<1> HIDE DEF new
<1>7. CacheTypes' /\ OneHolder' /\ CachedWasRead'
  BY <1>1, <1>5 DEF CacheInv, CacheTypes, OneHolder, CachedWasRead
<1>8. ReadSinceCached'
  <2> SUFFICES ASSUME NEW i \in 1 .. n + 1
               PROVE  /\ i - 1 \in {0} \cup List
                      /\ new[i] <= ads[i - 1]
                      /\ i \in DOMAIN cache => cache[i] <= new[i]
    <3>1. DOMAIN new = 1 .. n + 1
      BY <1>5
    <3> QED BY <1>1, <1>6, <3>1 DEF ReadSinceCached
  <2>1. CASE i = n + 1
    <3>1. i \in DOMAIN cache => cache[i] <= ads[i - 1]
      BY DEF CacheInv, CachedWasRead
    <3>2. i - 1 = n
      BY <1>1, <2>1
    <3> QED BY <1>3, <1>4, <1>5, <2>1, <3>1, <3>2
  <2>2. CASE i \in 1 .. n
    <3>1. i \in DOMAIN old
      BY <1>1, <2>2
    <3>2. /\ i - 1 \in {0} \cup List
          /\ old[i] <= ads[i - 1]
          /\ i \in DOMAIN cache => cache[i] <= old[i]
      BY <1>1, <3>1 DEF CacheInv, ReadSinceCached
    <3> QED BY <1>5, <2>2, <3>2
  <2> QED BY <1>1, <2>1, <2>2
<1>9. WithinLength'
  <2> SUFFICES new[1] \in 0 .. Len(chain) /\ n + 1 <= 1 + ListLength(new[1])
    <3>1. ListLength(new[1])' = ListLength(new[1])
      BY <1>1 DEF ListLength, new
    <3> QED BY <1>1, <1>5, <1>6, <3>1 DEF WithinLength, ListLength
  <2>1. CASE old = << >>
    <3>1. n = 0
      BY <2>1
    <3>2. new[1] = ads[0]
      BY <1>5, <3>1
    <3>3. ads[0] \in 0 .. Len(chain)
      BY FollowerAssumption DEF SyncInv, SyncTypes, IsStateAfter
    <3>4. ListLength(ads[0]) \in Nat
      BY <3>3, LengthsFit DEF SyncInv
    <3> QED BY <3>1, <3>2, <3>3, <3>4
  <2>2. CASE old # << >>
    <3>1. new[1] = old[1]
      BY <1>1, <1>5, <2>2
    <3>2. ListLength(old[1]) \in Nat
      BY <1>2, <2>2, LengthsFit DEF SyncInv
    <3> QED BY <1>1, <1>2, <2>2, <3>1, <3>2
  <2> QED BY <2>1, <2>2
<1> QED BY <1>7, <1>8, <1>9 DEF CacheInv

\* The list that replaces the cached one has no older word than it.
LEMMA ListIsCached ==
    ASSUME CacheInv, NEW reader \in Readers, CacheList(reader)
    PROVE  /\ CacheInv'
           /\ \A i \in DOMAIN cache \cap DOMAIN cache' : cache'[i] >= cache[i]
<1> DEFINE new == partial[reader]
<1>1. /\ reader \in lock /\ new \in Seq(Nat)
      /\ cache' = new
      /\ lock' = lock \ {reader}
      /\ partial' = [partial EXCEPT ![reader] = << >>]
      /\ UNCHANGED <<ads, crashes>>
  BY DEF CacheList, CacheInv, CacheTypes, storeVars
<1>2. \A i \in DOMAIN new : /\ i - 1 \in {0} \cup List /\ new[i] <= ads[i - 1]
                            /\ i \in DOMAIN cache => cache[i] <= new[i]
  BY <1>1 DEF CacheInv, ReadSinceCached
<1>3. lock' = {}
  BY <1>1 DEF CacheInv, OneHolder
<1>4. CacheTypes'
  BY <1>1, <1>3 DEF CacheInv, CacheTypes
<1>5. CachedWasRead'
  BY <1>1, <1>2 DEF CachedWasRead
<1>6. \A i \in DOMAIN cache : cache[i] \in Nat
  BY DEF CacheInv, CacheTypes
<1>7. \A i \in DOMAIN new : new[i] \in Nat
  BY <1>1
<1>8. \A i \in DOMAIN cache \cap DOMAIN cache' : cache'[i] >= cache[i]
  BY <1>1, <1>2, <1>6, <1>7
<1>9. OneHolder' /\ ReadSinceCached' /\ WithinLength'
  BY <1>3 DEF OneHolder, ReadSinceCached, WithinLength
<1> QED BY <1>4, <1>5, <1>8, <1>9 DEF CacheInv

\* A request that fails leaves the lock, and the cache as it was.
LEMMA FailureLeavesCache ==
    ASSUME CacheInv, FailRequest
    PROVE  CacheInv' /\ cache' = cache
<1>1. /\ "rpc" \in lock /\ lock' = lock \ {"rpc"}
      /\ partial' = [partial EXCEPT !["rpc"] = << >>]
      /\ UNCHANGED <<ads, cache, crashes>>
  BY DEF FailRequest, FindsEmptySlot, storeVars
<1>2. lock' = {}
  BY <1>1 DEF CacheInv, OneHolder
<1>3. CacheTypes' /\ CachedWasRead'
  BY <1>1, <1>2 DEF CacheInv, CacheTypes, CachedWasRead, Readers
<1>4. OneHolder' /\ ReadSinceCached' /\ WithinLength'
  BY <1>2 DEF OneHolder, ReadSinceCached, WithinLength
<1> QED BY <1>1, <1>3, <1>4 DEF CacheInv

\* What no step of a running process undoes.
CacheAdvances ==
    crashes' = crashes =>
        \A i \in DOMAIN cache \cap DOMAIN cache' : cache'[i] >= cache[i]

\* Every step keeps the invariant of the cache, and no step of a running process
\* takes a word of the cached list back.
LEMMA CacheInvStep ==
    ASSUME ~LeaderLags, SyncInv, CacheInv, [Next]_vars
    PROVE  CacheInv' /\ CacheAdvances
<1>1. SyncTypes /\ SyncTypes' /\ \A s \in Slots : ads[s] <= ads'[s]
  BY SyncInvStep DEF SyncInv
<1>2. cache' = cache => CacheAdvances
  <2>1. \A i \in DOMAIN cache : cache[i] \in Nat
    BY DEF CacheInv, CacheTypes
  <2> QED BY <2>1 DEF CacheAdvances
<1>3. ASSUME NEW reader \in Readers, CacheList(reader)
      PROVE  CacheInv' /\ CacheAdvances
  BY <1>3, ListIsCached DEF CacheAdvances
<1>4. ASSUME NEW reader \in Readers, ReadSlot(reader)
      PROVE  CacheInv' /\ CacheAdvances
  BY <1>2, <1>4, SlotIsRead DEF ReadSlot
<1>5. CASE ReadForLog \/ ReadForRequest
  <2>1. PICK reader \in Readers : StartReading(reader)
    BY <1>5 DEF ReadForLog, ReadForRequest, Readers
  <2>2. UNCHANGED <<chain, ads, cache, crashes>>
    BY <1>5 DEF ReadForLog, ReadForRequest, storeVars
  <2> QED BY <1>2, <2>1, <2>2, ReadingStarts
<1>6. CASE Crash \/ LogCatcherPanics
  <2>1. /\ crashes' = crashes + 1 /\ cache' = << >> /\ lock' = {}
        /\ partial' = [r \in Readers |-> << >>]
    BY <1>6 DEF Crash, LogCatcherPanics, Restart
  <2>2. crashes \in Nat
    BY DEF CacheInv, CacheTypes
  <2>3. crashes' \in Nat /\ crashes' # crashes
    BY <2>1, <2>2
  <2>4. CacheInv'
    BY <2>1, <2>3
       DEF CacheInv, CacheTypes, OneHolder, CachedWasRead, ReadSinceCached, WithinLength
  <2> QED BY <2>3, <2>4 DEF CacheAdvances
<1>7. CASE ProduceBlock \/ AskHeight \/ FetchBlock \/ RecordBlock \/ PublishBlock
           \/ ReceiveLog \/ UNCHANGED vars
  <2>1. UNCHANGED <<cache, lock, partial, crashes>>
    BY <1>7 DEF ProduceBlock, AskHeight, FetchBlock, RecordBlock, PublishBlock, ReceiveLog,
                vars, cacheVars
  <2>2. Len(chain) <= Len(chain') /\ \A h \in 1 .. Len(chain) : chain'[h] = chain[h]
    <3>1. CASE chain' = chain
      BY <1>1, <3>1 DEF SyncTypes
    <3>2. CASE ProduceBlock
      <4>1. PICK block \in Blocks : chain' = Append(chain, block)
        BY <3>2 DEF ProduceBlock
      <4>2. chain \in Seq(Block) /\ block \in Block
        BY <1>1, FollowerAssumption DEF SyncTypes
      <4> QED BY <4>1, <4>2
    <3>3. ProduceBlock \/ chain' = chain
      BY <1>7 DEF AskHeight, FetchBlock, RecordBlock, PublishBlock, ReceiveLog, vars
    <3> QED BY <3>1, <3>2, <3>3
  <2> QED BY <1>1, <1>2, <2>1, <2>2, StoreMayAdvance
<1>8. CASE FailRequest
  BY <1>2, <1>8, FailureLeavesCache
<1> QED BY <1>3, <1>4, <1>5, <1>6, <1>7, <1>8 DEF Next

\* While the process runs, no reading that began earlier takes the cached list back
\* (follower.go:310-312), neither its length (contract.go:127-128) nor a validator: the
\* lock lets one reader in at a time.
THEOREM CacheIsMonotone ==
    ASSUME ~LeaderLags
    PROVE  Spec => CacheNeverGoesBack
<1>1. Init => CacheInv
  BY DEF Init, CacheInv, CacheTypes, OneHolder, CachedWasRead, ReadSinceCached, WithinLength
<1>2. SyncInv /\ [Next]_vars => SyncInv'
  BY SyncInvStep
<1>3. SyncInv /\ CacheInv /\ [Next]_vars => CacheInv' /\ CacheAdvances
  BY CacheInvStep
<1>4. SyncInv /\ CacheInv /\ [Next]_vars => [CacheAdvances]_vars
  BY <1>3
<1>5. CacheNeverGoesBack <=> [][CacheAdvances]_vars
  BY DEF CacheNeverGoesBack, CacheAdvances
<1> QED BY SyncInvInit, <1>1, <1>2, <1>3, <1>4, <1>5, PTL DEF Spec
=============================================================================
