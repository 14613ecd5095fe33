---------------------------- MODULE GanyNodeProofs ----------------------------
(***************************************************************************)
(* Proofs about GanyNode, for any configurations and numbers of shards: no  *)
(* request reaches a shard that is not open, and what was accepted is found *)
(* again. Both rest on the order in which main starts the servers, and on   *)
(* the databases that outlive every process.                                *)
(***************************************************************************)
EXTENDS GanyNode, TLAPS

\* How far main has come tells what else there is. The RPC server is there only when
\* every database is open.
StartOrder ==
    /\ main = "off" => opened = 0
    /\ main \in {"off", "opening"} => rpc = "off"
    /\ main = "opening" => opened \in 0 .. config.numOfShards
    /\ main \in {"running", "stopping"} => opened = config.numOfShards
    /\ main # "off" => config.numOfShards <= MaxShards

\* What was accepted is in the database that its topic chooses.
InItsShard ==
    \A a \in accepted :
        /\ a.config.numOfShards \in 1 .. MaxShards
        /\ a.bulletin.topic \in Topics
        /\ Aligned(a.config) =>
            a.bulletin \in disks[TopicHash[a.bulletin.topic] % a.config.numOfShards]

IInv == TypeOK /\ disks = [s \in Shards |-> disks[s]] /\ StartOrder /\ InItsShard

\* A node that has never run starts in the invariant.
LEMMA InitInv == Init => IInv
BY NodeAssumption DEF Init, IInv, TypeOK, StartOrder, InItsShard, Shards, Answering

\* While nothing is put, the bulletins stay where they are.
LEMMA StoredStay ==
    InItsShard /\ UNCHANGED <<disks, accepted>> => InItsShard'
BY DEF InItsShard, Aligned

\* A process ends, whatever it was doing.
LEMMA ExitInv == IInv /\ Exit => IInv'
BY StoredStay, NodeAssumption DEF Exit, IInv, TypeOK, StartOrder, Shards, Answering

\* The databases and the servers are started in an order that keeps the invariant.
LEMMA StartingInv ==
    ASSUME IInv,
           EditConfig \/ Start \/ OpenShard \/ RunServers
    PROVE  IInv'
<1>1. CASE EditConfig
    BY <1>1, StoredStay
       DEF EditConfig, IInv, TypeOK, StartOrder, Shards, Answering
<1>2. CASE Start
    BY <1>2, StoredStay, NodeAssumption
       DEF Start, readConfig, IInv, TypeOK, StartOrder, Shards, Answering
<1>3. CASE OpenShard
    <2>1. CASE Exit
        BY <2>1, ExitInv
    <2>2. CASE /\ opened' = opened + 1
               /\ abci' = [abci EXCEPT ![opened] = "starting"]
               /\ UNCHANGED <<config, main, rpc, disks, accepted>>
        <3>1. /\ main = "opening" /\ opened < config.numOfShards
              /\ config.numOfShards \in Nat /\ config.numOfShards <= MaxShards
            BY <1>3, NodeAssumption DEF OpenShard, IInv, TypeOK, StartOrder
        <3>2. opened' \in 0 .. config.numOfShards /\ opened' \in 0 .. MaxShards
            BY <2>2, <3>1, NodeAssumption DEF IInv, TypeOK
        <3> QED BY <2>2, <3>1, <3>2, StoredStay
                DEF IInv, TypeOK, StartOrder, Shards, Answering
    <2> QED BY <1>3, <2>1, <2>2 DEF OpenShard
<1>4. CASE RunServers
    BY <1>4, StoredStay, NodeAssumption
       DEF RunServers, IInv, TypeOK, StartOrder, Shards, Answering
<1> QED BY <1>1, <1>2, <1>3, <1>4

\* The servers' goroutines, signals and stops keep the invariant.
LEMMA ServersInv ==
    ASSUME IInv,
           \/ StartHttp \/ StartHttps \/ Signal \/ StopServer \/ Stop
           \/ \E s \in Shards : StartListener(s)
    PROVE  IInv'
<1>1. CASE StartHttp
    BY <1>1, StoredStay DEF StartHttp, IInv, TypeOK, StartOrder, Shards, Answering
<1>2. CASE StartHttps
    BY <1>2, StoredStay DEF StartHttps, IInv, TypeOK, StartOrder, Shards, Answering
<1>3. CASE Signal
    BY <1>3, StoredStay DEF Signal, IInv, TypeOK, StartOrder, Shards, Answering
<1>4. CASE StopServer
    BY <1>4, StoredStay DEF StopServer, IInv, TypeOK, StartOrder, Shards, Answering
<1>5. CASE Stop
    BY <1>5, ExitInv DEF Stop
<1>6. ASSUME NEW s \in Shards, StartListener(s) PROVE IInv'
    BY <1>6, StoredStay, ExitInv
       DEF StartListener, IInv, TypeOK, StartOrder, Shards, Answering
<1> QED BY <1>1, <1>2, <1>3, <1>4, <1>5, <1>6

\* Tendermint's call comes back to the shard that made it.
LEMMA OwnServer ==
    ASSUME IInv, Answering, config.numOfShards > 0, Aligned(config),
           NEW topic \in Topics, NEW s \in ServerOf(ShardIndex(TopicHash[topic]))
    PROVE  s = TopicHash[topic] % config.numOfShards
<1>1. /\ config.numOfShards \in Nat \ {0}
      /\ opened = config.numOfShards
    BY NodeAssumption DEF IInv, TypeOK, StartOrder, Answering
<1> DEFINE i == TopicHash[topic] % config.numOfShards
<1>2. TopicHash[topic] \in Nat
    BY NodeAssumption
<1>3. i \in 0 .. config.numOfShards - 1
    BY <1>1, <1>2
<1>4. /\ s \in 0 .. config.numOfShards - 1
      /\ config.serverPorts[s + 1] = ProxyApp[config.shardPorts[i + 1]]
    BY <1>1, NodeAssumption DEF ServerOf, ShardIndex, Shards
<1>5. /\ i + 1 \in 1 .. config.numOfShards
      /\ s + 1 \in 1 .. config.numOfShards
    BY <1>1, <1>3, <1>4
<1>6. i + 1 = s + 1
    BY <1>4, <1>5 DEF Aligned
<1> QED BY <1>3, <1>4, <1>6

\* An accepted bulletin lies in the shard that its topic's hash gives.
LEMMA PutInv ==
    ASSUME IInv, NEW topic \in Topics, Put(topic)
    PROVE  IInv'
<1>1. PICK s \in ServerOf(ShardIndex(TopicHash[topic])), answered \in BOOLEAN :
        LET sn == Cardinality(UNION {disks[i] : i \in Shards})
            bulletin == [topic |-> topic, sn |-> sn]
        IN  /\ disks' = [disks EXCEPT ![s] = @ \cup {bulletin}]
            /\ accepted' = IF answered
                           THEN accepted \cup {[bulletin |-> bulletin, config |-> config]}
                           ELSE accepted
    BY DEF Put
<1> DEFINE bulletin == [topic |-> topic,
                        sn |-> Cardinality(UNION {disks[i] : i \in Shards})]
<1>2. /\ disks' = [disks EXCEPT ![s] = @ \cup {bulletin}]
      /\ accepted' \subseteq accepted \cup {[bulletin |-> bulletin, config |-> config]}
      /\ bulletin.topic = topic
    BY <1>1
<1> HIDE DEF bulletin
<1>3. /\ Answering /\ config.numOfShards > 0
      /\ UNCHANGED <<config, main, opened, abci, rpc>>
    BY DEF Put
<1>4. TypeOK' /\ StartOrder' /\ (disks = [i \in Shards |-> disks[i]])'
    BY <1>2, <1>3 DEF IInv, TypeOK, StartOrder, Shards, Answering, registerApis
<1>5. s \in Shards /\ config.numOfShards \in 1 .. MaxShards
    BY <1>3, NodeAssumption DEF ServerOf, IInv, TypeOK, StartOrder, Answering
<1>6. ASSUME NEW a \in accepted'
      PROVE  /\ a.config.numOfShards \in 1 .. MaxShards
             /\ a.bulletin.topic \in Topics
             /\ Aligned(a.config) =>
                  a.bulletin \in disks'[TopicHash[a.bulletin.topic] % a.config.numOfShards]
    <2>1. CASE a \in accepted
        <3>1. \A i \in Shards : disks[i] \subseteq disks'[i]
            BY <1>2, <1>5 DEF IInv
        <3>2. /\ a.config.numOfShards \in 1 .. MaxShards
              /\ a.bulletin.topic \in Topics
              /\ Aligned(a.config) =>
                   a.bulletin \in disks[TopicHash[a.bulletin.topic] % a.config.numOfShards]
            BY <2>1 DEF IInv, InItsShard
        <3>3. TopicHash[a.bulletin.topic] % a.config.numOfShards \in Shards
            BY <3>2, NodeAssumption DEF Shards
        <3> QED BY <3>1, <3>2, <3>3
    <2>2. CASE a = [bulletin |-> bulletin, config |-> config]
        <3>1. a.bulletin \in disks'[s]
            BY <1>2, <1>5, <2>2 DEF IInv
        <3>2. Aligned(a.config) => s = TopicHash[topic] % config.numOfShards
            BY <1>3, <2>2, OwnServer
        <3> QED BY <1>2, <1>5, <2>2, <3>1, <3>2
    <2> QED BY <1>2, <2>1, <2>2
<1>7. InItsShard'
    BY <1>6 DEF InItsShard, Aligned
<1> QED BY <1>4, <1>7 DEF IInv

\* In every reachable state the process has started in the order of cmdGanyApp, and
\* what it accepted lies in the shard of its hash.
THEOREM Invariance == Spec => []IInv
<1>1. IInv /\ [Next]_vars => IInv'
    <2> SUFFICES ASSUME IInv, [Next]_vars PROVE IInv'
        OBVIOUS
    <2>1. CASE UNCHANGED vars
        BY <2>1, StoredStay DEF vars, IInv, TypeOK, StartOrder, Answering, registerApis
    <2>2. CASE Next
        BY <2>2, StartingInv, ServersInv, PutInv DEF Next
    <2> QED BY <2>1, <2>2
<1> QED BY <1>1, InitInv, PTL DEF Spec

\* Of every configuration, and after any failures and restarts, requests are only
\* routed to shards whose database is open (gany.go:158-175).
THEOREM OpenShardsOnly == Spec => []ServedShardsAreOpen
<1>1. IInv => ServedShardsAreOpen
    <2> SUFFICES ASSUME IInv, Answering, config.numOfShards > 0, NEW topic \in Topics
                 PROVE  ShardIndex(TopicHash[topic]) < opened
        BY DEF ServedShardsAreOpen
    <2>1. opened = config.numOfShards /\ config.numOfShards \in Nat
        BY NodeAssumption DEF IInv, TypeOK, StartOrder, Answering
    <2>2. TopicHash[topic] \in Nat
        BY NodeAssumption
    <2> QED BY <2>1, <2>2 DEF ShardIndex
<1> QED BY <1>1, Invariance, PTL

\* What a client was told is in, it finds by its URL and by its topic, whatever process
\* answers, if the configuration still has as many shards and every Tendermint was
\* connected to its own shard (backend.go:120,369,376, gany.go:161-172).
THEOREM AcceptedStaysFound == Spec => []AcceptedIsFound
<1>1. IInv => AcceptedIsFound
    <2> SUFFICES ASSUME IInv, NEW a \in accepted,
                        a.config.numOfShards = config.numOfShards, Aligned(a.config)
                 PROVE  /\ a.bulletin \in GetBulletin(Url(a.bulletin))
                        /\ a.bulletin \in QueryBulletins(a.bulletin.topic)
        BY DEF AcceptedIsFound
    <2>1. a.bulletin \in disks[ShardIndex(TopicHash[a.bulletin.topic])]
        BY DEF IInv, InItsShard, ShardIndex
    <2>2. a.bulletin \in QueryBulletins(a.bulletin.topic)
        BY <2>1 DEF QueryBulletins, QueryShard
    <2>3. /\ Len(Url(a.bulletin)) = 2
          /\ Url(a.bulletin)[1] = TopicHash[a.bulletin.topic]
          /\ Url(a.bulletin)[2] = a.bulletin.sn
        BY DEF Url
    <2> QED BY <2>1, <2>2, <2>3 DEF GetBulletin, GetGanyTxByGanyUrl
<1> QED BY <1>1, Invariance, PTL
=============================================================================
