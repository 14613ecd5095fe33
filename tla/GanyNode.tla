------------------------------- MODULE GanyNode -------------------------------
(***************************************************************************)
(* The process of a node (src/cmd/gany.go, src/rpc/): it opens a database    *)
(* and starts an ABCI server for each shard, then an RPC server, all in      *)
(* goroutines of their own, and routes each request to a shard by the topic. *)
(* Tendermint runs apart: for each shard the node calls one at its RPC port, *)
(* and that one connects to the ABCI server it is configured with. Any start *)
(* may fail, some failures end the process, and it may be stopped or crash   *)
(* and be started again, perhaps with another configuration.                *)
(*                                                                          *)
(* Application and payment are modules GanyApp and PutBulletin. Here a shard *)
(* is the bulletins in its database: a topic and a serial number each.      *)
(***************************************************************************)
EXTENDS Integers, Sequences, FiniteSets

CONSTANTS
    Configs,    \* what the configuration file may hold
    ProxyApp,   \* the ABCI port of each Tendermint: its RPC port -> port
    TopicHash,  \* topic -> the first four bytes of its hash, as a number
    MaxShards,  \* the most shards of a configuration
    MaxPuts     \* bound of the model

VARIABLES
    config,     \* the configuration file
    main,       \* "off", "opening" the shards, "running", "stopping"
    opened,     \* how many databases are open
    abci,       \* the ABCI server of each shard: "off", "starting", "serving", "failed"
    rpc,        \* the RPC server: the same, "http" before HTTPS has been tried, and
                \* "broken" when that failed
    disks,      \* ./tmp/shard%v/badger: shard -> its bulletins
    accepted    \* bulletins that clients were told are in, with the configuration

vars == <<config, main, opened, abci, rpc, disks, accepted>>

Shards == 0 .. MaxShards - 1
Topics == DOMAIN TopicHash

ASSUME NodeAssumption ==
    /\ MaxPuts \in Nat /\ MaxShards \in Nat
    /\ TopicHash \in [Topics -> Nat]
    /\ \A c \in Configs : c.numOfShards \in Nat /\ Len(c.serverPorts) <= MaxShards

Init ==
    /\ config \in Configs
    /\ main = "off" /\ opened = 0
    /\ abci = [s \in Shards |-> "off"]
    /\ rpc = "off"
    /\ disks = [s \in Shards |-> {}]
    /\ accepted = {}

-----------------------------------------------------------------------------
(* Starting and stopping.                                                   *)

EditConfig ==
    /\ main = "off"
    /\ config' \in Configs
    /\ UNCHANGED <<main, opened, abci, rpc, disks, accepted>>

\* A file without shards is as good as any other.
readConfig ==
    /\ Len(config.serverPorts) = config.numOfShards
    /\ Len(config.shardPorts) = config.numOfShards

\* All that the process was, is gone. The databases are never closed: main waits for
\* ever, and its deferred calls do not run.
Exit ==
    /\ main' = "off" /\ opened' = 0
    /\ abci' = [s \in Shards |-> "off"]
    /\ rpc' = "off"
    /\ UNCHANGED <<config, disks, accepted>>

Start ==
    /\ main = "off"
    /\ readConfig
    /\ main' = "opening"
    /\ UNCHANGED <<config, opened, abci, rpc, disks, accepted>>

\* The RPC server is started with the first shard.
OpenShard_RpcFirst ==
    /\ main = "opening"
    /\ opened < config.numOfShards
    /\ \/ /\ opened' = opened + 1
          /\ abci' = [abci EXCEPT ![opened] = "starting"]
          /\ rpc' = IF opened = 0 THEN "starting" ELSE rpc
          /\ main' = IF opened' = config.numOfShards THEN "running" ELSE main
          /\ UNCHANGED <<config, disks, accepted>>
       \/ Exit

\* A database that cannot be opened ends the process.
OpenShard ==
    /\ main = "opening"
    /\ opened < config.numOfShards
    /\ \/ /\ opened' = opened + 1
          /\ abci' = [abci EXCEPT ![opened] = "starting"]
          /\ UNCHANGED <<config, main, rpc, disks, accepted>>
       \/ Exit

\* Main waits until the shards can be called.
RunServers_WhenServing ==
    /\ main = "opening"
    /\ opened = config.numOfShards
    /\ \A s \in Shards : s < opened => abci[s] = "serving"
    /\ main' = "running"
    /\ rpc' = "starting"
    /\ UNCHANGED <<config, opened, abci, disks, accepted>>

RunServers ==
    /\ main = "opening"
    /\ opened = config.numOfShards
    /\ main' = "running"
    /\ rpc' = "starting"
    /\ UNCHANGED <<config, opened, abci, disks, accepted>>

\* startNewListener: a server that cannot be made ends the process, one that cannot
\* start is only logged.
StartListener(s) ==
    /\ abci[s] = "starting"
    /\ \/ /\ abci' = [abci EXCEPT ![s] = "serving"] \/ abci' = [abci EXCEPT ![s] = "failed"]
          /\ UNCHANGED <<config, main, opened, rpc, disks, accepted>>
       \/ Exit

\* OnStart: HTTP first, then HTTPS unless it is off.
StartHttp ==
    /\ rpc = "starting"
    /\ rpc' \in {IF config.https THEN "http" ELSE "serving", "failed"}
    /\ UNCHANGED <<config, main, opened, abci, disks, accepted>>

\* An error is only logged; HTTP goes on serving, and a server that has not started is
\* not stopped either.
StartHttps ==
    /\ rpc = "http"
    /\ rpc' \in {"serving", "broken"}
    /\ UNCHANGED <<config, main, opened, abci, disks, accepted>>

\* Signals are trapped once all is started; before that they kill. One cancels the
\* context that the servers wait for, and the process ends at once or soon after.
Signal ==
    /\ main = "running"
    /\ main' = "stopping"
    /\ UNCHANGED <<config, opened, abci, rpc, disks, accepted>>

StopServer ==
    /\ main = "stopping"
    /\ \/ rpc = "serving" /\ rpc' = "off" /\ UNCHANGED abci
       \/ /\ \E s \in Shards : abci[s] = "serving" /\ abci' = [abci EXCEPT ![s] = "off"]
          /\ UNCHANGED rpc
    /\ UNCHANGED <<config, main, opened, disks, accepted>>

\* After a signal, or by a crash.
Stop == main # "off" /\ Exit

-----------------------------------------------------------------------------
(* Requests.                                                                *)

\* Only the listed namespaces are registered.
registerApis == IF config.api THEN {"gany"} ELSE {}

Answering == rpc \in {"http", "serving", "broken"} /\ "gany" \in registerApis

\* The first four bytes of a hash choose the shard.
ShardIndex(hash) == hash % config.numOfShards

\* A URL begins with these four bytes, and goes on with the serial number.
Url(bulletin) == <<TopicHash[bulletin.topic], bulletin.sn>>

\* A query is routed by another part of the hash.
QueryShard_OtherBytes(hash) == (hash \div 2) % config.numOfShards
QueryShard(hash) == ShardIndex(hash)

GetGanyTxByGanyUrl(url) == {b \in disks[ShardIndex(url[1])] : b.sn = url[2]}

\* Text that is not a URL of two parts is an error, or fails where it is sliced.
GetBulletin(url) == IF Len(url) # 2 THEN {} ELSE GetGanyTxByGanyUrl(url)

QueryBulletins(topic) ==
    {b \in disks[QueryShard(TopicHash[topic])] : b.topic = topic}

\* The ABCI server that the shard's Tendermint is connected to.
ServerOf(s) ==
    {i \in Shards : /\ i < opened
                    /\ abci[i] = "serving"
                    /\ config.serverPorts[i + 1] = ProxyApp[config.shardPorts[s + 1]]}

\* PutBulletin, from the route to the block that Tendermint has executed. Without a
\* server it ends in an error. A request that is cut off may be executed all the same.
Put(topic) ==
    /\ Answering
    /\ config.numOfShards > 0
    /\ Cardinality(UNION {disks[s] : s \in Shards}) < MaxPuts
    /\ \E s \in ServerOf(ShardIndex(TopicHash[topic])), answered \in BOOLEAN :
        LET sn == Cardinality(UNION {disks[i] : i \in Shards})
            bulletin == [topic |-> topic, sn |-> sn]
        IN  /\ disks' = [disks EXCEPT ![s] = @ \cup {bulletin}]
            /\ accepted' = IF answered
                           THEN accepted \cup {[bulletin |-> bulletin, config |-> config]}
                           ELSE accepted
    /\ UNCHANGED <<config, main, opened, abci, rpc>>

Next ==
    \/ EditConfig \/ Start \/ OpenShard \/ RunServers \/ StartHttp \/ StartHttps
    \/ \E s \in Shards : StartListener(s)
    \/ Signal \/ StopServer \/ Stop
    \/ \E topic \in Topics : Put(topic)

\* Main and its goroutines run, unless the process ends. Nothing makes it end.
Spec ==
    /\ Init /\ [][Next]_vars
    /\ WF_vars(OpenShard) /\ WF_vars(RunServers)
    /\ WF_vars(StartHttp) /\ WF_vars(StartHttps)
    /\ \A s \in Shards : WF_vars(StartListener(s))

-----------------------------------------------------------------------------
(* Properties.                                                              *)

\* The parts of a process: none without it.
TypeOK ==
    /\ config \in Configs
    /\ main \in {"off", "opening", "running", "stopping"}
    /\ opened \in 0 .. MaxShards
    /\ abci \in [Shards -> {"off", "starting", "serving", "failed"}]
    /\ rpc \in {"off", "starting", "http", "serving", "broken", "failed"}
    /\ main = "off" => opened = 0 /\ ~Answering

\* Each Tendermint is connected to the shard that calls it, and to no other.
Aligned(c) ==
    \A i, j \in 1 .. c.numOfShards :
        c.serverPorts[j] = ProxyApp[c.shardPorts[i]] <=> i = j

\* Whoever was told that a bulletin is in finds it by its URL and by its topic, after
\* any restarts, crashes and other configurations in between, whenever the node serves
\* the ports of then: all three requests meet in one shard (backend.go:120, 369, 376),
\* whose database is at the same place (gany.go:161), and Tendermint's calls come back
\* to the shard that made them (gany.go:169-170).
AcceptedIsFound ==
    Answering => \A a \in accepted :
        a.config.numOfShards = config.numOfShards /\ Aligned(a.config) =>
            /\ a.bulletin \in GetBulletin(Url(a.bulletin))
            /\ a.bulletin \in QueryBulletins(a.bulletin.topic)

\* No request is routed to a shard whose database is not open: the servers of shards
\* start in any order, and the RPC server after all of the databases (gany.go:158-175).
ServedShardsAreOpen ==
    Answering /\ config.numOfShards > 0 =>
        \A topic \in Topics : ShardIndex(TopicHash[topic]) < opened

\* A start comes to an end: every server has reported what became of it, or the process
\* is gone or going. No part waits for another that failed (gany.go:158-184,208-212).
StartEnds ==
    main = "opening" ~>
        \/ main \in {"off", "stopping"}
        \/ /\ main = "running" /\ rpc \notin {"off", "starting"}
           /\ \A s \in Shards : s < config.numOfShards => abci[s] # "starting"
=============================================================================
