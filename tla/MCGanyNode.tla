------------------------------ MODULE MCGanyNode ------------------------------
(***************************************************************************)
(* A small instance of GanyNode for TLC.                                    *)
(***************************************************************************)
EXTENDS GanyNode

Config(n, serverPorts, shardPorts, https, api) ==
    [numOfShards |-> n, serverPorts |-> serverPorts, shardPorts |-> shardPorts,
     https |-> https, api |-> api]

MCProxyApp == [port \in 1 .. 2 |-> 10 + port]

\* No shards, one, two, two with their ports swapped, a namespace that is missing, and
\* a number that is wrong.
MCConfigs == {
    Config(0, << >>, << >>, FALSE, TRUE),
    Config(1, <<11>>, <<1>>, FALSE, TRUE),
    Config(2, <<11, 12>>, <<1, 2>>, TRUE, TRUE),
    Config(2, <<12, 11>>, <<1, 2>>, FALSE, TRUE),
    Config(1, <<11>>, <<1>>, FALSE, FALSE),
    Config(2, <<11>>, <<1, 2>>, FALSE, TRUE)}

MCTopicHash == [topic \in {"a", "b", "c"} |->
                    IF topic = "a" THEN 4 ELSE IF topic = "b" THEN 5 ELSE 7]
=============================================================================
