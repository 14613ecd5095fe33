SPECIFICATION Spec
CONSTANTS
    Configs <- MCConfigs
    ProxyApp <- MCProxyApp
    TopicHash <- MCTopicHash
    MaxShards = 2
    MaxPuts = 2
INVARIANTS
    AcceptedIsFound
    ServedShardsAreOpen
PROPERTY
    StartEnds
