\* Three blocks of the leader and a crash of the follower.
SPECIFICATION Spec
CONSTANTS
    Slots <- MCSlots
    MaxListLength = 2
    Blocks <- MCBlocks
    LeaderLags = FALSE
    MaxHeight = 3
    MaxCrashes = 1
INVARIANTS
    StateIsPrefix
PROPERTIES
    StateNeverGoesBack
    CacheNeverGoesBack
    FollowerCatchesUp
\* The leader stops at its bound.
CHECK_DEADLOCK FALSE
