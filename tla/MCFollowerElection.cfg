\* Elections whose logs arrive before their blocks.
SPECIFICATION Spec
CONSTANTS
    Slots <- MCSlots
    MaxListLength = 2
    Blocks <- MCBlocks
    LeaderLags = FALSE
    MaxHeight = 3
    MaxCrashes = 1
\* The leader stops at its bound.
CHECK_DEADLOCK FALSE
PROPERTIES
    ElectionIsCached
