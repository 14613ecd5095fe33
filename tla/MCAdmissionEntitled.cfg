\* What a challenge promises, against what can be shown.
SPECIFICATION Spec
CONSTANTS
    Width = 6
    HeaderLen = 1
    a = a
    b = b
    c = c
    d = d
    Requests <- MCRequests
    Trees <- MCTrees
INVARIANT EntitledIsLetIn
\* A request ends.
CHECK_DEADLOCK FALSE
