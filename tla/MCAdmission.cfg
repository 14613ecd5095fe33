\* Lengths that wrap at 6, and proofs of up to one call, two sets and two payments.
SPECIFICATION Spec
CONSTANTS
    Width = 6
    HeaderLen = 1
    a = a
    b = b
    c = c
    d = d
    Requests <- MCRequests
    Trees <- MCTrees
INVARIANTS
    StoredFieldsAreApart
    AcceptedIsEntitled
    EntitledIsNotRefused
\* A request ends.
CHECK_DEADLOCK FALSE
