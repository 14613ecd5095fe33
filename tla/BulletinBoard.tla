---------------------------- MODULE BulletinBoard ----------------------------
(***************************************************************************)
(* What a shard promises to those who read and write bulletins: a board of   *)
(* posts that changes a block at a time. Keys, indexes, batches, lifetimes   *)
(* and clocks are the application's business.                               *)
(***************************************************************************)
EXTENDS Naturals, FiniteSets

CONSTANTS
    Txs,        \* the transactions that may be delivered
    Origin(_),  \* what all versions of a post share, of a transaction
    MayLose     \* whether a block may be lost as a whole

VARIABLES
    board,      \* the posts that readers see
    stage,      \* the posts they will see when the block is closed
    open,       \* whether a block is open
    next        \* the serial number the next post gets

bvars == <<board, stage, open, next>>

Sns == Nat \X Nat

Earlier(sn1, sn2) == sn1[1] < sn2[1] \/ (sn1[1] = sn2[1] /\ sn1[2] < sn2[2])

Init ==
    /\ board = {}
    /\ stage = {}
    /\ open = FALSE
    /\ next = <<0, 0>>

\* Serial numbers are used in order, and some are skipped.
Advance == next' \in Sns /\ Earlier(next, next')

Open ==
    /\ ~open
    /\ open' = TRUE
    /\ stage' = board
    /\ Advance
    /\ UNCHANGED board

Publish(tx) ==
    /\ open
    /\ stage' = stage \cup {[sn |-> next, tx |-> tx, versions |-> 1]}
    /\ Advance
    /\ UNCHANGED <<board, open>>

Revise(post, tx) ==
    /\ open
    /\ Origin(tx) = Origin(post.tx)
    /\ stage' = (stage \ {post})
                \cup {[sn |-> post.sn, tx |-> tx, versions |-> post.versions + 1]}
    /\ Advance
    /\ UNCHANGED <<board, open>>

Withdraw(post, tx) ==
    /\ open
    /\ Origin(tx) = Origin(post.tx)
    /\ stage' = stage \ {post}
    /\ Advance
    /\ UNCHANGED <<board, open>>

\* Something accepted that is nothing to read.
Skip ==
    /\ open
    /\ Advance
    /\ UNCHANGED <<board, stage, open>>

\* Posts run out of time. One that was revised has more of it.
Expire ==
    /\ board' \subseteq board
    /\ IF open THEN stage' \subseteq stage ELSE stage' = board'
    /\ UNCHANGED <<open, next>>

Close ==
    /\ open
    /\ open' = FALSE
    /\ board' = stage \/ (MayLose /\ board' = board)
    /\ stage' = board'
    /\ UNCHANGED next

Next ==
    \/ Expire
    \/ Open
    \/ Close
    \/ Skip
    \/ \E tx \in Txs :
        \/ Publish(tx)
        \/ \E post \in stage : Revise(post, tx) \/ Withdraw(post, tx)

Spec == Init /\ [][Next]_bvars
=============================================================================
