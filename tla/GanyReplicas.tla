----------------------------- MODULE GanyReplicas -----------------------------
(***************************************************************************)
(* Two nodes of a shard. Tendermint gives both the same calls in the same    *)
(* order, and each gives the bulletins a life by its own clock: toValidTTL   *)
(* and badger read time.Now (src/app/app.go:596). What the two answer must   *)
(* be the same, for Tendermint takes the codes into the next block's header. *)
(* A node that executes a block later, or again, is a node whose clock is    *)
(* ahead.                                                                   *)
(***************************************************************************)
EXTENDS GanyApp

VARIABLES
    now2, txIndex2, batch2, committed2, resp2,  \* the second node's
    contested   \* a version came for a bulletin that one node only still had

rvars == <<vars, now2, txIndex2, batch2, committed2, resp2, contested>>

Second == INSTANCE GanyApp WITH
    now <- now2, txIndex <- txIndex2, batch <- batch2,
    committed <- committed2, resp <- resp2

Init2 == Init /\ Second!Init /\ contested = FALSE

-----------------------------------------------------------------------------

\* The clocks advance apart from each other.
Tick2 ==
    /\ \/ Tick /\ UNCHANGED <<now2, txIndex2, batch2, committed2, resp2>>
       \/ Second!Tick /\ UNCHANGED vars
    /\ UNCHANGED contested

BeginBlock2 == BeginBlock /\ Second!BeginBlock /\ UNCHANGED contested

Contests(tx) ==
    LET key == MainKey(tx, tx.oldSn)
    IN  /\ tx.oldSn # NoSn
        /\ Found(batch.entries, key, now) # Found(batch2.entries, key, now2)

\* The same writes fit: badger counts the bytes of a batch. What follows a contested
\* version is not looked at.
DeliverTx2(tx) ==
    /\ ~contested
    /\ contested' = Contests(tx)
    /\ \E accepted \in Accepted : Deliver(tx, accepted) /\ Second!Deliver(tx, accepted)

Commit2 == Commit /\ Second!Commit /\ UNCHANGED contested

Next2 ==
    \/ Tick2
    \/ BeginBlock2
    \/ \E tx \in Txs : DeliverTx2(tx)
    \/ Commit2

Spec2 == Init2 /\ [][Next2]_rvars

-----------------------------------------------------------------------------
(* Properties.                                                              *)

\* Two nodes that executed the same calls answer the same codes, give the same SNs
\* and hold the same bulletins and histories, whatever their clocks say of lifetimes
\* (app.go:596): all but a version of a bulletin that only one of them let expire.
ReplicasAgree ==
    ~contested =>
        /\ resp = resp2
        /\ txIndex = txIndex2
        /\ Bulletins(batch) = Bulletins(batch2)
        /\ Bulletins(committed) = Bulletins(committed2)
=============================================================================
