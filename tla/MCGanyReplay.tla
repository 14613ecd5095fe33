----------------------------- MODULE MCGanyReplay -----------------------------
(***************************************************************************)
(* Small instances of GanyReplay for TLC.                                   *)
(***************************************************************************)
EXTENDS GanyReplay

CONSTANTS t1, alice, x, y, auth1, p1, p2

MCPrefix == [e \in {t1, alice} |-> IF e = t1 THEN p1 ELSE p2]

New(from, duration) ==
    [type |-> 2, topic |-> t1, timestamp |-> 1, duration |-> duration,
     oldSn |-> NoSn, from |-> from, content |-> x, auth |-> auth1]

MCSns == (1 .. MaxBlockTime - 1) \X (0 .. MaxBlockTxs - 1)

\* An author creates, overwrites and deletes.
MCTxs ==
    LET created == {New(alice, 9)}
    IN  created
        \cup {[tx EXCEPT !.oldSn = sn, !.content = c] :
                tx \in created, sn \in MCSns, c \in {y, NoContent}}
=============================================================================
